------------------------------ MODULE Pipeline ------------------------------
(***************************************************************************)
(* What one attempt at a message does between the claim and the end of its *)
(* job: the calls to WeChat, Gemini, Jina and Tencent, the access token,   *)
(* the files of the raw archive and of the processed artifacts, and the    *)
(* four places that take the result: processed.md, the daily log, the AI   *)
(* source and the message's row.                                           *)
(*                                                                         *)
(* There is one worker.  Contents are told apart by the attempt that wrote *)
(* them (0: absent, Torn: created but not written to the end).  A failed   *)
(* attempt may be followed by another one at any time; JobQueue says when. *)
(***************************************************************************)
EXTENDS Integers, Sequences

CONSTANTS
  Msg,          \* messages with a job
  Kind,         \* messages.message_type of each; "media" is image, voice or video
  Url,          \* addresses found in texts or sent as links
  Urls,         \* per message, the addresses in the order they occur in it
  PublicUrl,    \* those validate_public_http_url lets pass
  Keys,         \* which of the optional secrets are configured
  Timeout,      \* HTTP_TIMEOUT_SECONDS
  Skew,         \* WECHAT_TOKEN_REFRESH_SKEW_SECONDS
  Lifetimes,    \* values of expires_in WeChat may answer with
  MaxClock,     \* bound: the last instant modelled
  MaxTurns      \* bound: how many attempts are made

ASSUME MessageAssumption ==
  /\ Kind \in [Msg -> {"text", "link", "location", "media"}]
  /\ Urls \in [Msg -> Seq(Url)]
  /\ \A m \in Msg : Kind[m] \in {"location", "media"} => Urls[m] = <<>>
  /\ PublicUrl \subseteq Url
ASSUME BoundAssumption == {MaxClock, MaxTurns} \subseteq Nat
\* The defaults are 300 s and 30 s, and WeChat's tokens live for two hours.
ASSUME TimeAssumption ==
  /\ {Timeout, Skew} \subseteq Nat
  /\ Lifetimes \subseteq Nat
  /\ Skew >= 2 * Timeout
  /\ \A e \in Lifetimes : e > 2 * Timeout

VARIABLES
  clock, turn,         \* time; the number of the attempt
  pc, cur, file,       \* the attempt's step, its message, the file it is saving
  read,                \* positions of Urls[cur] whose page has been read
  cachedUntil,         \* CachedAccessToken.expires_at, 0 when there is none
  cachedGood,          \* what WeChat thinks: the cached token's real expiry
  held, sentAt,        \* real expiry of the token in hand; when the request left
  expiresIn,           \* expires_in of the answer that is under way
  tmp, disk,           \* contents of the temporary and of the final files
  log, source, body,   \* attempt last seen in the log, the source, the row
  done                 \* messages whose job is done

tokenVars  == <<cachedUntil, cachedGood, held, sentAt, expiresIn>>
fileVars   == <<tmp, disk>>
resultVars == <<log, source, body, done>>
vars == <<clock, turn, pc, cur, file, read, tokenVars, fileVars, resultVars>>

\* File names under the message's directory.  The k-th page of a text is
\* text-link-k; here it is named by the place of its address in the text.
Media     == <<"media", 0>>       \* raw/<key>/media.original.*
Lbs       == <<"lbs", 0>>         \* processed/<key>/tencent-lbs.json
Processed == <<"processed", 0>>   \* processed/<key>/processed.md
Page(i)   == <<"page", i>>        \* processed/<key>/text-link-<k>.jina-reader.md
FileName  == {Media, Lbs, Processed} \cup {Page(i) : i \in UNION {DOMAIN Urls[m] : m \in Msg}}

Torn    == -1
Version == 0 .. MaxTurns
Steps   == {"idle", "links", "geocode", "token", "tokenSent", "tokenIssued", "mediaSent",
            "create", "write", "rename", "describe", "render",
            "log", "source", "mark", "markDone"}

TypeOK ==
  /\ clock \in 0 .. MaxClock /\ turn \in Version
  /\ pc \in Steps /\ cur \in Msg /\ file \in FileName
  /\ read \subseteq DOMAIN Urls[cur]
  /\ cachedUntil \in Nat /\ cachedGood \in Nat
  /\ held \in Nat /\ sentAt \in Nat /\ expiresIn \in Nat
  /\ tmp \in [Msg -> [FileName -> Version \cup {Torn}]]
  /\ disk \in [Msg -> [FileName -> Version \cup {Torn}]]
  /\ log \in [Msg -> Version] /\ source \in [Msg -> Version] /\ body \in [Msg -> Version]
  /\ done \subseteq Msg

Init ==
  /\ clock = 0 /\ turn = 0
  /\ pc = "idle" /\ cur \in Msg /\ file = Processed /\ read = {}
  /\ cachedUntil = 0 /\ cachedGood = 0 /\ held = 0 /\ sentAt = 0 /\ expiresIn = 0
  /\ tmp = [m \in Msg |-> [n \in FileName |-> 0]]
  /\ disk = [m \in Msg |-> [n \in FileName |-> 0]]
  /\ log = [m \in Msg |-> 0] /\ source = [m \in Msg |-> 0] /\ body = [m \in Msg |-> 0]
  /\ done = {}

Tick ==
  /\ clock < MaxClock
  /\ clock' = clock + 1
  /\ UNCHANGED <<turn, pc, cur, file, read, tokenVars, fileVars, resultVars>>

-----------------------------------------------------------------------------
(* The attempt and its detours. *)

\* Which clients start-up built; without its keys a client refuses all calls.
HasExternalClients == "tencentLbs" \in Keys
HasMediaProcessor  == {"appId", "appSecret", "gemini"} \subseteq Keys

\* extract_http_urls keeps the first occurrence of each address.
Firsts(m) == {i \in DOMAIN Urls[m] : \A j \in 1 .. i - 1 : Urls[m][j] # Urls[m][i]}

FirstStep(m) ==
  IF Kind[m] = "text" /\ Firsts(m) = {} THEN "render"
  ELSE IF Kind[m] \in {"text", "link"} THEN "links"
  ELSE IF Kind[m] = "location" THEN "geocode" ELSE "token"

\* process_claimed_job loads the message and looks at its type.
Begin(m) ==
  /\ pc = "idle" /\ m \notin done /\ turn < MaxTurns
  /\ turn' = turn + 1
  /\ cur' = m /\ read' = {} /\ pc' = FirstStep(m)
  /\ UNCHANGED <<clock, file, tokenVars, fileVars, resultVars>>

\* Any error ends the attempt: a field that is missing, a refusal, an answer
\* that makes no sense, a body that is too large, a timeout, the disk, SQLite.
\* What it wrote so far stays, and so does the cached token.
Fail ==
  /\ pc # "idle"
  /\ pc' = "idle"
  /\ UNCHANGED <<clock, turn, cur, file, read, tokenVars, fileVars, resultVars>>

\* The process dies; the token cache is in its memory.
Crash ==
  /\ pc # "idle"
  /\ pc' = "idle"
  /\ cachedUntil' = 0 /\ cachedGood' = 0
  /\ UNCHANGED <<clock, turn, cur, file, read, held, sentAt, expiresIn, fileVars, resultVars>>

-----------------------------------------------------------------------------
(* write_file_atomically and the download, which do the same three steps. *)

BeginSave(n) == pc' = "create" /\ file' = n

PutTmp(v) == tmp' = [tmp EXCEPT ![cur][file] = v]

CreateTmp ==
  /\ pc = "create"
  /\ PutTmp(Torn)
  /\ pc' = "write"
  /\ UNCHANGED <<clock, turn, cur, file, read, tokenVars, disk, resultVars>>

\* The client's timeout covers the answer's body too.
InTime == clock <= sentAt + Timeout

WriteTmpUnchecked ==  \* mutant of WriteTmp: a short write is taken for success
  /\ pc = "write"
  /\ pc' = "rename"
  /\ UNCHANGED <<clock, turn, cur, file, read, tokenVars, fileVars, resultVars>>
WriteTmp ==
  /\ pc = "write"
  /\ file = Media => InTime
  /\ PutTmp(turn)
  /\ pc' = "rename"
  /\ UNCHANGED <<clock, turn, cur, file, read, tokenVars, disk, resultVars>>

AfterSave == IF file = Media THEN "describe"
             ELSE IF file = Processed THEN "log"
             ELSE IF file = Lbs THEN "render" ELSE "links"

RenameTmp ==
  /\ pc = "rename"
  /\ disk' = [disk EXCEPT ![cur][file] = tmp[cur][file]]
  /\ PutTmp(0)
  /\ pc' = AfterSave
  /\ UNCHANGED <<clock, turn, cur, file, read, tokenVars, resultVars>>

-----------------------------------------------------------------------------
(* Texts, links and locations. *)

\* Pages are read in the order of the text, each saved before the next is read;
\* the page of a link message is not saved.
ReadPage(i) ==
  /\ pc = "links" /\ HasExternalClients
  /\ i \in Firsts(cur) \ read
  /\ \A j \in Firsts(cur) \ read : i <= j
  /\ Urls[cur][i] \in PublicUrl
  /\ read' = read \cup {i}
  /\ IF Kind[cur] = "text" THEN BeginSave(Page(i)) ELSE UNCHANGED <<pc, file>>
  /\ UNCHANGED <<clock, turn, cur, tokenVars, fileVars, resultVars>>

PagesDone ==
  /\ pc = "links" /\ Firsts(cur) \subseteq read
  /\ pc' = "render"
  /\ UNCHANGED <<clock, turn, cur, file, read, tokenVars, fileVars, resultVars>>

\* Tencent's answer is saved once a summary could be drawn from it.
Geocode ==
  /\ pc = "geocode" /\ HasExternalClients
  /\ BeginSave(Lbs)
  /\ UNCHANGED <<clock, turn, cur, read, tokenVars, fileVars, resultVars>>

-----------------------------------------------------------------------------
(* Media: get_token, download_media, process_media. *)

SendMediaRequest(good) == pc' = "mediaSent" /\ held' = good /\ sentAt' = clock

UseCachedToken ==
  /\ pc = "token" /\ HasMediaProcessor
  /\ clock < cachedUntil
  /\ SendMediaRequest(cachedGood)
  /\ UNCHANGED <<clock, turn, cur, file, read, cachedUntil, cachedGood, expiresIn, fileVars, resultVars>>

FetchToken ==
  /\ pc = "token" /\ HasMediaProcessor
  /\ clock >= cachedUntil
  /\ pc' = "tokenSent" /\ sentAt' = clock
  /\ UNCHANGED <<clock, turn, cur, file, read, cachedUntil, cachedGood, held, expiresIn, fileVars, resultVars>>

\* WeChat's side: the token lives from the moment it is issued.
IssueToken ==
  /\ pc = "tokenSent" /\ InTime
  /\ \E e \in Lifetimes : expiresIn' = e /\ held' = clock + e
  /\ pc' = "tokenIssued"
  /\ UNCHANGED <<clock, turn, cur, file, read, cachedUntil, cachedGood, sentAt, fileVars, resultVars>>

WholeLifetime(e) == e         \* mutant of Ttl: no margin
UncheckedTtl(e)  == e - Skew  \* mutant of Ttl: not saturating
\* saturating_sub
Ttl(e) == IF e > Skew THEN e - Skew ELSE 0

\* The code's side: its copy of the lifetime starts when the answer is read,
\* at most Timeout after the token was issued.  The request for the file
\* follows without an await in between.
ReceiveToken ==
  /\ pc = "tokenIssued" /\ InTime
  /\ cachedUntil' = clock + Ttl(expiresIn)
  /\ cachedGood' = held
  /\ SendMediaRequest(held)
  /\ UNCHANGED <<clock, turn, cur, file, read, expiresIn, fileVars, resultVars>>

\* WeChat looks at the token and begins to answer.
TokenIsGood == clock < held
ServeMedia ==
  /\ pc = "mediaSent" /\ InTime /\ TokenIsGood
  /\ BeginSave(Media)
  /\ UNCHANGED <<clock, turn, cur, read, tokenVars, fileVars, resultVars>>

\* Gemini is sent the file and answers with some text.
Describe ==
  /\ pc = "describe"
  /\ pc' = "render"
  /\ UNCHANGED <<clock, turn, cur, file, read, tokenVars, fileVars, resultVars>>

-----------------------------------------------------------------------------
(* The end of process_claimed_job. *)

RenderUnsaved ==  \* mutant of Render: processed.md is not saved first
  /\ pc = "render"
  /\ pc' = "log"
  /\ UNCHANGED <<clock, turn, cur, file, read, tokenVars, fileVars, resultVars>>
\* The artifact is complete; save_processed_artifact comes first.
Render ==
  /\ pc = "render"
  /\ BeginSave(Processed)
  /\ UNCHANGED <<clock, turn, cur, read, tokenVars, fileVars, resultVars>>

Advance(step, next) == pc = step /\ pc' = next

WriteLog ==
  /\ Advance("log", "source")
  /\ log' = [log EXCEPT ![cur] = turn]
  /\ UNCHANGED <<clock, turn, cur, file, read, tokenVars, fileVars, source, body, done>>

WriteSource ==
  /\ Advance("source", "mark")
  /\ source' = [source EXCEPT ![cur] = turn]
  /\ UNCHANGED <<clock, turn, cur, file, read, tokenVars, fileVars, log, body, done>>

MarkSourceWritten ==
  /\ Advance("mark", "markDone")
  /\ body' = [body EXCEPT ![cur] = turn]
  /\ UNCHANGED <<clock, turn, cur, file, read, tokenVars, fileVars, log, source, done>>

MarkDone ==
  /\ Advance("markDone", "idle")
  /\ done' = done \cup {cur}
  /\ UNCHANGED <<clock, turn, cur, file, read, tokenVars, fileVars, log, source, body>>

-----------------------------------------------------------------------------
Next ==
  \/ Tick \/ Fail \/ Crash
  \/ \E m \in Msg : Begin(m)
  \/ CreateTmp \/ WriteTmp \/ RenameTmp
  \/ \E i \in DOMAIN Urls[cur] : ReadPage(i)
  \/ PagesDone \/ Geocode
  \/ UseCachedToken \/ FetchToken \/ IssueToken \/ ReceiveToken \/ ServeMedia \/ Describe
  \/ Render \/ WriteLog \/ WriteSource \/ MarkSourceWritten \/ MarkDone

Spec == Init /\ [][Next]_vars

-----------------------------------------------------------------------------
(* Properties. *)

\* valid_cached_token tests the token at one moment and WeChat at a later one.
\* However long both answers take, a request that has not timed out still
\* finds its token valid: the margin pays for the way of the token and for the
\* way of the request.
TokenGoodWhenUsed == pc = "mediaSent" /\ InTime => TokenIsGood

\* Four places take the result without a transaction.  None ever runs ahead of
\* the one written before it: what the row says was written to the source,
\* what the source says is in the log, and processed.md is not older than that.
TrailInOrder ==
  \A m \in Msg :
    /\ body[m] <= source[m]
    /\ source[m] <= log[m]
    /\ log[m] <= disk[m][Processed]

\* The payload files an artifact of message m names.
Payloads(m) ==
  {n \in FileName : \/ Kind[m] = "text" /\ \E i \in Firsts(m) : n = Page(i)
                    \/ Kind[m] = "location" /\ n = Lbs
                    \/ Kind[m] = "media" /\ n = Media}

\* An item is published complete or not at all: whatever failed or died in
\* between, in this attempt or in a later one, the files it names are there,
\* whole and at least as new as the item, and each of its addresses was read.
PublishedComplete ==
  \A m \in Msg : log[m] > 0 =>
    /\ \A n \in Payloads(m) : disk[m][n] >= log[m]
    /\ \A i \in DOMAIN Urls[m] : Urls[m][i] \in PublicUrl

\* Why the token is good: a cached one is dropped Timeout before its end, and a
\* fresh one is in hand at most Timeout after it was issued.
TokenMargin ==
  /\ sentAt <= clock
  /\ cachedUntil <= clock \/ cachedUntil + Timeout <= cachedGood
  /\ pc = "tokenIssued" => expiresIn \in Lifetimes /\ sentAt + expiresIn <= held
  /\ pc = "mediaSent" => sentAt + Timeout < held

SavingOne == pc \in {"create", "write", "rename"}
Saving(n) == SavingOne /\ file = n

\* Which kind of message each step belongs to.
StepsFitKind ==
  /\ pc = "links" => Kind[cur] \in {"text", "link"}
  /\ pc = "geocode" \/ Saving(Lbs) => Kind[cur] = "location"
  /\ \/ pc \in {"token", "tokenSent", "tokenIssued", "mediaSent", "describe"}
     \/ Saving(Media)
     => Kind[cur] = "media"
  /\ SavingOne /\ file \notin {Media, Lbs, Processed} => Kind[cur] = "text"

\* What this attempt has behind it is on the disk.
Gathered ==
  /\ \A n \in Payloads(cur) : disk[cur][n] = turn
  /\ \A i \in Firsts(cur) : Urls[cur][i] \in PublicUrl
FilesBehind ==
  /\ pc = "rename" => tmp[cur][file] = turn
  /\ pc # "idle" => \A i \in read :
       /\ Urls[cur][i] \in PublicUrl
       /\ Kind[cur] = "text" => disk[cur][Page(i)] = turn \/ Saving(Page(i))
  /\ pc = "describe" => disk[cur][Media] = turn
  /\ pc \in {"render", "log"} \/ Saving(Processed) => Gathered
  /\ pc = "log" => disk[cur][Processed] = turn
  /\ pc \in {"source", "mark"} => log[cur] = turn
  /\ pc = "mark" => source[cur] = turn
  /\ \A m \in Msg : log[m] <= turn

\* The inductive invariant: everything above together.
PipelineInv ==
  /\ TypeOK /\ TokenMargin
  /\ StepsFitKind /\ FilesBehind /\ TrailInOrder /\ PublishedComplete
=============================================================================
