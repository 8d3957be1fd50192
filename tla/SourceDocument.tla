--------------------------- MODULE SourceDocument ---------------------------
(***************************************************************************)
(* The files of source/mod.rs: the daily log and the AI source of a day,   *)
(* their markers, the two upserts, and the temporary file and rename every *)
(* write goes through.  The worker writes the log first, then the source,  *)
(* and may die or fail after any step; an attempt may be repeated later,   *)
(* with another thread.                                                    *)
(*                                                                         *)
(* A document is the sequence of what the upserts can find in it, its      *)
(* markers, and of the texts between them; layout is left out.  A text is  *)
(* told apart by the message and the attempt that rendered it.             *)
(*                                                                         *)
(* A body goes in as it is.  It may hold anything, so also text that reads *)
(* like a marker of the document, and the searches take such a marker for  *)
(* one of the writer's own: nothing here tells the two apart, except the   *)
(* history variable spoilt, which no action reads.                         *)
(***************************************************************************)
EXTENDS Naturals, Sequences

CONSTANTS
  Key,        \* sanitized message keys
  Day,        \* capture dates
  DayOf,      \* per key, the date its received_at starts with
  Threads,    \* per key, the thread ids the worker may choose, themselves keys
  NoKey,      \* of marks that name no message
  Missing,    \* no such file
  Quotes,     \* what a body may quote: per document, a sequence of its markers
  MaxTurns    \* bound: how many attempts are made

Output == {"log", "ai"}
Path   == Output \X Day \X {"md", "md.tmp"}
Documents == Output \X Day
Version == 1 .. MaxTurns

\* Tokens: a mark with the key it names, or text of a body with its version.
Mark(what, k) == <<what, k, 0>>
Body(k, v)    == <<"body", k, v>>
Header        == Mark("header", NoKey)
Opens == {"start", "thread"}
Marks == {"header", "start", "end",
          "thread", "open", "item", "itemEnd", "close", "threadEnd"}
MarksOf(out) == IF out = "log" THEN {"start", "end"} ELSE Marks \ {"header", "start", "end"}
MarkToken(out) == MarksOf(out) \X (Key \cup {NoKey}) \X {0}
Quote == [log : Seq(MarkToken("log")), ai : Seq(MarkToken("ai"))]
Token == (Marks \X (Key \cup {NoKey}) \X {0}) \cup ({"body"} \X Key \X Version)

ASSUME SourceAssumption ==
  /\ DayOf \in [Key -> Day]
  /\ Threads \in [Key -> SUBSET Key]
  /\ NoKey \notin Key
  /\ MaxTurns \in Nat
  /\ Quotes \subseteq Quote

VARIABLES
  files,               \* the two directories: path -> tokens, or Missing
  pc, key, thread,     \* the attempt: step, message key, thread id
  quote,               \* what its body quotes
  output, draft,       \* which file it is writing, and what
  turn,                \* its number
  spoilt               \* history: per document, the blocks and entries that were
                       \* given a body that quotes the document's markers

vars == <<files, pc, key, thread, quote, output, draft, turn, spoilt>>

\* A file that is missing is told apart from any that is there.
ASSUME MissingAssumption == Missing \notin Seq(Token)

TypeOK ==
  /\ files \in [Path -> Seq(Token) \cup {Missing}]
  /\ pc \in {"idle", "render", "create", "write", "rename"}
  /\ key \in Key /\ thread \in Key /\ quote \in Quotes
  /\ output \in Output
  /\ draft \in Seq(Token)
  /\ turn \in 0 .. MaxTurns
  /\ spoilt \in [Documents -> SUBSET Key]

Init ==
  /\ files = [p \in Path |-> Missing]
  /\ pc = "idle" /\ key \in Key /\ thread = key /\ quote \in Quotes
  /\ output = "log" /\ draft = <<>> /\ turn = 0
  /\ spoilt = [d \in Documents |-> {}]

-----------------------------------------------------------------------------
(* Rendering and the upserts. *)

\* str::find from a position on: the first place of token t, 0 if there is none.
IndexFrom(doc, from, t) ==
  LET places == {i \in from .. Len(doc) : doc[i] = t}
  IN  IF places = {} THEN 0 ELSE CHOOSE i \in places : \A j \in places : i <= j

\* The document with its places from .. to replaced by part.
Splice(doc, from, to, part) == SubSeq(doc, 1, from - 1) \o part \o SubSeq(doc, to + 1, Len(doc))

\* markdown_body: text, or text around what it quotes, marker by marker.
MarkdownBodyOld(k, v, q) ==  \* mutant of MarkdownBody: that of the attempt before
  <<Body(k, v - 1)>> \o q
MarkdownBody(k, v, q) ==
  IF q = <<>> THEN <<Body(k, v)>> ELSE <<Body(k, v)>> \o q \o <<Body(k, v)>>

RenderEntry(k, body) == <<Mark("start", k)>> \o body \o <<Mark("end", k)>>
RenderItem(k, body)  == <<Mark("item", k)>> \o body \o <<Mark("itemEnd", k)>>

UpsertToTheEnd(doc, k, entry) ==  \* mutant of UpsertDailyEntry: drops what follows
  LET s == IndexFrom(doc, 1, Mark("start", k))
  IN  IF s = 0 THEN doc \o entry ELSE SubSeq(doc, 1, s - 1) \o entry
UpsertDailyEntry(doc, k, entry) ==
  LET s == IndexFrom(doc, 1, Mark("start", k))
      e == IF s = 0 THEN 0 ELSE IndexFrom(doc, s, Mark("end", k))
  IN  IF e = 0 THEN doc \o entry ELSE Splice(doc, s, e, entry)

ThreadBlock(t, item) ==
  <<Mark("thread", t), Mark("open", NoKey)>> \o item
    \o <<Mark("close", NoKey), Mark("threadEnd", NoKey)>>

\* The place of a new item in the block s .. e: before its closing line.
InsertAtBlockEnd(doc, s, e) == e  \* mutant of InsertionPoint
InsertionPoint(doc, s, e) ==
  LET c == IndexFrom(SubSeq(doc, 1, e - 1), s, Mark("close", NoKey))
  IN  IF c = 0 THEN e ELSE c

UpsertAiThreadItem(doc, t, k, item) ==
  LET s  == IndexFrom(doc, 1, Mark("thread", t))
      e  == IF s = 0 THEN 0 ELSE IndexFrom(doc, s, Mark("threadEnd", NoKey))
      is == IndexFrom(SubSeq(doc, 1, e - 1), s, Mark("item", k))
      ie == IF is = 0 THEN 0 ELSE IndexFrom(SubSeq(doc, 1, e - 1), is, Mark("itemEnd", k))
      at == InsertionPoint(doc, s, e)
  IN  IF e = 0 THEN doc \o ThreadBlock(t, item)
      ELSE IF ie # 0 THEN Splice(doc, is, ie, item)
      ELSE Splice(doc, at, at - 1, item)

\* write_source: the document it makes of what it has read.
Rendered(out, current) ==
  LET body == MarkdownBody(key, turn, quote[out]) IN
  IF out = "log"
  THEN UpsertDailyEntry(current, key, RenderEntry(key, body))
  ELSE UpsertAiThreadItem(current, thread, key, RenderItem(key, body))

-----------------------------------------------------------------------------
(* An attempt: the log, then the source. *)

SourceFirst == "ai"  \* mutant of FirstOutput
FirstOutput == "log"

Begin(k, t, q) ==
  /\ pc = "idle" /\ turn < MaxTurns
  /\ turn' = turn + 1
  /\ key' = k /\ thread' = t /\ quote' = q
  /\ output' = FirstOutput /\ pc' = "render"
  /\ UNCHANGED <<files, draft, spoilt>>

TargetPath  == <<output, DayOf[key], "md">>
TmpPath     == <<output, DayOf[key], "md.tmp">>

\* A file that is missing starts with its header; one that cannot be read is
\* an error, see Fail.
Render ==
  /\ pc = "render"
  /\ LET found == files[TargetPath]
     IN  draft' = Rendered(output, IF found = Missing THEN <<Header>> ELSE found)
  /\ pc' = "create"
  /\ UNCHANGED <<files, key, thread, quote, output, turn, spoilt>>

CreateTmp ==
  /\ pc = "create"
  /\ files' = [files EXCEPT ![TmpPath] = <<>>]
  /\ pc' = "write"
  /\ UNCHANGED <<key, thread, quote, output, draft, turn, spoilt>>

WriteTmp ==
  /\ pc = "write"
  /\ files' = [files EXCEPT ![TmpPath] = draft]
  /\ pc' = "rename"
  /\ UNCHANGED <<key, thread, quote, output, draft, turn, spoilt>>

\* What the upsert looks for: the message's entry, or the thread's block.
BlockName == IF output = "log" THEN key ELSE thread

RenameTmp ==
  /\ pc = "rename"
  /\ files' = [files EXCEPT ![TmpPath] = Missing, ![TargetPath] = files[TmpPath]]
  /\ IF output = FirstOutput
     THEN output' = (CHOOSE o \in Output : o # output) /\ pc' = "render"
     ELSE output' = FirstOutput /\ pc' = "idle"
  /\ spoilt' = IF quote[output] = <<>> THEN spoilt
               ELSE [spoilt EXCEPT ![<<output, DayOf[key]>>] = @ \cup {BlockName}]
  /\ draft' = <<>>
  /\ UNCHANGED <<key, thread, quote, turn>>

\* The disk refuses, or the process dies: the attempt ends where it is.
Fail ==
  /\ pc # "idle"
  /\ pc' = "idle" /\ output' = FirstOutput /\ draft' = <<>>
  /\ UNCHANGED <<files, key, thread, quote, turn, spoilt>>

Next ==
  \/ \E k \in Key : \E t \in Threads[k], q \in Quotes : Begin(k, t, q)
  \/ Render \/ CreateTmp \/ WriteTmp \/ RenameTmp \/ Fail

Spec == Init /\ [][Next]_vars

-----------------------------------------------------------------------------
(* What a reader of the files sees. *)

Text(d) == IF files[<<d[1], d[2], "md">>] = Missing THEN <<>> ELSE files[<<d[1], d[2], "md">>]

\* The part of a document that comes before the first of some blocks.
PartBefore(doc, blocks) ==
  LET starts == {i \in DOMAIN doc : doc[i][1] \in Opens /\ doc[i][2] \in blocks}
  IN  IF starts = {} THEN doc
      ELSE SubSeq(doc, 1, (CHOOSE i \in starts : \A j \in starts : i <= j) - 1)

\* What is ahead of the first block or entry that was spoilt: all, as a rule.
SoundPart(d) == PartBefore(Text(d), spoilt[d])

\* The block or entry that place i of a document is in; NoKey for the header.
BlockOf(doc, i) ==
  LET starts == {j \in 1 .. i : doc[j][1] \in Opens}
  IN  IF starts = {} THEN NoKey ELSE doc[CHOOSE j \in starts : \A h \in starts : h <= j][2]

\* Where a document has its bodies, and the block and key one is found under.
BodiesAt(doc) == {i \in DOMAIN doc : doc[i][1] = "body"}
Place(doc, i) == <<BlockOf(doc, i), doc[i][2]>>

\* What a document holds, and which place is ahead of which.
Entries(doc) ==
  [held  |-> {[place |-> Place(doc, i), version |-> doc[i][3]] : i \in BodiesAt(doc)},
   order |-> {<<Place(doc, p[1]), Place(doc, p[2])>> :
                p \in {q \in BodiesAt(doc) \X BodiesAt(doc) : q[1] < q[2]}}]

\* Entries(SoundPart(d)); TLC computes a bound document once, not at each use.
ListOf(d) == CHOOSE list \in {Entries(doc) : doc \in {SoundPart(d)}} : TRUE

\* Which mark may follow which.
Follows(x, y) ==
  \/ x[1] \in {"header", "end"} /\ y[1] = "start"
  \/ x[1] \in {"header", "threadEnd"} /\ y[1] = "thread"
  \/ x[1] = "thread" /\ y[1] = "open"
  \/ x[1] \in {"open", "itemEnd"} /\ y[1] = "item"
  \/ x[1] \in {"start", "item"} /\ y[1] = "body" /\ x[2] = y[2]
  \/ x[1] = "body" /\ y[1] \in {"end", "itemEnd"} /\ x[2] = y[2]
  \/ x[1] = "itemEnd" /\ y[1] = "close"
  \/ x[1] = "close" /\ y[1] = "threadEnd"

-----------------------------------------------------------------------------
(* Properties. *)

\* A body that quotes markers harms nothing ahead of its own block, whatever it
\* quotes and whatever is written after it; and where none does, no message is
\* harmed at all.  Up to the first such block the markers of both documents
\* nest: the header comes first, every block and entry is closed before the
\* next begins, and none occurs twice.  This is so whatever dies in between,
\* and however often an item is written again.
WellFormed ==
  \A d \in Documents : Text(d) # <<>> =>
    LET doc == SoundPart(d) IN
      /\ doc # <<>> /\ doc[1] = Header /\ doc[Len(doc)][1] \in {"header", "end", "threadEnd"}
      /\ \A i \in 1 .. Len(doc) - 1 : Follows(doc[i], doc[i + 1])
      /\ \A i, j \in DOMAIN doc : doc[i][1] \in Opens /\ doc[i] = doc[j] => i = j

\* The log is what the source can be audited against: every item of the source
\* has an entry in that day's log, at least as new, whatever the source's own
\* markers have come to; only bodies that quote the log's markers may undo it.
LogCoversSource ==
  \A day \in Day : spoilt[<<"log", day>>] = {} =>
    LET source == Text(<<"ai", day>>)
        log    == Text(<<"log", day>>) IN
    \A i \in BodiesAt(source) : \E j \in BodiesAt(log) :
      log[j][2] = source[i][2] /\ log[j][3] >= source[i][3]

\* Parsed by their markers, the documents change as lists of keyed entries do,
\* up to the first block whose body quotes markers.
Keyed == INSTANCE KeyedEntries WITH
  Document <- Documents, Block <- Key,
  entries <- [d \in Documents |-> ListOf(d)]
KeepsEntries == Keyed!Spec

\* docs/technical-design.en.md:116: "Both source outputs use hidden markers to
\* upsert entries idempotently".  That is, what an attempt has just written it
\* would not change by writing it again.
UpsertsAreIdempotent == pc = "create" => Rendered(output, draft) = draft
=============================================================================
