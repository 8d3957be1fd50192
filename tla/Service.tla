------------------------------ MODULE Service ------------------------------
(***************************************************************************)
(* What the program does with its configuration (src/src/lib.rs): run the  *)
(* command it was given, or start the service step by step and answer      *)
(* callbacks (src/src/receiver/mod.rs up to the first statement on the     *)
(* store, where module Receiver takes over).                               *)
(*                                                                         *)
(* An operator who ran `doctor` and was told that all is well starts the   *)
(* service with the same launch: `approved` remembers the verdict.         *)
(***************************************************************************)
EXTENDS Configuration, Callback

CONSTANTS
    Requests,   \* the callbacks considered
    Issued,     \* the secrets WeChat issued: token, app id, AES key
    AppBytes    \* the bytes of each word, were it an app id

Words == DOMAIN AppBytes
Text == [shape : Shapes \cup {"absent"}, word : Words]
Commands == {"none", "version", "doctor", "status", "health", "ready"}
DoctorDirs == {"source", "source_log", "raw", "processed", "database"}

Switches == {"help", "version", "verbose", "processEnv"}

\* What an operator can provide: arguments by their kind, entries that name a
\* setting in one of its spellings, directories in some state.
Argument ==
    {token \in [kind : {"word", "switch", "flag", "flag=", "env-file", "text", "unknown"},
                name : STRING, text : Text] :
        /\ token.kind = "word" => token.name \in Commands
        /\ token.kind = "switch" => token.name \in Switches
        /\ token.kind \in {"flag", "flag="} => token.name \in Keys}
Spelling == {"name", "alias", "old", "oldAlias"}
Entry == [key : Keys, form : Spelling, text : Text]
Line == [key : Keys \cup {"comment", "broken"}, form : Spelling, text : Text]
Disk == [DoctorDirs -> {"present", "missing", "readonly", "forbidden"}]
Launch == [args : Seq(Argument), env : SUBSET Entry,
           file : [readable : BOOLEAN, lines : Seq(Line)], disk : Disk]

\* The secrets WeChat issues have no blanks, and nothing is no message.  A
\* request that carries a payload says which text the payload frames, if it
\* frames one that holds a message; and what opening a payload with another
\* key gives does not name an app.
ASSUME ServiceAssumption ==
    /\ Launches \subseteq Launch
    /\ "none" \in Words /\ \A w \in Words : AppBytes[w] \in Seq(Nat)
    /\ Issued \in [token : Text, app : Text, key : Text]
    /\ \A secret \in DOMAIN Issued : Issued[secret].shape = "plain"
    /\ DOMAIN Messages \subseteq Seq(Nat) \ {<<>>}
    /\ \A r \in Requests :
          LET framed == Unframe(r.payload.bytes)
          IN (framed /= Malformed /\ framed.xml \in DOMAIN Messages) =>
                /\ r.xml \in Seq(Nat) /\ framed.app \in Seq(Nat)
                /\ r.payload.bytes = Frame(r.xml, framed.app)
    /\ \A bytes \in Noise : Unframe(bytes) /= Malformed =>
          \A w \in Words : Unframe(bytes).app \notin {AppBytes[w], <<32>> \o AppBytes[w]}

VARIABLES
    approved,   \* doctor found no blocking problem
    disk,       \* each directory: present, missing, readonly or forbidden
    members,    \* whether the configured admins are whitelisted
    clients,    \* which external clients are real
    worker,     \* whether the worker loop was spawned
    request, stage, plainXml, row, answer   \* the callback being handled

machine == <<approved, disk>>
started == <<members, clients, worker>>
handled == <<request, stage, plainXml, row, answer>>
vars == <<configVars, machine, started, handled>>

NoRequest == [nonce |-> "none"]
NoRow == [type |-> "none", columns |-> {}]

IsSet(k) == config[k] /= Default
IsOn(k, default) == IF IsSet(k) THEN config[k].word = "true" ELSE default

ServiceInit ==
    /\ Init
    /\ approved = FALSE
    /\ disk = launch.disk
    /\ members = FALSE
    /\ clients = {}
    /\ worker = FALSE
    /\ request = NoRequest /\ stage = "idle" /\ plainXml = <<>>
    /\ row = NoRow /\ answer = 0

Configure == ConfigNext /\ UNCHANGED <<machine, started, handled>>

Go(from, to) == phase = from /\ phase' = to

----------------------------------------------------------------------------
(* Commands                                                                *)

\* The directory of the database file: none for a bare file name.
HasParent == IsSet("DATABASE_URL") => config["DATABASE_URL"].word /= "bare"

\* check_dir: made if it is missing, unless it is the source directory.
MadeBy(dirs) == [d \in DOMAIN disk |->
    IF d \in dirs /\ disk[d] = "missing" THEN "present" ELSE disk[d]]

\* A bug: the key is asked for whatever the mode, but the token is not.
DoctorRequiresKey == {"WECHAT_ADMIN_OPENIDS", "ADMIN_VIEW_KEY", "WECHAT_ENCODING_AES_KEY"}

\* check_required, for the settings doctor asks for.
DoctorRequires ==
    {"WECHAT_TOKEN", "WECHAT_ADMIN_OPENIDS", "ADMIN_VIEW_KEY"} \cup
    IF IsOn("WECHAT_ENCRYPTED_CALLBACK_ENABLED", FALSE)
    THEN {"WECHAT_ENCODING_AES_KEY"} ELSE {}

\* The parent of a bare file name is the empty path, which is no directory.
DoctorIsContent ==
    /\ \A k \in DoctorRequires : IsSet(k)
    /\ \A d \in DoctorDirs : disk'[d] = "present"
    /\ HasParent

RunDoctor ==
    /\ phase = "dispatch"
    /\ ~cli.verbose /\ cli.command = "doctor"
    /\ disk' = MadeBy(DoctorDirs \ ({"source"} \cup IF HasParent THEN {} ELSE {"database"}))
    /\ approved' = DoctorIsContent
    /\ phase' = IF approved' THEN "ended" ELSE "failed"
    /\ UNCHANGED <<launch, parsing, merged, read, started, handled>>

\* -V, status, health and ready; the last three may fail.  What status
\* makes at most is an empty database file.
RunOther ==
    /\ phase = "dispatch"
    /\ \/ cli.verbose /\ phase' = "ended"
       \/ /\ ~cli.verbose
          /\ cli.command \in {"status", "health", "ready"}
          /\ phase' \in {"ended", "failed"}
    /\ UNCHANGED <<launch, parsing, merged, read, machine, started, handled>>

\* The word the parser takes for the command: one that is no flag's value.
IsCommand(i) ==
    /\ launch.args[i].kind = "word"
    /\ i > 1 => launch.args[i - 1].kind \notin {"flag", "env-file"}

\* The operator starts the service with what doctor approved, leaving the
\* command out.
StartApproved ==
    /\ Go("ended", "parse")
    /\ approved
    /\ \E i \in DOMAIN launch.args :
          /\ IsCommand(i)
          /\ launch' = [launch EXCEPT !.args =
                           SubSeq(@, 1, i - 1) \o SubSeq(@, i + 1, Len(@))]
    /\ arg' = 1
    /\ cli' = NoCli
    /\ values' = [k \in Keys |-> Absent]
    /\ sources' = [k \in Keys |-> [layer |-> "default", alias |-> FALSE]]
    /\ config' = [k \in Keys |-> Default]
    /\ report' = [k \in Keys |-> [shown |-> Default, source |-> sources'[k]]]
    /\ UNCHANGED <<machine, started, handled>>

----------------------------------------------------------------------------
(* run_with_report                                                         *)

StartService ==
    /\ Go("dispatch", "token")
    /\ ~cli.verbose /\ cli.command = "none"
    /\ UNCHANGED <<launch, parsing, merged, read, machine, started, handled>>

Stays == UNCHANGED <<launch, parsing, merged, read, approved, handled>>

RequireToken ==
    /\ phase = "token"
    /\ phase' = IF IsSet("WECHAT_TOKEN") THEN "parent" ELSE "failed"
    /\ Stays /\ UNCHANGED <<disk, started>>

EnsureParent ==
    /\ phase = "parent"
    /\ IF HasParent /\ disk["database"] = "forbidden"
       THEN Exit("failed") /\ UNCHANGED disk
       ELSE /\ phase' = "connect"
            /\ disk' = MadeBy(IF HasParent THEN {"database"} ELSE {})
    /\ Stays /\ UNCHANGED started

ConnectAndMigrate ==
    /\ Go("connect", "seed")
    /\ Stays /\ UNCHANGED <<disk, started>>

\* Admins are added at every start and never taken away.
SeedAdmins ==
    /\ Go("seed", "clients")
    /\ members' = (members \/ IsSet("WECHAT_ADMIN_OPENIDS"))
    /\ Stays /\ UNCHANGED <<disk, clients, worker>>

\* build_external_clients, build_media_processor: Noop without their keys.
BuildClients ==
    /\ Go("clients", "spawn")
    /\ clients' = {c \in {"external", "media"} :
          \A k \in IF c = "external" THEN {"TENCENT_LBS_KEY"}
                   ELSE {"WECHAT_APP_ID", "WECHAT_APP_SECRET", "GEMINI_API_KEY"} :
             IsSet(k)}
    /\ Stays /\ UNCHANGED <<disk, members, worker>>

\* The worker is running before the address is known to be free.
SpawnWorker ==
    /\ Go("spawn", "bind")
    /\ worker' = IsOn("WORKER_ENABLED", TRUE)
    /\ Stays /\ UNCHANGED <<disk, members, clients>>

Bind ==
    /\ Go("bind", "serve")
    /\ Stays /\ UNCHANGED <<disk, started>>

\* The database or the address refuses; the process ends, its worker too.
StartFault ==
    /\ phase \in {"connect", "seed", "bind"}
    /\ Exit("failed")
    /\ worker' = FALSE
    /\ Stays /\ UNCHANGED <<disk, members, clients>>

----------------------------------------------------------------------------
(* A callback, up to process_plain_xml's first statement                   *)

WechatToken == config["WECHAT_TOKEN"]
AppId  == config["WECHAT_APP_ID"]
AesKey == config["WECHAT_ENCODING_AES_KEY"]

\* receive_message: encrypted only if both sides say so.
Encrypted(r) == IsOn("WECHAT_ENCRYPTED_CALLBACK_ENABLED", FALSE) /\ r.aes

\* The bytes of the configured app id; a blank around it is a byte too.
AppOf(id) == IF id.shape = "plain" THEN AppBytes[id.word]
             ELSE <<32>> \o AppBytes[id.word]

AtStage(s) == phase = "serve" /\ stage = s

Unmoved == UNCHANGED <<configVars, machine, started>>

\* An answer without a row: 400 or 403.
Refuse(status) == /\ stage' = "answered"
                  /\ answer' = status
                  /\ Unmoved /\ UNCHANGED <<request, plainXml, row>>

Receive(r) ==
    /\ AtStage("idle")
    /\ request' = r
    /\ stage' = IF Encrypted(r) THEN "encrypted" ELSE "plain"
    /\ Unmoved /\ UNCHANGED <<plainXml, row, answer>>

PlainIsSigned ==
    request.signature = Signature(WechatToken, request.nonce, NoPayload)

RefuseUnsigned ==
    \/ AtStage("plain") /\ ~PlainIsSigned /\ Refuse(403)
    \/ AtStage("encrypted") /\ IsSet("WECHAT_APP_ID") /\ IsSet("WECHAT_ENCODING_AES_KEY")
       /\ request.msgSignature = Unsigned /\ Refuse(403)

RefuseUnconfigured ==
    /\ AtStage("encrypted")
    /\ ~IsSet("WECHAT_APP_ID") \/ ~IsSet("WECHAT_ENCODING_AES_KEY")
    /\ Refuse(400)

MayArchive == \/ AtStage("plain") /\ PlainIsSigned
              \/ /\ AtStage("encrypted")
                 /\ IsSet("WECHAT_APP_ID") /\ IsSet("WECHAT_ENCODING_AES_KEY")
                 /\ request.msgSignature /= Unsigned

\* archive_bytes: the encrypted body is archived before it is verified.
Archive ==
    /\ MayArchive
    /\ request.safe
    /\ stage' = IF stage = "plain" THEN "parse" ELSE "decrypt"
    /\ plainXml' = request.xml
    /\ Unmoved /\ UNCHANGED <<request, row, answer>>

\* A nonce that is no path segment, or a disk that refuses.
ArchiveFails == MayArchive /\ Refuse(400)

EncryptedIsSigned ==
    request.msgSignature = Signature(WechatToken, request.nonce, request.payload)

\* A bug: the app id inside the frame is not compared.
IsForAnyApp(bytes) == Unframe(bytes) /= Malformed

\* split_plaintext succeeds and finds the configured app id.
IsForApp(bytes) == /\ Unframe(bytes) /= Malformed
                   /\ Unframe(bytes).app = AppOf(AppId)

\* decrypt_callback_message.
Decrypt ==
    /\ AtStage("decrypt")
    /\ request.envelope /\ EncryptedIsSigned /\ IsKey(AesKey)
    /\ \E bytes \in Opened(AesKey, request.payload) :
         /\ IsForApp(bytes)
         /\ plainXml' = Unframe(bytes).xml
    /\ stage' = "parse"
    /\ Unmoved /\ UNCHANGED <<request, row, answer>>

DecryptFails ==
    /\ AtStage("decrypt")
    /\ \/ request.envelope /\ ~EncryptedIsSigned /\ Refuse(403)
       \/ ~request.envelope /\ Refuse(400)
       \/ EncryptedIsSigned /\ ~IsKey(AesKey) /\ Refuse(400)
       \/ /\ request.envelope /\ EncryptedIsSigned
          /\ \E bytes \in Opened(AesKey, request.payload) : ~IsForApp(bytes)
          /\ Refuse(400)

Parse ==
    /\ AtStage("parse")
    /\ Parses(plainXml)
    /\ row' = RowOf(plainXml)
    /\ stage' = "answered"
    /\ answer' = 200
    /\ Unmoved /\ UNCHANGED <<request, plainXml>>

ParseFails == AtStage("parse") /\ ~Parses(plainXml) /\ Refuse(400)

Next ==
    \/ Configure
    \/ RunDoctor \/ RunOther \/ StartApproved
    \/ StartService \/ RequireToken \/ EnsureParent \/ ConnectAndMigrate
    \/ SeedAdmins \/ BuildClients \/ SpawnWorker \/ Bind \/ StartFault
    \/ \E r \in Requests : Receive(r)
    \/ RefuseUnsigned \/ RefuseUnconfigured \/ Archive \/ ArchiveFails
    \/ Decrypt \/ DecryptFails \/ Parse \/ ParseFails

Spec == ServiceInit /\ [][Next]_vars

----------------------------------------------------------------------------
(* Properties                                                              *)

\* Every setting is of its kind once the service runs, and secrets are never
\* in the report (from_lookup, config_report_entries).
TypeOK ==
    /\ \A k \in Keys :
         /\ Kind[k] = "bool" => config[k].shape \in {"default", "plain"}
         /\ Kind[k] \in {"number", "minutes"} =>
              config[k].shape \in {"default", "plain", "huge", "wrapped"}
         /\ IsSecret(k) => report[k].shown.shape \in {"default", "redacted"}
    /\ disk \in Disk
    /\ clients \subseteq {"external", "media"}
    /\ <<members, worker, approved>> \in BOOLEAN \X BOOLEAN \X BOOLEAN
    /\ answer \in {0, 200, 400, 403}

\* A setting comes from the first of the flags, the env file and the process
\* environment that mentions it, and from the default only if none does or
\* that first one leaves it blank (runtime_config_report_from_args).
TopLayerDecides ==
    phase = "dispatch" => \A k \in Keys :
        IF Deciding(k) = {} THEN config[k] = Default
        ELSE \E m \in Deciding(k) : config[k] = Get(k, m.text)

\* The report tells where a setting came from: the layer that decided, and
\* an alias only if the value is the one written under an alias
\* (config_report_entries).
ReportTellsTheSource ==
    phase = "dispatch" => \A k \in Keys :
        /\ report[k].source.layer = DecidingLayer(k)
        /\ Deciding(k) /= {} =>
             \E m \in Deciding(k) :
                /\ config[k] = Get(k, m.text)
                /\ report[k].source.alias = IsAlias(m)

----------------------------------------------------------------------------
\* No layer of the launch spells a key twice.
OneSpelling == /\ Rivals(launch.env) = {}
               /\ Rivals(FileMentions) = {}

\* The secrets are the ones issued, not a blank more.
AsIssued ==
    /\ WechatToken = Issued.token
    /\ IsOn("WECHAT_ENCRYPTED_CALLBACK_ENABLED", FALSE) =>
         AppId = Issued.app /\ AesKey = Issued.key

\* What WeChat sends, in the mode it was told.
IsGenuine(r) ==
    /\ r.safe
    /\ Parses(r.xml)
    /\ IF r.aes
       THEN /\ r.envelope
            /\ r.payload = [key |-> Issued.key.word,
                            bytes |-> Frame(r.xml, AppOf(Issued.app))]
            /\ r.msgSignature = Signature(Issued.token, r.nonce, r.payload)
            /\ Encrypted(r)
       ELSE r.signature = Signature(Issued.token, r.nonce, NoPayload)

\* Once doctor approved, the same launch gets past the checks of the start,
\* its admins are whitelisted when it serves, and a genuine callback is
\* refused by nothing but the archive: provided each key is spelled once and
\* the secrets are those issued (run_doctor, run_with_report).
ApprovedServiceAnswers ==
    (approved /\ OneSpelling) =>
      /\ phase = "token" => IsSet("WECHAT_TOKEN")
      /\ phase = "parent" => (HasParent => disk["database"] /= "forbidden")
      /\ phase = "serve" => members
      /\ (stage = "answered" /\ AsIssued /\ IsGenuine(request)) =>
            answer = 200 \/ (answer = 400 /\ plainXml /= request.xml)

\* A callback becomes a row only if it was signed with the configured token,
\* and in encrypted mode only if the signature covers the payload and the
\* payload frames this very text for the configured app; and the row then
\* has every column the worker needs (receive_plain_message,
\* receive_encrypted_message, parse_plain_message).
AcceptedIsGenuine ==
    answer = 200 =>
      /\ plainXml = request.xml
      /\ WorkerNeeds(row.type) \subseteq row.columns
      /\ IF Encrypted(request)
         THEN /\ request.msgSignature =
                   Signature(WechatToken, request.nonce, request.payload)
              /\ request.payload.key = AesKey.word
              /\ request.payload.bytes = Frame(request.xml, AppOf(AppId))
         ELSE request.signature = Signature(WechatToken, request.nonce, NoPayload)
============================================================================
