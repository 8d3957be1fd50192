---------------------------- MODULE ServiceProofs ----------------------------
(***************************************************************************)
(* Proofs about the configuration the service runs with, the start doctor  *)
(* approved of and the callbacks it answers: for any launches (command     *)
(* lines, environments, env files with any spellings of the keys) and      *)
(* requests, whatever order the entries of a hash map come in.             *)
(***************************************************************************)
EXTENDS Service, FramingProofs, FiniteSetTheorems, SequenceTheorems, TLAPS

-----------------------------------------------------------------------------
(* What the map of values holds after each layer.                          *)

\* Nobody has mentioned the key yet.
Open(k) == /\ values[k] = Absent
           /\ sources[k] = [layer |-> "default", alias |-> FALSE]

\* The value of the key and its recorded source are those of one mention.
ReadFrom(ms, layer, k) ==
    \E m \in ms : /\ m.key = k
                  /\ values[k] = m.text
                  /\ sources[k] = SourceOf(m, layer)

AfterEnv(k) == IF k \in Named(EnvMentions)
               THEN ReadFrom(EnvMentions, "process-env", k) ELSE Open(k)

AfterFile(k) == IF k \in Named(FileMentions)
                THEN ReadFrom(FileMentions, "env-file", k) ELSE AfterEnv(k)

AfterFlags(k) == IF k \in Named(FlagMentions)
                 THEN ReadFrom(FlagMentions, "cli", k) ELSE AfterFile(k)

IsRead(k) == /\ config[k] = Get(k, values[k])
             /\ report[k] = Reported(k, config[k])

\* The inductive invariant: how far the merge is at each phase.
MergeInv ==
    /\ phase \in {"parse", "process-env"} => \A k \in Keys : Open(k)
    /\ phase = "env-file" => \A k \in Keys : AfterEnv(k)
    /\ phase = "cli" => \A k \in Keys : AfterFile(k)
    /\ phase \in {"lookup", "dispatch"} => \A k \in Keys : AfterFlags(k)
    /\ phase = "dispatch" => \A k \in Keys : IsRead(k)

MergePhases == {"parse", "process-env", "env-file", "cli", "lookup", "dispatch"}

-----------------------------------------------------------------------------
\* Whatever order the entries of a layer come in, one mention of each key it
\* names is inserted last.
LEMMA OneIsLast ==
    ASSUME NEW ms, NEW last \in Insertions(ms), NEW k \in Named(ms)
    PROVE  The(last, k) \in ms /\ The(last, k).key = k
<1>1. PICK m \in ms : m.key = k
  BY DEF Named
<1>2. PICK w \in SUBSET Rivals(ms) :
        /\ last = w \cup (ms \ Rivals(ms))
        /\ \A n \in Rivals(ms) : Cardinality({x \in w : x.key = n.key}) = 1
  BY DEF Insertions
<1>3. last \subseteq ms
  BY <1>2 DEF Rivals
<1>4. \E n \in last : n.key = k
  <2>1. CASE m \in Rivals(ms)
    <3>1. Cardinality({x \in w : x.key = k}) = 1
      BY <1>1, <1>2, <2>1
    <3>2. {x \in w : x.key = k} # {}
      BY <3>1, FS_EmptySet
    <3> QED
      BY <1>2, <3>2
  <2>2. CASE m \notin Rivals(ms)
    BY <1>1, <1>2, <2>2
  <2> QED
    BY <2>1, <2>2
<1>5. The(last, k) \in last /\ The(last, k).key = k
  BY <1>4 DEF The
<1> QED
  BY <1>3, <1>5

\* A layer decides the keys it names, by one of its mentions, and no others.
LEMMA InsertLayer ==
    ASSUME NEW ms, NEW layer, Insert(ms, layer), NEW k \in Keys
    PROVE  IF k \in Named(ms)
           THEN \E m \in ms : /\ m.key = k
                              /\ values'[k] = m.text
                              /\ sources'[k] = SourceOf(m, layer)
           ELSE values'[k] = values[k] /\ sources'[k] = sources[k]
<1>1. PICK last \in Insertions(ms) :
        /\ values' = [l \in Keys |-> IF l \in Named(ms)
                                     THEN The(last, l).text ELSE values[l]]
        /\ sources' = [l \in Keys |-> IF l \in Named(ms)
                                      THEN SourceOf(The(last, l), layer) ELSE sources[l]]
  BY DEF Insert
<1>2. CASE k \in Named(ms)
  <2>1. The(last, k) \in ms /\ The(last, k).key = k
    BY <1>2, OneIsLast
  <2>2. values'[k] = The(last, k).text /\ sources'[k] = SourceOf(The(last, k), layer)
    BY <1>1, <1>2
  <2> QED
    BY <1>2, <2>1, <2>2
<1>3. CASE k \notin Named(ms)
  BY <1>1, <1>3
<1> QED
  BY <1>2, <1>3

\* The invariant is about the merge alone: a step that leaves the merge and
\* its phase alone keeps it, and so does one that leaves the merge behind.
LEMMA Unmerged ==
    ASSUME MergeInv, UNCHANGED <<launch, cli, values, sources, config, report>>,
           phase' = phase \/ phase' \notin MergePhases
    PROVE  MergeInv'
<1>1. /\ EnvMentions' = EnvMentions /\ FileMentions' = FileMentions
      /\ FlagMentions' = FlagMentions
  BY DEF EnvMentions, FileMentions, Lines, FlagMentions
<1>2. \A k \in Keys : /\ Open(k)' <=> Open(k)
                      /\ AfterEnv(k)' <=> AfterEnv(k)
                      /\ AfterFile(k)' <=> AfterFile(k)
                      /\ AfterFlags(k)' <=> AfterFlags(k)
                      /\ IsRead(k)' <=> IsRead(k)
  BY <1>1 DEF Open, AfterEnv, AfterFile, AfterFlags, ReadFrom, IsRead, Reported
<1> QED
  BY <1>2 DEF MergeInv, MergePhases

\* While arguments are parsed nothing is merged.
LEMMA ParseKeeps ==
    ASSUME MergeInv, phase = "parse", merged' = merged,
           phase' \in {"parse", "process-env"} \/ phase' \notin MergePhases
    PROVE  MergeInv'
<1>1. \A k \in Keys : Open(k)'
  BY DEF MergeInv, Open, merged
<1> QED
  BY <1>1 DEF MergeInv, MergePhases

\* The process environment is merged into settings nobody has mentioned.
LEMMA EnvKeeps ==
    ASSUME MergeInv, MergeProcessEnv
    PROVE  MergeInv'
<1>1. /\ phase = "process-env" /\ phase' = "env-file" /\ Insert(EnvMentions, "process-env")
      /\ EnvMentions' = EnvMentions
  BY DEF MergeProcessEnv, EnvMentions, parsing
<1>2. ASSUME NEW k \in Keys PROVE AfterEnv(k)'
  <2>1. Open(k)
    BY <1>1 DEF MergeInv
  <2> QED
    BY <1>1, <2>1, InsertLayer DEF AfterEnv, ReadFrom, Open
<1> QED
  BY <1>1, <1>2 DEF MergeInv

\* The env file is merged over the environment; if it cannot be, the run ends.
LEMMA FileKeeps ==
    ASSUME MergeInv, MergeEnvFile
    PROVE  MergeInv'
<1>1. CASE phase' = "failed"
  BY <1>1 DEF MergeInv
<1>2. CASE phase' = "cli" /\ Insert(FileMentions, "env-file")
  <2>1. phase = "env-file" /\ EnvMentions' = EnvMentions /\ FileMentions' = FileMentions
    BY DEF MergeEnvFile, EnvMentions, FileMentions, Lines, parsing
  <2>2. ASSUME NEW k \in Keys PROVE AfterFile(k)'
    <3>1. AfterEnv(k)
      BY <2>1 DEF MergeInv
    <3>2. CASE k \in Named(FileMentions)
      BY <1>2, <2>1, <3>2, InsertLayer DEF AfterFile, ReadFrom
    <3>3. CASE k \notin Named(FileMentions)
      <4>1. values'[k] = values[k] /\ sources'[k] = sources[k]
        BY <1>2, <3>3, InsertLayer
      <4>2. AfterEnv(k)'
        BY <2>1, <3>1, <4>1 DEF AfterEnv, ReadFrom, Open
      <4> QED
        BY <2>1, <3>3, <4>2 DEF AfterFile
    <3> QED
      BY <3>2, <3>3
  <2> QED
    BY <1>2, <2>2 DEF MergeInv
<1> QED
  BY <1>1, <1>2 DEF MergeEnvFile, Exit

\* The flags are merged over both.
LEMMA FlagsKeep ==
    ASSUME MergeInv, MergeFlags
    PROVE  MergeInv'
<1>1. /\ phase = "cli" /\ phase' = "lookup" /\ Insert(FlagMentions, "cli")
      /\ EnvMentions' = EnvMentions /\ FileMentions' = FileMentions
      /\ FlagMentions' = FlagMentions
  BY DEF MergeFlags, EnvMentions, FileMentions, Lines, FlagMentions, parsing
<1>2. ASSUME NEW k \in Keys PROVE AfterFlags(k)'
  <2>1. AfterFile(k)
    BY <1>1 DEF MergeInv
  <2>2. CASE k \in Named(FlagMentions)
    BY <1>1, <2>2, InsertLayer DEF AfterFlags, ReadFrom
  <2>3. CASE k \notin Named(FlagMentions)
    <3>1. values'[k] = values[k] /\ sources'[k] = sources[k]
      BY <1>1, <2>3, InsertLayer
    <3>2. AfterFile(k)'
      BY <1>1, <2>1, <3>1 DEF AfterFile, AfterEnv, ReadFrom, Open
    <3> QED
      BY <1>1, <2>3, <3>2 DEF AfterFlags
  <2> QED
    BY <2>2, <2>3
<1> QED
  BY <1>1, <1>2 DEF MergeInv

\* Every setting is read from the map as it then is, and reported.
LEMMA LookupKeeps ==
    ASSUME MergeInv, Lookup
    PROVE  MergeInv'
<1>1. /\ phase = "lookup" /\ phase' = "dispatch"
      /\ UNCHANGED <<launch, cli, values, sources>>
      /\ \A k \in Keys : config'[k] = Get(k, values[k])
      /\ \A k \in Keys : report'[k] = Reported(k, config'[k])
  BY DEF Lookup, parsing, merged
<1>2. /\ EnvMentions' = EnvMentions /\ FileMentions' = FileMentions
      /\ FlagMentions' = FlagMentions
  BY <1>1 DEF EnvMentions, FileMentions, Lines, FlagMentions
<1>3. \A k \in Keys : AfterFlags(k)'
  BY <1>1, <1>2 DEF MergeInv, Open, AfterEnv, AfterFile, AfterFlags, ReadFrom
<1>4. \A k \in Keys : IsRead(k)'
  BY <1>1 DEF IsRead, Reported
<1> QED
  BY <1>1, <1>3, <1>4 DEF MergeInv

\* Reading the configuration keeps what the map of values holds.
LEMMA ConfigureKeeps ==
    ASSUME MergeInv, ConfigNext
    PROVE  MergeInv'
<1>1. ASSUME ParseCommand \/ ParseSwitch \/ ParseEnvFile \/ ParseFlag
      PROVE  MergeInv'
  <2>1. phase = "parse" /\ UNCHANGED <<phase, merged>>
    BY <1>1 DEF ParseCommand, ParseSwitch, ParseEnvFile, ParseFlag, Parsing, Parsed
  <2> QED
    BY <2>1, ParseKeeps
<1>2. ASSUME RefuseArgument \/ FinishParsing PROVE MergeInv'
  <2>1. phase = "parse" /\ merged' = merged /\ phase' \in {"failed", "ended", "process-env"}
    BY <1>2 DEF RefuseArgument, FinishParsing, Parsing, Exit
  <2> QED
    BY <2>1, ParseKeeps DEF MergePhases
<1>3. ASSUME LookupFails PROVE MergeInv'
  <2>1. phase' = "failed"
    BY <1>3 DEF LookupFails, Exit
  <2> QED
    BY <2>1 DEF MergeInv
<1> QED
  BY <1>1, <1>2, <1>3, EnvKeeps, FileKeeps, FlagsKeep, LookupKeeps DEF ConfigNext

-----------------------------------------------------------------------------
(* Commands, start and callbacks.                                          *)

\* A service that starts after doctor starts with nothing merged.
LEMMA StartAgain ==
    ASSUME StartApproved
    PROVE  MergeInv'
<1>1. /\ phase' = "parse"
      /\ values' = [k \in Keys |-> Absent]
      /\ sources' = [k \in Keys |-> [layer |-> "default", alias |-> FALSE]]
  BY DEF StartApproved, Go
<1>2. \A k \in Keys : Open(k)'
  BY <1>1 DEF Open
<1> QED
  BY <1>1, <1>2 DEF MergeInv

\* The commands and the entry into the start leave the configuration alone.
LEMMA CommandKeeps ==
    ASSUME MergeInv, RunDoctor \/ RunOther \/ StartService
    PROVE  MergeInv'
<1>1. UNCHANGED <<launch, cli, values, sources, config, report>>
  BY DEF RunDoctor, RunOther, StartService, parsing, merged, read
<1>2. phase' \in {"ended", "failed", "token"}
  BY DEF RunDoctor, RunOther, StartService, Go
<1> QED
  BY <1>1, <1>2, Unmerged DEF MergePhases

\* So do the steps of the start.
LEMMA StartKeeps ==
    ASSUME MergeInv,
           \/ RequireToken \/ EnsureParent \/ ConnectAndMigrate \/ SeedAdmins
           \/ BuildClients \/ SpawnWorker \/ Bind \/ StartFault
    PROVE  MergeInv'
<1>1. UNCHANGED <<launch, cli, values, sources, config, report>>
  BY DEF RequireToken, EnsureParent, ConnectAndMigrate, SeedAdmins, BuildClients,
         SpawnWorker, Bind, StartFault, Stays, parsing, merged, read
<1>2. phase' \in {"parent", "failed", "connect", "seed", "clients", "spawn", "bind", "serve"}
  BY DEF RequireToken, EnsureParent, ConnectAndMigrate, SeedAdmins, BuildClients,
         SpawnWorker, Bind, StartFault, Go, Exit
<1> QED
  BY <1>1, <1>2, Unmerged DEF MergePhases

\* So do the steps of a callback.
LEMMA CallbackKeeps ==
    ASSUME MergeInv,
           \/ \E r \in Requests : Receive(r)
           \/ RefuseUnsigned \/ RefuseUnconfigured \/ Archive \/ ArchiveFails
           \/ Decrypt \/ DecryptFails \/ Parse \/ ParseFails
    PROVE  MergeInv'
<1>1. Unmoved
  BY DEF Receive, RefuseUnsigned, RefuseUnconfigured, Archive, ArchiveFails, Decrypt,
         DecryptFails, Parse, ParseFails, Refuse
<1>2. UNCHANGED <<launch, cli, values, sources, config, report, phase>>
  BY <1>1 DEF Unmoved, configVars, parsing, merged, read
<1> QED
  BY <1>2, Unmerged

\* And so does every step, for it is one of these or a new launch.
LEMMA MergeStep == MergeInv /\ [Next]_vars => MergeInv'
<1> SUFFICES ASSUME MergeInv, [Next]_vars PROVE MergeInv'
  OBVIOUS
<1>1. CASE UNCHANGED vars
  <2>1. UNCHANGED <<launch, cli, values, sources, config, report, phase>>
    BY <1>1 DEF vars, configVars, parsing, merged, read
  <2> QED
    BY <2>1, Unmerged
<1>2. CASE Next
  BY <1>2, ConfigureKeeps, StartAgain, CommandKeeps, StartKeeps, CallbackKeeps
     DEF Next, Configure
<1> QED
  BY <1>1, <1>2

\* At a launch nobody has mentioned any setting.
LEMMA MergeStart == ServiceInit => MergeInv
BY DEF ServiceInit, Init, MergeInv, Open

-----------------------------------------------------------------------------
(* Where a setting comes from.                                             *)

\* At every phase the map of values holds the layers merged so far.
THEOREM MergeInvariant == Spec => []MergeInv
BY MergeStart, MergeStep, PTL DEF Spec

\* What the deciding layer is, in terms of the mentions of a key.
LEMMA Decides ==
    ASSUME NEW k \in Keys, AfterFlags(k)
    PROVE  /\ Deciding(k) = {} => Open(k) /\ DecidingLayer(k) = "default"
           /\ Deciding(k) # {} => ReadFrom(Deciding(k), DecidingLayer(k), k)
<1> DEFINE Of(ms) == {m \in ms : m.key = k}
<1>1. \A ms : k \in Named(ms) <=> Of(ms) # {}
  BY DEF Named
<1>2. \A ms, layer : ReadFrom(ms, layer, k) => ReadFrom(Of(ms), layer, k)
  BY DEF ReadFrom
<1>3. CASE k \in Named(FlagMentions)
  <2>1. Deciding(k) = Of(FlagMentions) /\ DecidingLayer(k) = "cli"
    BY <1>1, <1>3 DEF Deciding, DecidingLayer
  <2> QED
    BY <1>1, <1>2, <1>3, <2>1 DEF AfterFlags
<1>4. CASE k \notin Named(FlagMentions) /\ k \in Named(FileMentions)
  <2>1. Deciding(k) = Of(FileMentions) /\ DecidingLayer(k) = "env-file"
    BY <1>1, <1>4 DEF Deciding, DecidingLayer
  <2> QED
    BY <1>1, <1>2, <1>4, <2>1 DEF AfterFlags, AfterFile
<1>5. CASE k \notin Named(FlagMentions) /\ k \notin Named(FileMentions)
  <2>1. Deciding(k) = Of(EnvMentions)
    BY <1>1, <1>5 DEF Deciding
  <2>2. AfterEnv(k)
    BY <1>5 DEF AfterFlags, AfterFile
  <2>3. CASE k \in Named(EnvMentions)
    BY <1>1, <1>2, <1>5, <2>1, <2>2, <2>3 DEF AfterEnv, DecidingLayer
  <2>4. CASE k \notin Named(EnvMentions)
    BY <1>1, <1>5, <2>1, <2>2, <2>4 DEF AfterEnv, DecidingLayer
  <2> QED
    BY <2>3, <2>4
<1> QED
  BY <1>3, <1>4, <1>5

\* For every launch, a setting is that of the first layer that mentions it,
\* and the default if none does.
THEOREM TopLayerWins == Spec => []TopLayerDecides
<1>1. MergeInv => TopLayerDecides
  <2> SUFFICES ASSUME MergeInv, phase = "dispatch", NEW k \in Keys
               PROVE  IF Deciding(k) = {} THEN config[k] = Default
                      ELSE \E m \in Deciding(k) : config[k] = Get(k, m.text)
    BY DEF TopLayerDecides
  <2>1. AfterFlags(k) /\ config[k] = Get(k, values[k])
    BY DEF MergeInv, IsRead
  <2>2. CASE Deciding(k) = {}
    <3>1. values[k] = Absent
      BY <2>1, <2>2, Decides DEF Open
    <3>2. IsBlank(Absent)
      BY DEF IsBlank, Absent
    <3> QED
      BY <2>1, <2>2, <3>1, <3>2 DEF Get
  <2>3. CASE Deciding(k) # {}
    BY <2>1, <2>3, Decides DEF ReadFrom
  <2> QED
    BY <2>2, <2>3
<1> QED
  BY <1>1, MergeInvariant, PTL

\* For every launch, the report names the layer a setting came from and says
\* alias only of a value written under an alias, also when a layer spells the
\* key in several ways.
THEOREM ReportIsTrue == Spec => []ReportTellsTheSource
<1>1. MergeInv => ReportTellsTheSource
  <2> SUFFICES ASSUME MergeInv, phase = "dispatch", NEW k \in Keys
               PROVE  /\ report[k].source.layer = DecidingLayer(k)
                      /\ Deciding(k) # {} =>
                           \E m \in Deciding(k) :
                              /\ config[k] = Get(k, m.text)
                              /\ report[k].source.alias = IsAlias(m)
    BY DEF ReportTellsTheSource
  <2>1. AfterFlags(k) /\ config[k] = Get(k, values[k]) /\ report[k].source = sources[k]
    <3>1. AfterFlags(k) /\ IsRead(k)
      BY DEF MergeInv
    <3>2. Reported(k, config[k]).source = sources[k]
      BY DEF Reported
    <3> QED
      BY <3>1, <3>2 DEF IsRead
  <2>2. CASE Deciding(k) = {}
    BY <2>1, <2>2, Decides DEF Open
  <2>3. CASE Deciding(k) # {}
    <3>1. PICK m \in Deciding(k) :
            values[k] = m.text /\ sources[k] = SourceOf(m, DecidingLayer(k))
      BY <2>1, <2>3, Decides DEF ReadFrom
    <3> QED
      BY <2>1, <2>3, <3>1 DEF SourceOf
  <2> QED
    BY <2>2, <2>3
<1> QED
  BY <1>1, MergeInvariant, PTL

-----------------------------------------------------------------------------
(* What kind of value each setting has.                                    *)

Cli == [envFile : BOOLEAN, processEnv : BOOLEAN, help : BOOLEAN, version : BOOLEAN,
        verbose : BOOLEAN, command : Commands, flags : [Keys -> Text]]

TextsInv == /\ launch \in Launch
            /\ arg \in Nat \ {0}
            /\ cli \in Cli
            /\ values \in [Keys -> Text]

\* The kinds of values TypeOK speaks of; and every value has one of the words.
ConfigInv == \A k \in Keys :
    /\ config[k].word \in Words
    /\ Kind[k] = "bool" => config[k].shape \in {"default", "plain"}
    /\ Kind[k] \in {"number", "minutes"} =>
         config[k].shape \in {"default", "plain", "huge", "wrapped"}
    /\ IsSecret(k) => report[k].shown.shape \in {"default", "redacted"}

HostInv == /\ disk \in Disk
           /\ clients \subseteq {"external", "media"}
           /\ members \in BOOLEAN /\ worker \in BOOLEAN /\ approved \in BOOLEAN
           /\ answer \in {0, 200, 400, 403}

TypeInv == TextsInv /\ ConfigInv /\ HostInv

\* Trimming and taking quotes off leaves a text of the same word.
LEMMA FileTextIsText ==
    ASSUME NEW text \in Text
    PROVE  FileText(text) \in Text
BY DEF Text, FileText, Trim, Reshape, Shapes

\* A text that the getter of a key accepts gives a value of the key's kind.
LEMMA GetIsOfItsKind ==
    ASSUME NEW k \in Keys, NEW text \in Text, IsBlank(text) \/ Accepts(k, text)
    PROVE  /\ Get(k, text) = [shape |-> Get(k, text).shape, word |-> Get(k, text).word]
           /\ Get(k, text).word \in Words
           /\ Kind[k] = "bool" => Get(k, text).shape \in {"default", "plain"}
           /\ Kind[k] \in {"number", "minutes"} =>
                Get(k, text).shape \in {"default", "plain", "huge", "wrapped"}
<1>1. /\ text = [shape |-> text.shape, word |-> text.word] /\ text.word \in Words
  BY DEF Text
<1>2. /\ Default = [shape |-> "default", word |-> "none"] /\ "none" \in Words
  BY ServiceAssumption DEF Default
<1>3. ASSUME NEW from, NEW to
      PROVE  Reshape(text, from, to) = [shape |-> IF text.shape = from THEN to ELSE text.shape,
                                        word |-> text.word]
  BY <1>1 DEF Reshape
<1>4. CASE IsBlank(text)
  BY <1>2, <1>4 DEF Get
<1>5. CASE ~IsBlank(text) /\ Kind[k] = "bool"
  <2>1. Get(k, text) = Reshape(text, "padded", "plain") /\ text.shape \in {"plain", "padded"}
    BY <1>5 DEF Get, Trim, Accepts
  <2> QED BY <1>1, <1>3, <1>5, <2>1
<1>6. CASE ~IsBlank(text) /\ Kind[k] = "number"
  <2>1. Get(k, text) = text /\ text.shape \in {"plain", "huge"}
    BY <1>6 DEF Get, Accepts
  <2> QED BY <1>1, <1>6, <2>1
<1>7. CASE ~IsBlank(text) /\ Kind[k] = "minutes"
  <2>1. Get(k, text) = Reshape(text, "huge", "wrapped") /\ text.shape \in {"plain", "huge"}
    BY <1>7 DEF Get, Accepts
  <2> QED BY <1>1, <1>3, <1>7, <2>1
<1>8. CASE ~IsBlank(text) /\ Kind[k] \notin {"bool", "number", "minutes"}
  <2>1. Get(k, text) \in {Default, text, Reshape(text, "padded", "plain")}
    BY <1>8 DEF Get, Trim
  <2> QED BY <1>1, <1>2, <1>3, <1>8, <2>1
<1> QED BY <1>4, <1>5, <1>6, <1>7, <1>8

\* Whatever the value of a secret, what is shown is that it is redacted.
LEMMA SecretIsHidden ==
    ASSUME NEW k, IsSecret(k), NEW shape, NEW word
    PROVE  Shown(k, [shape |-> shape, word |-> word]).shape = "redacted"
BY DEF Shown, Reshape

\* A layer of texts keeps the map one of texts.
LEMMA InsertKeepsTexts ==
    ASSUME values \in [Keys -> Text], NEW ms, NEW layer, Insert(ms, layer),
           \A m \in ms : m.text \in Text
    PROVE  values' \in [Keys -> Text]
<1>1. DOMAIN values' = Keys /\ values' = [k \in Keys |-> values'[k]]
  BY DEF Insert
<1>2. ASSUME NEW k \in Keys PROVE values'[k] \in Text
  BY InsertLayer
<1> QED BY <1>1, <1>2

\* The mentions of every layer are texts of the launch.
LEMMA MentionsAreTexts ==
    ASSUME TextsInv
    PROVE  \A m \in EnvMentions \cup FileMentions \cup FlagMentions : m.text \in Text
<1>1. launch.env \subseteq Entry /\ launch.file.lines \in Seq(Line) /\ cli.flags \in [Keys -> Text]
  BY DEF TextsInv, Launch, Cli
<1>2. \A m \in EnvMentions : m.text \in Text
  BY <1>1 DEF EnvMentions, Entry
<1>3. ASSUME NEW i \in DOMAIN launch.file.lines
      PROVE  [launch.file.lines[i] EXCEPT !.text = FileText(@)].text \in Text
  <2>1. launch.file.lines[i] \in Line
    BY <1>1, ElementOfSeq, LenProperties
  <2>2. /\ launch.file.lines[i].text \in Text /\ "text" \in DOMAIN launch.file.lines[i]
    BY <2>1 DEF Line
  <2> QED BY <2>2, FileTextIsText
<1>4. \A m \in FileMentions : m.text \in Text
  BY <1>3 DEF FileMentions, Lines
<1>5. \A m \in FlagMentions : m.text \in Text
  BY <1>1 DEF FlagMentions
<1> QED BY <1>2, <1>4, <1>5

\* What stands for nothing is a text, a word and a command line.
LEMMA NothingIsSet ==
    /\ Absent \in Text /\ Default.word \in Words /\ NoCli \in Cli
BY ServiceAssumption DEF Absent, Default, NoCli, Text, Cli, Commands

\* A flag's value, a switch, a command: the command line stays one.
LEMMA ParseTyped ==
    ASSUME TextsInv, ParseCommand \/ ParseSwitch \/ ParseEnvFile \/ ParseFlag
    PROVE  TextsInv'
<1>1. /\ launch' = launch /\ values' = values /\ launch \in Launch /\ values \in [Keys -> Text]
      /\ arg \in Nat \ {0} /\ cli \in Cli
  BY DEF ParseCommand, ParseSwitch, ParseEnvFile, ParseFlag, Parsed, merged, TextsInv
<1>2. arg' \in Nat \ {0}
  <2>1. arg' = arg + 1 \/ arg' = arg + 2
    BY DEF ParseCommand, ParseSwitch, ParseEnvFile, ParseFlag, Parsed
  <2> QED BY <1>1, <2>1
<1>3. launch.args \in Seq(Argument) /\ Len(launch.args) \in Nat
  BY <1>1, LenProperties DEF Launch
<1>4. arg <= Len(launch.args) => Token \in Argument
  BY <1>1, <1>3, ElementOfSeq DEF Token
<1>5. HasNextValue => launch.args[arg + 1].text \in Text
  <2> SUFFICES ASSUME HasNextValue PROVE launch.args[arg + 1].text \in Text
    OBVIOUS
  <2>1. arg + 1 \in 1..Len(launch.args)
    BY <1>1, <1>3 DEF HasNextValue
  <2>2. launch.args[arg + 1] \in Argument
    BY <1>3, <2>1, ElementOfSeq
  <2> QED BY <2>2 DEF Argument
<1>6. cli' \in Cli
  <2>1. CASE ParseCommand
    <3>1. Token \in Argument /\ Token.kind = "word"
      BY <1>4, <2>1 DEF ParseCommand, Parsing
    <3>2. Token.name \in Commands
      BY <3>1 DEF Argument
    <3> QED BY <1>1, <2>1, <3>2 DEF ParseCommand, Cli
  <2>2. CASE ParseSwitch
    <3>1. Token \in Argument /\ Token.kind = "switch"
      BY <1>4, <2>2 DEF ParseSwitch, Parsing
    <3>2. Token.name \in Switches
      BY <3>1 DEF Argument
    <3> DEFINE name == Token.name
    <3>3. cli' = [cli EXCEPT ![name] = TRUE] /\ name \in Switches
      BY <2>2, <3>2 DEF ParseSwitch
    <3> HIDE DEF name
    <3> QED BY <1>1, <3>3 DEF Cli, Switches
  <2>3. CASE ParseEnvFile
    BY <1>1, <2>3 DEF ParseEnvFile, Cli
  <2>4. CASE ParseFlag
    <3>1. Token \in Argument /\ Token.kind \in {"flag", "flag="}
      BY <1>4, <2>4 DEF ParseFlag, Parsing
    <3>2. Token.name \in Keys /\ Token.text \in Text
      BY <3>1 DEF Argument
    <3>3. PICK text \in Text : cli' = [cli EXCEPT !.flags[Token.name] = text]
      BY <1>5, <2>4, <3>2 DEF ParseFlag
    <3> DEFINE name == Token.name
    <3>4. cli' = [cli EXCEPT !.flags[name] = text] /\ name \in Keys
      BY <3>2, <3>3
    <3> HIDE DEF name
    <3> QED BY <1>1, <3>4 DEF Cli
  <2> QED BY <2>1, <2>2, <2>3, <2>4
<1> QED BY <1>1, <1>2, <1>6 DEF TextsInv

\* A launch without its command is one too.
LEMMA StartTyped ==
    ASSUME TextsInv, StartApproved
    PROVE  TextsInv' /\ ConfigInv'
<1>1. launch \in Launch
  BY DEF TextsInv
<1>2. PICK i \in DOMAIN launch.args :
        launch' = [launch EXCEPT !.args = SubSeq(@, 1, i - 1) \o SubSeq(@, i + 1, Len(@))]
  BY DEF StartApproved
<1>3. /\ launch.args \in Seq(Argument) /\ Len(launch.args) \in Nat
      /\ DOMAIN launch.args = 1..Len(launch.args)
  BY <1>1, LenProperties DEF Launch
<1>4. SubSeq(launch.args, 1, i - 1) \in Seq(Argument)
      /\ SubSeq(launch.args, i + 1, Len(launch.args)) \in Seq(Argument)
  <2>1. \A n \in 1..(i - 1) : n \in DOMAIN launch.args
    BY <1>3
  <2>2. \A n \in (i + 1)..Len(launch.args) : n \in DOMAIN launch.args
    BY <1>3
  <2>3. \A n \in DOMAIN launch.args : launch.args[n] \in Argument
    BY <1>3, ElementOfSeq
  <2> QED BY <1>3, <2>1, <2>2, <2>3, SubSeqProperties
<1>5. SubSeq(launch.args, 1, i - 1) \o SubSeq(launch.args, i + 1, Len(launch.args)) \in Seq(Argument)
  BY <1>4, ConcatProperties
<1>6. launch' \in Launch
  BY <1>1, <1>2, <1>5 DEF Launch
<1>7. TextsInv'
  BY <1>6, NothingIsSet DEF TextsInv, StartApproved
<1>8. ConfigInv'
  <2>1. \A k \in Keys : config'[k] = Default /\ report'[k].shown = Default
    BY DEF StartApproved
  <2>2. Default.word \in Words /\ Default.shape = "default"
    BY NothingIsSet DEF Default
  <2> QED BY <2>1, <2>2 DEF ConfigInv
<1> QED BY <1>7, <1>8

\* What the getters return is of the setting's kind, or the run ends.
LEMMA LookupTyped ==
    ASSUME TextsInv, Lookup
    PROVE  TextsInv' /\ ConfigInv'
<1>1. /\ UNCHANGED <<launch, arg, cli, values>>
      /\ \A k \in Keys : /\ Readable(k) /\ config'[k] = Get(k, values[k])
                         /\ report'[k] = Reported(k, config'[k])
  BY DEF Lookup, parsing, merged
<1>2. ASSUME NEW k \in Keys
      PROVE  /\ config'[k] = [shape |-> config'[k].shape, word |-> config'[k].word]
             /\ config'[k].word \in Words
             /\ Kind[k] = "bool" => config'[k].shape \in {"default", "plain"}
             /\ Kind[k] \in {"number", "minutes"} =>
                  config'[k].shape \in {"default", "plain", "huge", "wrapped"}
  <2>1. values[k] \in Text /\ (IsBlank(values[k]) \/ Accepts(k, values[k]))
    BY <1>1 DEF Readable, TextsInv
  <2> QED BY <1>1, <2>1, GetIsOfItsKind
<1>3. ASSUME NEW k \in Keys, IsSecret(k) PROVE report'[k].shown.shape = "redacted"
  <2>1. report'[k].shown = Shown(k, config'[k])
    <3>1. \A v : Reported(k, v).shown = Shown(k, v)
      BY DEF Reported
    <3> QED BY <1>1, <3>1
  <2>2. PICK shape, word : config'[k] = [shape |-> shape, word |-> word]
    BY <1>2
  <2> QED BY <1>3, <2>1, <2>2, SecretIsHidden
<1>4. ConfigInv'
  BY <1>2, <1>3 DEF ConfigInv
<1> QED BY <1>1, <1>4 DEF TextsInv

\* Reading the configuration keeps the types of what is read.
LEMMA ConfigTyped ==
    ASSUME TextsInv, ConfigInv, ConfigNext
    PROVE  TextsInv' /\ ConfigInv'
<1>1. ASSUME UNCHANGED <<config, report>> PROVE ConfigInv'
  BY <1>1 DEF ConfigInv
<1>2. CASE ParseCommand \/ ParseSwitch \/ ParseEnvFile \/ ParseFlag
  <2>1. UNCHANGED <<config, report>>
    BY <1>2 DEF ParseCommand, ParseSwitch, ParseEnvFile, ParseFlag, Parsed, read
  <2> QED BY <1>1, <1>2, <2>1, ParseTyped
<1>3. CASE RefuseArgument \/ FinishParsing \/ LookupFails
  <2>1. UNCHANGED <<launch, arg, cli, values, config, report>>
    BY <1>3 DEF RefuseArgument, FinishParsing, LookupFails, parsing, merged, read
  <2> QED BY <1>1, <2>1 DEF TextsInv
<1>4. CASE MergeProcessEnv \/ MergeEnvFile \/ MergeFlags
  <2>1. UNCHANGED <<launch, arg, cli, config, report>>
    BY <1>4 DEF MergeProcessEnv, MergeEnvFile, MergeFlags, parsing, read
  <2>2. values' \in [Keys -> Text]
    <3>1. values \in [Keys -> Text]
      BY DEF TextsInv
    <3>2. \/ values' = values \/ Insert(EnvMentions, "process-env")
          \/ Insert(FileMentions, "env-file") \/ Insert(FlagMentions, "cli")
      BY <1>4 DEF MergeProcessEnv, MergeEnvFile, MergeFlags, merged
    <3> QED BY <3>1, <3>2, MentionsAreTexts, InsertKeepsTexts
  <2> QED BY <1>1, <2>1, <2>2 DEF TextsInv
<1>5. CASE Lookup
  BY <1>5, LookupTyped
<1> QED BY <1>2, <1>3, <1>4, <1>5 DEF ConfigNext

\* Making directories leaves each in one of the four states.
LEMMA MadeIsDisk ==
    ASSUME disk \in Disk, NEW dirs
    PROVE  MadeBy(dirs) \in Disk
BY DEF Disk, MadeBy

\* The launch has the types it was given.
LEMMA TypeStart == ServiceInit => TypeInv
<1> SUFFICES ASSUME ServiceInit PROVE TypeInv
  OBVIOUS
<1>1. launch \in Launch
  BY ServiceAssumption DEF ServiceInit, Init
<1>2. TextsInv
  BY <1>1, NothingIsSet DEF TextsInv, ServiceInit, Init
<1>3. ConfigInv
  <2>1. \A k \in Keys : config[k] = Default /\ report[k].shown = Default
    BY DEF ServiceInit, Init
  <2>2. Default.word \in Words /\ Default.shape = "default"
    BY NothingIsSet DEF Default
  <2> QED BY <2>1, <2>2 DEF ConfigInv
<1>4. HostInv
  BY <1>1 DEF HostInv, ServiceInit, Launch
<1> QED BY <1>2, <1>3, <1>4 DEF TypeInv

\* Every step keeps the types.
LEMMA TypeStep == TypeInv /\ [Next]_vars => TypeInv'
<1> SUFFICES ASSUME TypeInv, [Next]_vars PROVE TypeInv'
  OBVIOUS
<1>1. TextsInv /\ ConfigInv /\ HostInv
  BY DEF TypeInv
<1>2. ASSUME UNCHANGED <<launch, parsing, merged, read>> PROVE TextsInv' /\ ConfigInv'
  BY <1>1, <1>2 DEF TextsInv, ConfigInv, parsing, merged, read
<1>3. ASSUME UNCHANGED <<machine, started, handled>> PROVE HostInv'
  BY <1>1, <1>3 DEF HostInv, machine, started, handled
<1>4. CASE Configure
  BY <1>1, <1>3, <1>4, ConfigTyped DEF Configure, TypeInv
<1>5. CASE RunDoctor
  <2>1. disk' \in Disk /\ approved' \in BOOLEAN
    BY <1>1, <1>5, MadeIsDisk DEF RunDoctor, HostInv, DoctorIsContent
  <2>2. UNCHANGED <<launch, parsing, merged, read>> /\ UNCHANGED <<clients, members, worker, answer>>
    BY <1>5 DEF RunDoctor, started, handled
  <2> QED BY <1>1, <1>2, <2>1, <2>2 DEF HostInv, TypeInv
<1>6. CASE RunOther \/ StartService
  BY <1>2, <1>3, <1>6 DEF RunOther, StartService, TypeInv
<1>7. CASE StartApproved
  BY <1>1, <1>3, <1>7, StartTyped DEF StartApproved, TypeInv
<1>8. CASE \/ RequireToken \/ EnsureParent \/ ConnectAndMigrate \/ SeedAdmins
           \/ BuildClients \/ SpawnWorker \/ Bind \/ StartFault
  <2>1. UNCHANGED <<launch, parsing, merged, read>> /\ UNCHANGED <<approved, answer>>
    BY <1>8 DEF RequireToken, EnsureParent, ConnectAndMigrate, SeedAdmins, BuildClients,
                SpawnWorker, Bind, StartFault, Stays, handled
  <2>2. disk' \in Disk
    <3>1. disk' = disk \/ \E dirs : disk' = MadeBy(dirs)
      BY <1>8 DEF RequireToken, EnsureParent, ConnectAndMigrate, SeedAdmins, BuildClients,
                  SpawnWorker, Bind, StartFault, Stays
    <3> QED BY <1>1, <3>1, MadeIsDisk DEF HostInv
  <2>3. clients' \subseteq {"external", "media"} /\ members' \in BOOLEAN /\ worker' \in BOOLEAN
    <3>1. CASE SeedAdmins
      BY <1>1, <3>1 DEF SeedAdmins, HostInv, IsSet
    <3>2. CASE BuildClients
      BY <1>1, <3>2 DEF BuildClients, HostInv
    <3>3. CASE SpawnWorker
      <4>1. worker' \in BOOLEAN
        BY <3>3 DEF SpawnWorker, IsOn, IsSet
      <4> QED BY <1>1, <3>3, <4>1 DEF SpawnWorker, HostInv
    <3>4. CASE RequireToken \/ EnsureParent \/ ConnectAndMigrate \/ Bind \/ StartFault
      BY <1>1, <3>4 DEF RequireToken, EnsureParent, ConnectAndMigrate, Bind, StartFault, HostInv, started
    <3> QED BY <1>8, <3>1, <3>2, <3>3, <3>4
  <2> QED BY <1>1, <1>2, <2>1, <2>2, <2>3 DEF HostInv, TypeInv
<1>9. CASE \/ \E r \in Requests : Receive(r)
           \/ RefuseUnsigned \/ RefuseUnconfigured \/ Archive \/ ArchiveFails
           \/ Decrypt \/ DecryptFails \/ Parse \/ ParseFails
  <2>1. Unmoved /\ (answer' = answer \/ answer' \in {200, 400, 403})
    BY <1>9 DEF Receive, RefuseUnsigned, RefuseUnconfigured, Archive, ArchiveFails, Decrypt,
                DecryptFails, Parse, ParseFails, Refuse
  <2> QED BY <1>1, <1>2, <2>1 DEF Unmoved, configVars, machine, started, HostInv, TypeInv
<1>10. CASE UNCHANGED vars
  BY <1>2, <1>3, <1>10 DEF vars, configVars, TypeInv
<1> QED BY <1>4, <1>5, <1>6, <1>7, <1>8, <1>9, <1>10 DEF Next

\* The types hold always.
LEMMA TypeInvariant == Spec => []TypeInv
BY TypeStart, TypeStep, PTL DEF Spec

\* For every launch: settings are of their kind, and no secret is reported.
THEOREM TypeCorrect == Spec => []TypeOK
<1>1. TypeInv => TypeOK
  BY DEF TypeInv, ConfigInv, HostInv, TypeOK
<1> QED BY <1>1, TypeInvariant, PTL

-----------------------------------------------------------------------------
(* What becomes a row.                                                     *)

\* What is known of the text about to be parsed: if it holds a message it is
\* the one the signature, the key and the app id vouch for.
Vouched ==
    IF Encrypted(request)
    THEN /\ request.msgSignature = Signature(WechatToken, request.nonce, request.payload)
         /\ plainXml \in DOMAIN Messages =>
              /\ plainXml = request.xml
              /\ request.payload.key = AesKey.word
              /\ request.payload.bytes = Frame(request.xml, AppOf(AppId))
    ELSE /\ request.signature = Signature(WechatToken, request.nonce, NoPayload)
         /\ plainXml = request.xml

\* Callbacks are handled while the service runs, and only as far as the checks
\* before each stage allow.
AnswerInv ==
    /\ stage # "idle" => phase = "serve" /\ request \in Requests
    /\ stage # "answered" => answer = 0
    /\ stage = "plain" => ~Encrypted(request)
    /\ stage \in {"encrypted", "decrypt"} => Encrypted(request)
    /\ stage = "parse" => Vouched
    /\ AcceptedIsGenuine

\* A row has the columns the worker needs of its type.
LEMMA RowServesWorker ==
    ASSUME NEW xml, Parses(xml)
    PROVE  WorkerNeeds(RowOf(xml).type) \subseteq RowOf(xml).columns
<1> DEFINE type == Messages[xml].type
           elements == Messages[xml].elements
<1>1. Required(type) \subseteq elements
  BY DEF Parses
<1>2. /\ RowOf(xml).type = IF IsSupported(type) THEN type ELSE "unsupported"
      /\ RowOf(xml).columns = elements \cap Kept(type)
  BY DEF RowOf
<1> HIDE DEF type, elements
<1>3. CASE type \in Media
  <2>1. WorkerNeeds(type) = {"MediaId"} /\ "MediaId" \in Required(type) /\ "MediaId" \in Kept(type)
    BY <1>3 DEF WorkerNeeds, Required, Kept, Media
  <2> QED BY <1>1, <1>2, <1>3, <2>1 DEF IsSupported
<1>4. CASE type = "location"
  <2>1. /\ WorkerNeeds(type) = {"Location_X", "Location_Y"}
        /\ Required(type) = {"Location_X", "Location_Y"}
        /\ {"Location_X", "Location_Y"} \subseteq Kept(type)
    BY <1>4 DEF WorkerNeeds, Required, Kept, Media
  <2> QED BY <1>1, <1>2, <1>4, <2>1 DEF IsSupported
<1>5. CASE type = "link"
  <2>1. WorkerNeeds(type) = {"Url"} /\ Required(type) = {"Url"} /\ "Url" \in Kept(type)
    BY <1>5 DEF WorkerNeeds, Required, Kept, Media
  <2> QED BY <1>1, <1>2, <1>5, <2>1 DEF IsSupported
<1>6. CASE type \notin Media \cup {"location", "link"}
  <2>1. WorkerNeeds(RowOf(xml).type) = {}
    BY <1>2, <1>6 DEF WorkerNeeds, IsSupported, Media
  <2> QED BY <2>1
<1> QED BY <1>3, <1>4, <1>5, <1>6

\* Decrypting gives the text that was framed for the configured app, or one
\* that holds no message.
LEMMA DecryptVouches ==
    ASSUME ConfigInv, AnswerInv, Decrypt
    PROVE  Vouched'
<1>1. /\ stage = "decrypt" /\ request \in Requests /\ Encrypted(request)
      /\ request.msgSignature = Signature(WechatToken, request.nonce, request.payload)
  BY DEF Decrypt, AtStage, AnswerInv, EncryptedIsSigned
<1>2. UNCHANGED <<config, request>>
  BY DEF Decrypt, Unmoved, configVars, read
<1>3. PICK bytes \in Opened(AesKey, request.payload) :
        IsForApp(bytes) /\ plainXml' = Unframe(bytes).xml
  BY DEF Decrypt
<1>4. Unframe(bytes) # Malformed /\ Unframe(bytes).app = AppOf(AppId)
  BY <1>3 DEF IsForApp
<1>5. AppId.word \in Words /\ AppOf(AppId) \in {AppBytes[AppId.word], <<32>> \o AppBytes[AppId.word]}
  <2>1. "WECHAT_APP_ID" \in Keys
    BY DEF Keys, Kind
  <2>2. AppId.word \in Words
    BY <2>1 DEF ConfigInv, AppId
  <2> QED BY <2>2 DEF AppOf
<1>6. bytes \notin Noise
  BY <1>4, <1>5, ServiceAssumption
<1>7. bytes = request.payload.bytes /\ request.payload.key = AesKey.word
  BY <1>3, <1>6 DEF Opened
<1>8. ASSUME plainXml' \in DOMAIN Messages
      PROVE  /\ plainXml' = request.xml
             /\ request.payload.bytes = Frame(request.xml, AppOf(AppId))
  <2>1. /\ request.xml \in Seq(Nat) /\ Unframe(bytes).app \in Seq(Nat)
        /\ bytes = Frame(request.xml, Unframe(bytes).app)
    BY <1>1, <1>3, <1>4, <1>7, <1>8, ServiceAssumption
  <2>2. Unframe(Frame(request.xml, Unframe(bytes).app)).xml = request.xml
    BY <2>1, FrameRoundTrip
  <2> QED BY <1>3, <1>4, <1>7, <2>1, <2>2
<1>9. /\ Encrypted(request)' = Encrypted(request) /\ WechatToken' = WechatToken
      /\ AesKey' = AesKey /\ AppOf(AppId)' = AppOf(AppId)
  BY <1>2 DEF Encrypted, IsOn, IsSet, WechatToken, AesKey, AppId, AppOf
<1> QED BY <1>1, <1>2, <1>7, <1>8, <1>9 DEF Vouched

\* Whatever leaves the callbacks alone happens before there are any.
LEMMA NotServing ==
    ASSUME AnswerInv, phase # "serve", UNCHANGED handled
    PROVE  AnswerInv'
<1>1. stage = "idle" /\ answer = 0
  BY DEF AnswerInv
<1>2. stage' = "idle" /\ answer' = 0
  BY <1>1 DEF handled
<1> QED BY <1>2 DEF AnswerInv, AcceptedIsGenuine

\* Every step keeps what vouches for the callback being handled.
LEMMA AnswerStep == ConfigInv /\ AnswerInv /\ [Next]_vars => AnswerInv'
<1> SUFFICES ASSUME ConfigInv, AnswerInv, [Next]_vars PROVE AnswerInv'
  OBVIOUS
<1>1. ASSUME UNCHANGED config
      PROVE  /\ WechatToken' = WechatToken /\ AesKey' = AesKey /\ AppOf(AppId)' = AppOf(AppId)
             /\ \A r : Encrypted(r)' = Encrypted(r)
  BY <1>1 DEF Encrypted, IsOn, IsSet, WechatToken, AesKey, AppId, AppOf
<1>2. CASE Configure
  <2>1. phase # "serve" /\ UNCHANGED handled
    BY <1>2 DEF Configure, ConfigNext, ParseCommand, ParseSwitch, ParseEnvFile, ParseFlag,
                RefuseArgument, FinishParsing, Parsing, MergeProcessEnv, MergeEnvFile,
                MergeFlags, Lookup, LookupFails
  <2> QED BY <2>1, NotServing
<1>3. CASE RunDoctor \/ RunOther \/ StartApproved \/ StartService
  <2>1. phase # "serve" /\ UNCHANGED handled
    BY <1>3 DEF RunDoctor, RunOther, StartApproved, StartService, Go
  <2> QED BY <2>1, NotServing
<1>4. CASE \/ RequireToken \/ EnsureParent \/ ConnectAndMigrate \/ SeedAdmins
           \/ BuildClients \/ SpawnWorker \/ Bind \/ StartFault
  <2>1. phase # "serve" /\ UNCHANGED handled
    BY <1>4 DEF RequireToken, EnsureParent, ConnectAndMigrate, SeedAdmins, BuildClients,
                SpawnWorker, Bind, StartFault, Stays, Go
  <2> QED BY <2>1, NotServing
<1>5. ASSUME NEW r \in Requests, Receive(r) PROVE AnswerInv'
  <2>1. UNCHANGED <<config, phase, answer>> /\ phase = "serve" /\ stage = "idle"
    BY <1>5 DEF Receive, Unmoved, configVars, read, AtStage
  <2>2. answer' = 0 /\ request' = r /\ stage' = IF Encrypted(r) THEN "encrypted" ELSE "plain"
    BY <1>5, <2>1 DEF Receive, AnswerInv
  <2>3. Encrypted(request)' = Encrypted(r)
    BY <2>1, <2>2 DEF Encrypted, IsOn, IsSet
  <2> QED BY <2>1, <2>2, <2>3 DEF AnswerInv, AcceptedIsGenuine
<1>6. ASSUME NEW status \in {400, 403}, Refuse(status), phase = "serve", stage # "idle"
      PROVE  AnswerInv'
  <2>1. stage' = "answered" /\ answer' = status /\ UNCHANGED <<phase, request>>
    BY <1>6 DEF Refuse, Unmoved, configVars
  <2>2. request' \in Requests /\ phase' = "serve" /\ answer' # 200
    BY <1>6, <2>1 DEF AnswerInv
  <2> QED BY <2>1, <2>2 DEF AnswerInv, AcceptedIsGenuine
<1>7. CASE RefuseUnsigned \/ RefuseUnconfigured \/ ArchiveFails \/ DecryptFails \/ ParseFails
  <2>1. phase = "serve" /\ stage # "idle" /\ (Refuse(400) \/ Refuse(403))
    BY <1>7 DEF RefuseUnsigned, RefuseUnconfigured, ArchiveFails, MayArchive, DecryptFails,
                ParseFails, AtStage
  <2> QED BY <1>6, <2>1
<1>8. CASE Archive
  <2>1. /\ UNCHANGED <<config, phase, request, answer>> /\ phase = "serve"
        /\ \/ stage = "plain" /\ PlainIsSigned /\ stage' = "parse"
           \/ stage = "encrypted" /\ stage' = "decrypt"
        /\ plainXml' = request.xml
    BY <1>8 DEF Archive, MayArchive, AtStage, Unmoved, configVars, read
  <2>2. request' \in Requests /\ answer' = 0 /\ phase' = "serve"
    BY <2>1 DEF AnswerInv
  <2>3. Encrypted(request)' = Encrypted(request)
    BY <2>1 DEF Encrypted, IsOn, IsSet
  <2>4. CASE stage = "plain"
    <3>1. ~Encrypted(request) /\ stage' = "parse"
      BY <2>1, <2>4 DEF AnswerInv
    <3>2. Vouched'
      BY <1>1, <2>1, <2>3, <2>4, <3>1 DEF Vouched, PlainIsSigned
    <3> QED BY <2>2, <3>1, <3>2 DEF AnswerInv, AcceptedIsGenuine
  <2>5. CASE stage = "encrypted"
    <3>1. Encrypted(request) /\ stage' = "decrypt"
      BY <2>1, <2>5 DEF AnswerInv
    <3> QED BY <2>2, <2>3, <3>1 DEF AnswerInv, AcceptedIsGenuine
  <2> QED BY <2>1, <2>4, <2>5
<1>9. CASE Decrypt
  <2>1. UNCHANGED <<phase, request, answer>> /\ phase = "serve" /\ stage = "decrypt" /\ stage' = "parse"
    BY <1>9 DEF Decrypt, AtStage, Unmoved, configVars
  <2>2. request' \in Requests /\ answer' = 0 /\ phase' = "serve"
    BY <2>1 DEF AnswerInv
  <2> QED BY <1>9, <2>1, <2>2, DecryptVouches DEF AnswerInv, AcceptedIsGenuine
<1>10. CASE Parse
  <2>1. /\ UNCHANGED <<config, phase, request, plainXml>> /\ phase = "serve" /\ stage = "parse"
        /\ stage' = "answered" /\ Parses(plainXml) /\ row' = RowOf(plainXml)
    BY <1>10 DEF Parse, AtStage, Unmoved, configVars, read
  <2>2. request' \in Requests /\ phase' = "serve" /\ Vouched
    BY <2>1 DEF AnswerInv
  <2>3. WorkerNeeds(row'.type) \subseteq row'.columns
    BY <2>1, RowServesWorker
  <2>4. plainXml \in DOMAIN Messages
    BY <2>1 DEF Parses
  <2>5. Encrypted(request)' = Encrypted(request)
    BY <2>1 DEF Encrypted, IsOn, IsSet
  <2>6. AcceptedIsGenuine'
    BY <1>1, <2>1, <2>2, <2>3, <2>4, <2>5 DEF AcceptedIsGenuine, Vouched
  <2> QED BY <2>1, <2>2, <2>6 DEF AnswerInv
<1>11. CASE UNCHANGED vars
  <2>1. UNCHANGED <<config, phase, request, stage, plainXml, row, answer>>
    BY <1>11 DEF vars, configVars, read, handled
  <2>2. Encrypted(request)' = Encrypted(request)
    BY <2>1 DEF Encrypted, IsOn, IsSet
  <2> QED BY <1>1, <2>1, <2>2 DEF AnswerInv, AcceptedIsGenuine, Vouched
<1> QED BY <1>2, <1>3, <1>4, <1>5, <1>7, <1>8, <1>9, <1>10, <1>11 DEF Next

\* For every request: a callback becomes a row only if the signature, the key
\* and the app id it carries vouch for the very text of the row.
THEOREM OnlyGenuineAccepted == Spec => []AcceptedIsGenuine
<1>1. ServiceInit => AnswerInv
  BY DEF ServiceInit, Init, AnswerInv, AcceptedIsGenuine
<1>2. TypeInv /\ AnswerInv /\ [Next]_vars => AnswerInv'
  BY AnswerStep DEF TypeInv
<1>3. AnswerInv => AcceptedIsGenuine
  BY DEF AnswerInv
<1> QED BY <1>1, <1>2, <1>3, TypeInvariant, PTL DEF Spec

-----------------------------------------------------------------------------
(* What a command line says, whatever else is on it.                       *)

IsFlag(args, j, k) == args[j].kind \in {"flag", "flag="} /\ args[j].name = k

\* The text is that of the last of the first n arguments that is a flag for
\* the key; a flag's own value follows within them.
FlagRead(args, n, k, text) ==
    \/ text = Absent /\ \A j \in 1..n : ~IsFlag(args, j, k)
    \/ \E j \in 1..n :
         /\ IsFlag(args, j, k) /\ \A l \in (j + 1)..n : ~IsFlag(args, l, k)
         /\ \/ args[j].kind = "flag=" /\ text = args[j].text
            \/ args[j].kind = "flag" /\ j < n /\ text = args[j + 1].text

Asks(args, n) == \E j \in 1..n : args[j].kind = "env-file"
Opens(args, n) == \E j \in 1..n : args[j].kind = "switch" /\ args[j].name = "processEnv"

Says(args, n, c) == /\ \A k \in Keys : FlagRead(args, n, k, c.flags[k])
                    /\ (c.envFile <=> Asks(args, n))
                    /\ (c.processEnv <=> Opens(args, n))

\* A command line gives a flag one value.
LEMMA OneFlagRead ==
    ASSUME NEW args, NEW n \in Nat, NEW k, NEW t, NEW u, FlagRead(args, n, k, t), FlagRead(args, n, k, u)
    PROVE  t = u
<1>1. CASE \A j \in 1..n : ~IsFlag(args, j, k)
  BY <1>1 DEF FlagRead
<1>2. CASE \E j \in 1..n : IsFlag(args, j, k)
  <2>1. PICK i \in 1..n :
          /\ IsFlag(args, i, k) /\ \A l \in (i + 1)..n : ~IsFlag(args, l, k)
          /\ \/ args[i].kind = "flag=" /\ t = args[i].text
             \/ args[i].kind = "flag" /\ i < n /\ t = args[i + 1].text
    BY <1>2 DEF FlagRead
  <2>2. PICK j \in 1..n :
          /\ IsFlag(args, j, k) /\ \A l \in (j + 1)..n : ~IsFlag(args, l, k)
          /\ \/ args[j].kind = "flag=" /\ u = args[j].text
             \/ args[j].kind = "flag" /\ j < n /\ u = args[j + 1].text
    BY <1>2 DEF FlagRead
  <2>3. i = j
    BY <2>1, <2>2
  <2> QED BY <2>1, <2>2, <2>3
<1> QED BY <1>1, <1>2

\* Arguments that are no flag for the key do not change what is read of it.
LEMMA FlagReadOn ==
    ASSUME NEW args, NEW n \in Nat, NEW m \in Nat, n <= m, NEW k, NEW t, FlagRead(args, n, k, t),
           \A j \in (n + 1)..m : ~IsFlag(args, j, k)
    PROVE  FlagRead(args, m, k, t)
<1>1. CASE t = Absent /\ \A j \in 1..n : ~IsFlag(args, j, k)
  <2>1. \A j \in 1..m : j \in 1..n \/ j \in (n + 1)..m
    OBVIOUS
  <2> QED BY <1>1, <2>1 DEF FlagRead
<1>2. ASSUME NEW j \in 1..n, IsFlag(args, j, k), \A l \in (j + 1)..n : ~IsFlag(args, l, k),
             \/ args[j].kind = "flag=" /\ t = args[j].text
             \/ args[j].kind = "flag" /\ j < n /\ t = args[j + 1].text
      PROVE  FlagRead(args, m, k, t)
  <2>1. j \in 1..m /\ (j < n => j < m) /\ \A l \in (j + 1)..m : l \in (j + 1)..n \/ l \in (n + 1)..m
    OBVIOUS
  <2> QED BY <1>2, <2>1 DEF FlagRead
<1> QED BY <1>1, <1>2 DEF FlagRead

\* A command line says the same without its command.
LEMMA CommandSaysNothing ==
    ASSUME NEW args \in Seq(Argument), NEW i \in DOMAIN args, args[i].kind = "word",
           i > 1 => args[i - 1].kind \notin {"flag", "env-file"},
           NEW c, Says(args, Len(args), c)
    PROVE  LET rest == SubSeq(args, 1, i - 1) \o SubSeq(args, i + 1, Len(args))
           IN Says(rest, Len(rest), c)
<1> DEFINE n == Len(args)
           rest == SubSeq(args, 1, i - 1) \o SubSeq(args, i + 1, n)
           At(j) == IF j < i THEN j ELSE j + 1
<1>1. n \in Nat /\ i \in 1..n /\ \A j \in 1..n : args[j] \in Argument
  BY LenProperties, ElementOfSeq
<1>2. /\ SubSeq(args, 1, i - 1) \in Seq(Argument) /\ Len(SubSeq(args, 1, i - 1)) = i - 1
      /\ \A j \in 1..(i - 1) : SubSeq(args, 1, i - 1)[j] = args[j]
  <2>1. \A j \in 1..(i - 1) : j \in 1..n
    BY <1>1
  <2> QED BY <1>1, <2>1, SubSeqProperties
<1>3. /\ SubSeq(args, i + 1, n) \in Seq(Argument) /\ Len(SubSeq(args, i + 1, n)) = n - i
      /\ \A j \in 1..(n - i) : SubSeq(args, i + 1, n)[j] = args[i + j]
  <2>1. \A j \in (i + 1)..n : j \in 1..n
    BY <1>1
  <2> QED BY <1>1, <2>1, SubSeqProperties
<1>4. /\ Len(rest) = n - 1 /\ n - 1 \in Nat
      /\ \A j \in 1..(n - 1) : rest[j] = args[At(j)] /\ At(j) \in 1..n /\ At(j) # i
  <2> DEFINE a == SubSeq(args, 1, i - 1)
             b == SubSeq(args, i + 1, n)
  <2>1. /\ a \in Seq(Argument) /\ Len(a) = i - 1 /\ \A j \in 1..(i - 1) : a[j] = args[j]
        /\ b \in Seq(Argument) /\ Len(b) = n - i /\ \A j \in 1..(n - i) : b[j] = args[i + j]
    BY <1>2, <1>3
  <2>2. rest = a \o b
    OBVIOUS
  <2> HIDE DEF a, b, rest, n
  <2>3. /\ Len(rest) = Len(a) + Len(b)
        /\ \A j \in 1..(Len(a) + Len(b)) : rest[j] = IF j <= Len(a) THEN a[j] ELSE b[j - Len(a)]
    BY <2>1, <2>2, ConcatProperties
  <2>4. ASSUME NEW j \in 1..(n - 1) PROVE rest[j] = args[At(j)] /\ At(j) \in 1..n /\ At(j) # i
    <3> USE <1>1
    <3>1. j \in 1..(Len(a) + Len(b)) /\ (j <= Len(a) <=> j < i) /\ j - Len(a) = j - (i - 1)
      <4>1. Len(a) = i - 1 /\ Len(b) = n - i
        BY <2>1
      <4> QED BY <4>1
    <3>2. rest[j] = IF j < i THEN a[j] ELSE b[j - (i - 1)]
      BY <2>3, <3>1
    <3>3. CASE j < i
      <4>1. rest[j] = a[j] /\ a[j] = args[j] /\ At(j) = j
        <5>1. j \in 1..(i - 1)
          BY <3>3
        <5> QED BY <2>1, <3>3, <3>2, <5>1
      <4> QED BY <3>3, <4>1
    <3>4. CASE j >= i
      <4>1. /\ rest[j] = b[j - (i - 1)] /\ j - (i - 1) \in 1..(n - i)
            /\ i + (j - (i - 1)) = j + 1 /\ At(j) = j + 1
        <5>1. ~(j < i)
          BY <3>4
        <5>2. rest[j] = b[j - (i - 1)] /\ At(j) = j + 1
          BY <3>2, <5>1
        <5>3. j - (i - 1) \in 1..(n - i) /\ i + (j - (i - 1)) = j + 1
          BY <3>4
        <5> QED BY <5>2, <5>3
      <4>2. b[j - (i - 1)] = args[j + 1]
        BY <2>1, <4>1
      <4> QED BY <3>4, <4>1, <4>2
    <3> QED BY <3>3, <3>4
  <2> QED BY <1>1, <2>1, <2>3, <2>4
<1>5. \A m \in 1..n : m # i => \E j \in 1..(n - 1) : At(j) = m
  <2>1. ASSUME NEW m \in 1..n, m # i PROVE \E j \in 1..(n - 1) : At(j) = m
    <3>1. CASE m < i
      <4>1. m \in 1..(n - 1) /\ At(m) = m
        BY <1>1, <3>1
      <4> QED BY <4>1
    <3>2. CASE m > i
      <4>1. m - 1 \in 1..(n - 1) /\ At(m - 1) = m
        BY <1>1, <3>2
      <4> QED BY <4>1
    <3> QED BY <1>1, <2>1, <3>1, <3>2
  <2> QED BY <2>1
<1>6. /\ \A j, l \in 1..(n - 1) : j < l => At(j) < At(l)
      /\ \A j \in 1..(n - 1) : At(j) + 1 = i \/ At(j + 1) = At(j) + 1
  BY <1>1
<1> HIDE DEF rest, At, n
<1>7. ASSUME NEW k \in Keys, NEW t, FlagRead(args, n, k, t) PROVE FlagRead(rest, n - 1, k, t)
  <2>1. CASE t = Absent /\ \A j \in 1..n : ~IsFlag(args, j, k)
    BY <1>4, <2>1 DEF FlagRead, IsFlag
  <2>2. ASSUME NEW m \in 1..n, IsFlag(args, m, k), \A l \in (m + 1)..n : ~IsFlag(args, l, k),
               \/ args[m].kind = "flag=" /\ t = args[m].text
               \/ args[m].kind = "flag" /\ m < n /\ t = args[m + 1].text
        PROVE  FlagRead(rest, n - 1, k, t)
    <3>1. m # i
      BY <2>2 DEF IsFlag
    <3>2. PICK j \in 1..(n - 1) : At(j) = m
      BY <1>5, <3>1
    <3>3. rest[j] = args[m] /\ IsFlag(rest, j, k)
      BY <1>4, <2>2, <3>2 DEF IsFlag
    <3>4. ASSUME NEW l \in (j + 1)..(n - 1) PROVE ~IsFlag(rest, l, k)
      <4>1. l \in 1..(n - 1) /\ j < l
        BY <1>4
      <4>2. At(l) \in 1..n /\ At(l) > m /\ rest[l] = args[At(l)]
        BY <1>4, <1>6, <3>2, <4>1
      <4>3. At(l) \in (m + 1)..n
        BY <1>1, <4>2
      <4> QED BY <2>2, <4>2, <4>3 DEF IsFlag
    <3>5. CASE args[m].kind = "flag=" /\ t = args[m].text
      BY <3>3, <3>4, <3>5 DEF FlagRead
    <3>6. CASE args[m].kind = "flag" /\ m < n /\ t = args[m + 1].text
      <4>1. m + 1 # i
        BY <1>1, <3>6
      <4>2. m + 1 \in 1..n
        BY <1>1, <3>6
      <4>3. PICK l \in 1..(n - 1) : At(l) = m + 1
        BY <1>5, <4>1, <4>2
      <4>4. At(j + 1) = m + 1
        BY <1>6, <3>2, <4>1
      <4>5. j < n - 1 /\ l = j + 1
        <5>1. j < l
          <6>1. l # j /\ ~(l < j)
            BY <1>1, <1>6, <3>2, <4>3
          <6> QED BY <1>4, <6>1
        <5>2. ~(j + 1 < l)
          <6>1. j + 1 \in 1..(n - 1) /\ j + 1 < l => At(j + 1) < At(l)
            BY <1>6
          <6> QED BY <1>1, <1>4, <4>3, <4>4, <6>1
        <5> QED BY <1>4, <5>1, <5>2
      <4>6. rest[j + 1] = args[m + 1]
        BY <1>4, <4>3, <4>5
      <4> QED BY <3>3, <3>4, <3>6, <4>5, <4>6 DEF FlagRead
    <3> QED BY <2>2, <3>5, <3>6
  <2> QED BY <1>7, <2>1, <2>2 DEF FlagRead
<1>8. (Asks(rest, n - 1) <=> Asks(args, n)) /\ (Opens(rest, n - 1) <=> Opens(args, n))
  <2>1. ASSUME NEW m \in 1..n, args[m].kind # "word" PROVE \E j \in 1..(n - 1) : rest[j] = args[m]
    BY <1>4, <1>5, <2>1
  <2>2. \A j \in 1..(n - 1) : \E m \in 1..n : rest[j] = args[m]
    BY <1>4
  <2>3. Asks(rest, n - 1) <=> Asks(args, n)
    BY <2>1, <2>2 DEF Asks
  <2>4. Opens(rest, n - 1) <=> Opens(args, n)
    BY <2>1, <2>2 DEF Opens
  <2> QED BY <2>3, <2>4
<1>9. Says(rest, n - 1, c)
  BY <1>7, <1>8 DEF Says, n
<1> QED BY <1>4, <1>9 DEF rest, n

-----------------------------------------------------------------------------
(* The service an approved launch starts.                                  *)

Ready == {"dispatch", "token", "parent", "connect", "seed", "clients", "spawn", "bind", "serve"}

SaysInv ==
    /\ phase = "parse" => /\ arg - 1 <= Len(launch.args)
                          /\ Says(launch.args, arg - 1, cli)
    /\ phase \in Ready \cup {"process-env", "env-file", "cli", "lookup"} =>
         Says(launch.args, Len(launch.args), cli)

\* What was parsed is what the arguments so far say.
LEMMA ParseSays ==
    ASSUME TextsInv, SaysInv, ParseCommand \/ ParseSwitch \/ ParseEnvFile \/ ParseFlag
    PROVE  SaysInv'
<1> DEFINE args == launch.args
           n == arg - 1
<1>1. /\ phase = "parse" /\ phase' = "parse" /\ launch' = launch /\ arg <= Len(args)
      /\ n <= Len(args) /\ Says(args, n, cli)
  BY DEF ParseCommand, ParseSwitch, ParseEnvFile, ParseFlag, Parsing, Parsed, SaysInv
<1>2. arg \in Nat \ {0} /\ n \in Nat /\ arg = n + 1 /\ n + 1 \in Nat /\ n + 2 \in Nat
  BY DEF TextsInv
<1>3. args \in Seq(Argument) /\ Len(args) \in Nat
  BY LenProperties DEF TextsInv, Launch
<1>4. cli \in Cli /\ (\A k \in Keys : FlagRead(args, n, k, cli.flags[k]))
      /\ (cli.envFile <=> Asks(args, n)) /\ (cli.processEnv <=> Opens(args, n))
  BY <1>1 DEF TextsInv, Says
<1>5. /\ Asks(args, n + 1) <=> (Asks(args, n) \/ Token.kind = "env-file")
      /\ Opens(args, n + 1) <=> (Opens(args, n) \/ (Token.kind = "switch" /\ Token.name = "processEnv"))
  <2>1. \A j \in 1..(n + 1) : j \in 1..n \/ j = arg
    BY <1>2
  <2>2. \A j \in 1..n : j \in 1..(n + 1)
    BY <1>2
  <2>3. arg \in 1..(n + 1)
    BY <1>2
  <2>4. Token = args[arg]
    BY DEF Token
  <2> HIDE DEF args, n
  <2>5. Asks(args, n + 1) <=> (Asks(args, n) \/ args[arg].kind = "env-file")
    BY <2>1, <2>2, <2>3 DEF Asks
  <2>6. Opens(args, n + 1) <=> (Opens(args, n) \/ (args[arg].kind = "switch" /\ args[arg].name = "processEnv"))
    BY <2>1, <2>2, <2>3 DEF Opens
  <2> QED BY <2>4, <2>5, <2>6
<1>6. ASSUME HasNextValue
      PROVE  /\ args[arg + 1].kind \notin {"flag", "flag=", "env-file"}
             /\ ~(args[arg + 1].kind = "switch" /\ args[arg + 1].name = "processEnv")
             /\ arg + 1 <= Len(args)
             /\ (Asks(args, n + 2) <=> Asks(args, n + 1)) /\ (Opens(args, n + 2) <=> Opens(args, n + 1))
  <2>1. /\ args[arg + 1].kind \notin {"flag", "flag=", "env-file"}
        /\ ~(args[arg + 1].kind = "switch" /\ args[arg + 1].name = "processEnv")
        /\ arg + 1 <= Len(args)
    BY <1>2, <1>3, <1>6 DEF HasNextValue
  <2>2. \A j \in 1..(n + 2) : j \in 1..(n + 1) \/ j = arg + 1
    BY <1>2
  <2>3. \A j \in 1..(n + 1) : j \in 1..(n + 2)
    BY <1>2
  <2> HIDE DEF args, n
  <2>4. Asks(args, n + 2) <=> Asks(args, n + 1)
    BY <2>1, <2>2, <2>3 DEF Asks
  <2>5. Opens(args, n + 2) <=> Opens(args, n + 1)
    BY <2>1, <2>2, <2>3 DEF Opens
  <2> QED BY <2>1, <2>4, <2>5
<1>7. ASSUME NEW k \in Keys, ~IsFlag(args, arg, k) PROVE FlagRead(args, n + 1, k, cli.flags[k])
  <2>1. \A j \in (n + 1)..(n + 1) : ~IsFlag(args, j, k)
    BY <1>2, <1>7
  <2> HIDE DEF args, n
  <2> QED BY <1>2, <1>4, <2>1, FlagReadOn
<1>8. ASSUME NEW k \in Keys, NEW t, FlagRead(args, n + 1, k, t), HasNextValue
      PROVE  FlagRead(args, n + 2, k, t)
  <2>1. \A j \in ((n + 1) + 1)..(n + 2) : ~IsFlag(args, j, k)
    BY <1>2, <1>6, <1>8 DEF IsFlag
  <2> HIDE DEF args, n
  <2> QED BY <1>2, <1>8, <2>1, FlagReadOn
<1>9. Token = args[arg]
  BY DEF Token
<1> SUFFICES arg' - 1 <= Len(args) /\ Says(args, arg' - 1, cli')
  BY <1>1 DEF SaysInv, Ready
<1>10. CASE ParseCommand
  <2>1. Token.kind = "word" /\ cli' = [cli EXCEPT !.command = Token.name] /\ arg' - 1 = n + 1
    BY <1>2, <1>10 DEF ParseCommand, Parsing, Parsed
  <2>2. cli'.flags = cli.flags /\ (cli'.envFile <=> cli.envFile) /\ (cli'.processEnv <=> cli.processEnv)
    BY <1>4, <2>1 DEF Cli
  <2>3. \A k \in Keys : ~IsFlag(args, arg, k)
    BY <1>9, <2>1 DEF IsFlag
  <2>4. \A k \in Keys : FlagRead(args, n + 1, k, cli'.flags[k])
    BY <1>7, <2>2, <2>3
  <2>5. n + 1 <= Len(args)
    BY <1>1, <1>2
  <2> HIDE DEF args, n
  <2>6. Says(args, n + 1, cli')
    BY <1>4, <1>5, <2>1, <2>2, <2>4 DEF Says
  <2> QED BY <2>1, <2>5, <2>6
<1>11. CASE ParseSwitch
  <2>1. Token.kind = "switch" /\ cli' = [cli EXCEPT ![Token.name] = TRUE] /\ arg' - 1 = n + 1
    BY <1>2, <1>11 DEF ParseSwitch, Parsing, Parsed
  <2>2. Token.name \in Switches
    <3>1. Token \in Argument
      BY <1>1, <1>2, <1>3, <1>9, ElementOfSeq
    <3> QED BY <2>1, <3>1 DEF Argument
  <2>3. /\ cli'.flags = cli.flags /\ (cli'.envFile <=> cli.envFile)
        /\ (cli'.processEnv <=> (cli.processEnv \/ Token.name = "processEnv"))
    <3> DEFINE name == Token.name
    <3>1. cli' = [cli EXCEPT ![name] = TRUE] /\ name \in Switches
      BY <2>1, <2>2
    <3> HIDE DEF name
    <3>2. CASE name = "processEnv"
      <4>1. cli'.flags = cli.flags /\ cli'.envFile = cli.envFile /\ cli'.processEnv = TRUE
        BY <1>4, <3>1, <3>2 DEF Cli
      <4> QED BY <3>2, <4>1 DEF name
    <3>3. CASE name # "processEnv"
      <4>1. name # "flags" /\ name # "envFile"
        BY <3>1 DEF Switches
      <4>2. /\ cli'.flags = cli.flags /\ cli'.envFile = cli.envFile
            /\ cli'.processEnv = cli.processEnv
        BY <1>4, <3>1, <3>3, <4>1 DEF Cli
      <4> QED BY <3>3, <4>2 DEF name
    <3> QED BY <3>2, <3>3 DEF name
  <2>4. \A k \in Keys : ~IsFlag(args, arg, k)
    BY <1>9, <2>1 DEF IsFlag
  <2>5. \A k \in Keys : FlagRead(args, n + 1, k, cli'.flags[k])
    BY <1>7, <2>3, <2>4
  <2>6. n + 1 <= Len(args)
    BY <1>1, <1>2
  <2> HIDE DEF args, n
  <2>7. Says(args, n + 1, cli')
    BY <1>4, <1>5, <2>1, <2>3, <2>5 DEF Says
  <2> QED BY <2>1, <2>6, <2>7
<1>12. CASE ParseEnvFile
  <2>1. /\ Token.kind = "env-file" /\ HasNextValue /\ cli' = [cli EXCEPT !.envFile = TRUE]
        /\ arg' - 1 = n + 2
    BY <1>2, <1>12 DEF ParseEnvFile, Parsing, Parsed
  <2>2. cli'.flags = cli.flags /\ cli'.envFile /\ (cli'.processEnv <=> cli.processEnv)
    BY <1>4, <2>1 DEF Cli
  <2>3. \A k \in Keys : ~IsFlag(args, arg, k)
    BY <1>9, <2>1 DEF IsFlag
  <2>4. n + 2 <= Len(args)
    BY <1>2, <1>6, <2>1
  <2>5. \A k \in Keys : FlagRead(args, n + 2, k, cli'.flags[k])
    BY <1>7, <1>8, <2>1, <2>2, <2>3
  <2>6. (Asks(args, n + 2) <=> Asks(args, n + 1)) /\ (Opens(args, n + 2) <=> Opens(args, n + 1))
    BY <1>6, <2>1
  <2> HIDE DEF args, n
  <2>7. Says(args, n + 2, cli')
    BY <1>4, <1>5, <2>1, <2>2, <2>5, <2>6 DEF Says
  <2> QED BY <2>1, <2>4, <2>7
<1>13. CASE ParseFlag
  <2>1. PICK m \in {1, 2}, t \in {Token.text, args[arg + 1].text} :
          /\ \/ Token.kind = "flag=" /\ t = Token.text /\ m = 1
             \/ Token.kind = "flag" /\ HasNextValue /\ t = args[arg + 1].text /\ m = 2
          /\ cli' = [cli EXCEPT !.flags[Token.name] = t]
          /\ arg' = arg + m
    <3>1. CASE Parsing("flag=")
      <4>1. Token.kind = "flag=" /\ cli' = [cli EXCEPT !.flags[Token.name] = Token.text] /\ arg' = arg + 1
        BY <1>13, <3>1 DEF ParseFlag, Parsing, Parsed
      <4> QED BY <4>1
    <3>2. CASE Parsing("flag")
      <4>1. /\ Token.kind = "flag" /\ HasNextValue /\ arg' = arg + 2
            /\ cli' = [cli EXCEPT !.flags[Token.name] = args[arg + 1].text]
        BY <1>13, <3>2 DEF ParseFlag, Parsing, Parsed
      <4> QED BY <4>1
    <3> QED BY <1>13, <3>1, <3>2 DEF ParseFlag
  <2>2. Token.name \in Keys
    <3>1. Token \in Argument
      BY <1>1, <1>2, <1>3, <1>9, ElementOfSeq
    <3> QED BY <2>1, <3>1 DEF Argument
  <2>3. /\ \A k \in Keys : cli'.flags[k] = IF k = Token.name THEN t ELSE cli.flags[k]
        /\ (cli'.envFile <=> cli.envFile) /\ (cli'.processEnv <=> cli.processEnv)
    <3> DEFINE name == Token.name
    <3>1. cli' = [cli EXCEPT !.flags[name] = t] /\ name \in Keys
      BY <2>1, <2>2
    <3> HIDE DEF name
    <3>2. /\ \A k \in Keys : cli'.flags[k] = IF k = name THEN t ELSE cli.flags[k]
          /\ (cli'.envFile <=> cli.envFile) /\ (cli'.processEnv <=> cli.processEnv)
      BY <1>4, <3>1 DEF Cli
    <3> QED BY <3>2 DEF name
  <2>4. \A k \in Keys : k # Token.name => ~IsFlag(args, arg, k)
    BY <1>9 DEF IsFlag
  <2>5. arg \in 1..(n + 1) /\ arg \in 1..(n + 2) /\ (arg < n + 2)
        /\ (\A l \in (arg + 1)..(n + 1) : FALSE) /\ (\A l \in (arg + 1)..(n + 2) : l = arg + 1)
    BY <1>2
  <2>6. IsFlag(args, arg, Token.name)
    BY <1>9, <2>1 DEF IsFlag
  <2>7. CASE m = 1
    <3>1. FlagRead(args, n + 1, Token.name, t)
      <4>1. args[arg].kind = "flag=" /\ t = args[arg].text
        BY <1>9, <2>1, <2>7
      <4> HIDE DEF args, n
      <4> QED BY <2>5, <2>6, <4>1 DEF FlagRead
    <3>2. \A k \in Keys : FlagRead(args, n + 1, k, cli'.flags[k])
      BY <1>7, <2>3, <2>4, <3>1
    <3>3. arg' - 1 = n + 1 /\ Token.kind = "flag="
      BY <1>2, <2>1, <2>7
    <3>4. n + 1 <= Len(args)
      BY <1>1, <1>2
    <3> HIDE DEF args, n
    <3>5. Says(args, n + 1, cli')
      BY <1>4, <1>5, <2>3, <3>2, <3>3 DEF Says
    <3> QED BY <3>3, <3>4, <3>5
  <2>8. CASE m = 2
    <3>1. Token.kind = "flag" /\ HasNextValue /\ t = args[arg + 1].text /\ arg' - 1 = n + 2
      BY <1>2, <2>1, <2>8
    <3>2. FlagRead(args, n + 2, Token.name, t)
      <4>1. args[arg].kind = "flag" /\ t = args[arg + 1].text
        BY <1>9, <3>1
      <4>2. \A l \in (arg + 1)..(n + 2) : ~IsFlag(args, l, Token.name)
        BY <1>6, <2>5, <3>1 DEF IsFlag
      <4> HIDE DEF args, n
      <4> QED BY <2>5, <2>6, <4>1, <4>2 DEF FlagRead
    <3>3. \A k \in Keys : FlagRead(args, n + 2, k, cli'.flags[k])
      BY <1>7, <1>8, <2>3, <2>4, <3>1, <3>2
    <3>4. n + 2 <= Len(args)
      BY <1>2, <1>6, <3>1
    <3>5. (Asks(args, n + 2) <=> Asks(args, n + 1)) /\ (Opens(args, n + 2) <=> Opens(args, n + 1))
      BY <1>6, <3>1
    <3> HIDE DEF args, n
    <3>6. Says(args, n + 2, cli')
      BY <1>4, <1>5, <2>3, <3>1, <3>3, <3>5 DEF Says
    <3> QED BY <3>1, <3>4, <3>6
  <2> QED BY <2>7, <2>8
<1> QED BY <1>10, <1>11, <1>12, <1>13

\* The mentions of each layer, were the command line c.
EnvOf(c) == {m \in launch.env : c.processEnv /\ ~IsBlank(m.text)}
FileOf(c) ==
    {[launch.file.lines[i] EXCEPT !.text = FileText(@)] :
        i \in {j \in Lines :
                 /\ c.envFile
                 /\ \A l \in Lines : l > j =>
                      \/ launch.file.lines[l].key # launch.file.lines[j].key
                      \/ launch.file.lines[l].form # launch.file.lines[j].form}}
FlagsOf(c) == {[key |-> k, form |-> "name", text |-> c.flags[k]] :
                  k \in {l \in Keys : c.flags[l] # Absent}}

SaidIn(ms, k, v) == \E m \in ms : m.key = k /\ v[k] = m.text

\* The values may be those the merge of the layers ends with.
Merged(c, v) == \A k \in Keys :
    IF k \in Named(FlagsOf(c)) THEN SaidIn(FlagsOf(c), k, v)
    ELSE IF k \in Named(FileOf(c)) THEN SaidIn(FileOf(c), k, v)
    ELSE IF k \in Named(EnvOf(c)) THEN SaidIn(EnvOf(c), k, v)
    ELSE v[k] = Absent

\* The configuration is what the merge ended with.
ReadyInv == phase \in Ready => /\ Merged(cli, values)
                               /\ \A k \in Keys : config[k] = Get(k, values[k])

Needed == {"WECHAT_TOKEN", "WECHAT_ADMIN_OPENIDS"}

\* The launch says what doctor asked for.
Fit == \E c \in Cli, v \in [Keys -> Text] :
          /\ Says(launch.args, Len(launch.args), c)
          /\ Merged(c, v)
          /\ \A k \in Needed : Get(k, v[k]) # Default

ApprovedInv ==
    /\ approved => Fit /\ \A d \in DoctorDirs : disk[d] = "present"
    /\ approved /\ OneSpelling /\ phase \in {"clients", "spawn", "bind", "serve"} => members

\* The layers as functions of a command line are, for this one, the layers.
LEMMA SameMentions ==
    /\ EnvOf(cli) = EnvMentions /\ FileOf(cli) = FileMentions /\ FlagsOf(cli) = FlagMentions
BY DEF EnvOf, FileOf, FlagsOf, EnvMentions, FileMentions, FlagMentions

\* What the start and the callbacks need are settings.
LEMMA NeededAreKeys == Needed \subseteq Keys
BY DEF Needed, Keys, Kind

\* Where no two mentions compete, a key has one mention.
LEMMA NoRivals ==
    ASSUME NEW ms, Rivals(ms) = {}, NEW m \in ms, NEW n \in ms, m.key = n.key
    PROVE  m = n
BY DEF Rivals

\* Two command lines that say the same give, with each key spelled once, the
\* same values.
LEMMA OneMerge ==
    ASSUME NEW c, NEW d, NEW v, NEW w, Merged(c, v), Merged(d, w), NEW k \in Keys,
           \A l \in Keys : c.flags[l] = d.flags[l],
           c.envFile <=> d.envFile, c.processEnv <=> d.processEnv,
           Rivals(launch.env) = {}, Rivals(FileOf(d)) = {}
    PROVE  v[k] = w[k]
<1>1. FlagsOf(c) = FlagsOf(d) /\ FileOf(c) = FileOf(d) /\ EnvOf(c) = EnvOf(d)
  BY DEF FlagsOf, FileOf, EnvOf
<1>2. \A m, n \in FlagsOf(d) : m.key = n.key => m = n
  BY DEF FlagsOf
<1>3. \A m, n \in FileOf(d) : m.key = n.key => m = n
  BY NoRivals
<1>4. \A m, n \in EnvOf(d) : m.key = n.key => m = n
  BY NoRivals DEF EnvOf
<1>5. ASSUME NEW ms, \A m, n \in ms : m.key = n.key => m = n, SaidIn(ms, k, v), SaidIn(ms, k, w)
      PROVE  v[k] = w[k]
  BY <1>5 DEF SaidIn
<1> QED BY <1>1, <1>2, <1>3, <1>4, <1>5 DEF Merged

\* So once the second launch is read, what doctor asked for is set.
LEMMA ApprovedIsSet ==
    ASSUME TextsInv, SaysInv, ReadyInv, Fit, OneSpelling, phase \in Ready
    PROVE  \A k \in Needed : IsSet(k)
<1>1. PICK c \in Cli, v \in [Keys -> Text] :
        /\ Says(launch.args, Len(launch.args), c)
        /\ Merged(c, v)
        /\ \A k \in Needed : Get(k, v[k]) # Default
  BY DEF Fit
<1>2. /\ Says(launch.args, Len(launch.args), cli) /\ Merged(cli, values)
      /\ \A k \in Keys : config[k] = Get(k, values[k])
  BY DEF SaysInv, ReadyInv
<1>3. Len(launch.args) \in Nat
  BY LenProperties DEF TextsInv, Launch
<1>4. /\ \A l \in Keys : c.flags[l] = cli.flags[l]
      /\ c.envFile <=> cli.envFile
      /\ c.processEnv <=> cli.processEnv
  BY <1>1, <1>2, <1>3, OneFlagRead DEF Says
<1>5. Rivals(launch.env) = {} /\ Rivals(FileOf(cli)) = {}
  BY SameMentions DEF OneSpelling
<1>6. ASSUME NEW k \in Needed PROVE IsSet(k)
  <2>1. k \in Keys
    BY NeededAreKeys
  <2>2. v[k] = values[k]
    BY <1>1, <1>2, <1>4, <1>5, <2>1, OneMerge
  <2> QED BY <1>1, <1>2, <2>1, <2>2 DEF IsSet
<1> QED BY <1>6

\* Nothing that says what the launch is changes.
LEMMA StillMerged ==
    ASSUME UNCHANGED <<launch, cli, values, config>>
    PROVE  /\ (Says(launch.args, Len(launch.args), cli)' <=> Says(launch.args, Len(launch.args), cli))
           /\ (Merged(cli, values)' <=> Merged(cli, values))
           /\ (OneSpelling' <=> OneSpelling)
BY DEF Says, FlagRead, IsFlag, Asks, Opens, Merged, SaidIn, EnvOf, FileOf, FlagsOf, Lines,
       OneSpelling, FileMentions

\* Whether doctor's verdict fits the launch depends on the launch alone.
LEMMA StillFit ==
    ASSUME UNCHANGED launch
    PROVE  Fit' <=> Fit
BY DEF Fit, Says, FlagRead, IsFlag, Asks, Opens, Merged, SaidIn, EnvOf, FileOf, FlagsOf, Lines

\* Before the first argument the command line has said nothing.
LEMMA SaysStart ==
    ASSUME NEW args
    PROVE  Says(args, 0, NoCli)
<1>1. \A j \in 1..0 : FALSE
  OBVIOUS
<1>2. \A k \in Keys : FlagRead(args, 0, k, NoCli.flags[k])
  BY <1>1 DEF FlagRead, NoCli
<1> QED BY <1>1, <1>2 DEF Says, Asks, Opens, NoCli

LaunchInv == SaysInv /\ ReadyInv /\ ApprovedInv

\* Before the settings are read, nothing is ready.
LEMMA ConfigureLaunches ==
    ASSUME TypeInv, MergeInv, LaunchInv, Configure
    PROVE  LaunchInv'
<1>1. TextsInv /\ SaysInv /\ ReadyInv /\ ApprovedInv
  BY DEF TypeInv, LaunchInv
<1>2. launch' = launch /\ UNCHANGED <<approved, disk, members>>
  BY DEF Configure, ConfigNext, ParseCommand, ParseSwitch, ParseEnvFile, ParseFlag, Parsed,
         RefuseArgument, FinishParsing, MergeProcessEnv, MergeEnvFile, MergeFlags, Lookup,
         LookupFails, machine, started
<1>3. phase' \in {"parse", "failed", "ended", "process-env", "env-file", "cli", "lookup", "dispatch"}
  BY DEF Configure, ConfigNext, ParseCommand, ParseSwitch, ParseEnvFile, ParseFlag, Parsed, Parsing,
         RefuseArgument, FinishParsing, MergeProcessEnv, MergeEnvFile, MergeFlags, Lookup,
         LookupFails, Exit
<1>4. ApprovedInv'
  BY <1>1, <1>2, <1>3, StillFit DEF ApprovedInv
<1>5. CASE ParseCommand \/ ParseSwitch \/ ParseEnvFile \/ ParseFlag
  <2>1. phase' = "parse"
    BY <1>5 DEF ParseCommand, ParseSwitch, ParseEnvFile, ParseFlag, Parsed, Parsing
  <2>2. SaysInv'
    BY <1>1, <1>5, ParseSays
  <2> QED BY <1>4, <2>1, <2>2 DEF LaunchInv, ReadyInv, Ready
<1>6. CASE RefuseArgument \/ FinishParsing \/ LookupFails
  <2>1. /\ UNCHANGED <<launch, arg, cli>>
        /\ \/ phase' \in {"failed", "ended"}
           \/ phase' = "process-env" /\ phase = "parse" /\ arg > Len(launch.args)
    BY <1>6 DEF RefuseArgument, FinishParsing, LookupFails, Exit, parsing
  <2>2. CASE phase' \in {"failed", "ended"}
    BY <1>4, <2>2 DEF LaunchInv, SaysInv, ReadyInv, Ready
  <2>3. CASE phase' = "process-env" /\ phase = "parse" /\ arg > Len(launch.args)
    <3>1. arg - 1 = Len(launch.args)
      <4>1. arg \in Nat \ {0} /\ Len(launch.args) \in Nat /\ arg - 1 <= Len(launch.args)
        BY <1>1, <2>3, LenProperties DEF SaysInv, TextsInv, Launch
      <4> QED BY <2>3, <4>1
    <3>2. Says(launch'.args, Len(launch'.args), cli')
      BY <1>1, <2>1, <2>3, <3>1 DEF SaysInv
    <3> QED BY <1>4, <2>3, <3>2 DEF LaunchInv, SaysInv, ReadyInv, Ready
  <2> QED BY <2>1, <2>2, <2>3
<1>7. CASE MergeProcessEnv \/ MergeEnvFile \/ MergeFlags
  <2>1. /\ UNCHANGED <<launch, cli>> /\ phase \in {"process-env", "env-file", "cli"}
        /\ phase' \in {"failed", "env-file", "cli", "lookup"}
    BY <1>7 DEF MergeProcessEnv, MergeEnvFile, MergeFlags, Exit, parsing
  <2>2. Says(launch'.args, Len(launch'.args), cli')
    BY <1>1, <2>1 DEF SaysInv
  <2> QED BY <1>4, <2>1, <2>2 DEF LaunchInv, SaysInv, ReadyInv, Ready
<1>8. CASE Lookup
  <2>1. UNCHANGED <<launch, cli>> /\ phase = "lookup" /\ phase' = "dispatch"
    BY <1>8 DEF Lookup, parsing
  <2>2. Says(launch'.args, Len(launch'.args), cli')
    BY <1>1, <2>1 DEF SaysInv
  <2>3. \A k \in Keys : AfterFlags(k)' /\ IsRead(k)'
    BY <1>8, <2>1, LookupKeeps DEF MergeInv
  <2>4. Merged(cli, values)'
    <3>1. /\ EnvOf(cli)' = EnvMentions' /\ FileOf(cli)' = FileMentions'
          /\ FlagsOf(cli)' = FlagMentions'
      BY DEF EnvOf, FileOf, FlagsOf, EnvMentions, FileMentions, FlagMentions, Lines
    <3>2. ASSUME NEW k \in Keys
          PROVE  IF k \in Named(FlagMentions') THEN SaidIn(FlagMentions', k, values')
                 ELSE IF k \in Named(FileMentions') THEN SaidIn(FileMentions', k, values')
                 ELSE IF k \in Named(EnvMentions') THEN SaidIn(EnvMentions', k, values')
                 ELSE values'[k] = Absent
      BY <2>3 DEF SaidIn, AfterFlags, AfterFile, AfterEnv, ReadFrom, Open, Named
    <3> QED BY <3>1, <3>2 DEF Merged, SaidIn, Named
  <2>5. \A k \in Keys : config'[k] = Get(k, values'[k])
    BY <2>3 DEF IsRead
  <2> QED BY <1>4, <2>1, <2>2, <2>4, <2>5 DEF LaunchInv, SaysInv, ReadyInv, Ready
<1> QED BY <1>5, <1>6, <1>7, <1>8 DEF Configure, ConfigNext

\* Doctor approves of what it has read.
LEMMA DoctorLaunches ==
    ASSUME TypeInv, LaunchInv, RunDoctor
    PROVE  LaunchInv'
<1>1. TextsInv /\ SaysInv /\ ReadyInv
  BY DEF TypeInv, LaunchInv
<1>2. phase = "dispatch" /\ phase' \in {"ended", "failed"} /\ UNCHANGED <<launch, cli, values, config>>
  BY DEF RunDoctor, parsing, merged, read
<1>3. ASSUME approved' PROVE Fit' /\ \A d \in DoctorDirs : disk'[d] = "present"
  <2>1. DoctorIsContent
    BY <1>3 DEF RunDoctor
  <2>2. \A k \in Needed : config[k] # Default
    BY <2>1 DEF DoctorIsContent, DoctorRequires, Needed, IsSet
  <2>3. Says(launch.args, Len(launch.args), cli) /\ Merged(cli, values)
        /\ \A k \in Keys : config[k] = Get(k, values[k])
    BY <1>1, <1>2 DEF SaysInv, ReadyInv, Ready
  <2>4. \A k \in Needed : Get(k, values[k]) # Default
    BY <2>2, <2>3, NeededAreKeys
  <2>5. Fit
    BY <1>1, <2>3, <2>4 DEF Fit, TextsInv
  <2> QED BY <1>2, <2>1, <2>5, StillFit DEF DoctorIsContent
<1> QED BY <1>2, <1>3 DEF LaunchInv, SaysInv, ReadyInv, Ready, ApprovedInv

\* The same launch, without the command.
LEMMA SecondLaunches ==
    ASSUME TypeInv, LaunchInv, StartApproved
    PROVE  LaunchInv'
<1>1. /\ phase' = "parse" /\ arg' = 1 /\ cli' = NoCli /\ UNCHANGED <<approved, disk>>
      /\ launch \in Launch /\ launch.args \in Seq(Argument)
  BY DEF StartApproved, Go, machine, TypeInv, TextsInv, Launch
<1>2. PICK i \in DOMAIN launch.args :
        /\ IsCommand(i)
        /\ launch' = [launch EXCEPT !.args = SubSeq(@, 1, i - 1) \o SubSeq(@, i + 1, Len(@))]
  BY DEF StartApproved
<1>3. /\ launch'.args = SubSeq(launch.args, 1, i - 1) \o SubSeq(launch.args, i + 1, Len(launch.args))
      /\ launch'.env = launch.env /\ launch'.file = launch.file
  BY <1>1, <1>2 DEF Launch
<1>4. ASSUME Fit PROVE Fit'
  <2>1. PICK c \in Cli, v \in [Keys -> Text] :
          /\ Says(launch.args, Len(launch.args), c)
          /\ Merged(c, v)
          /\ \A k \in Needed : Get(k, v[k]) # Default
    BY <1>4 DEF Fit
  <2>2. Says(launch'.args, Len(launch'.args), c)
    BY <1>1, <1>2, <1>3, <2>1, CommandSaysNothing DEF IsCommand
  <2>3. Merged(c, v)'
    <3>1. EnvOf(c)' = EnvOf(c) /\ FileOf(c)' = FileOf(c) /\ FlagsOf(c)' = FlagsOf(c)
      BY <1>3 DEF EnvOf, FileOf, FlagsOf, Lines
    <3> QED BY <2>1, <3>1 DEF Merged, SaidIn, Named
  <2> QED BY <2>1, <2>2, <2>3 DEF Fit
<1>5. Says(launch'.args, 0, NoCli)
  BY SaysStart
<1>6. 0 <= Len(launch'.args)
  <2>1. launch' \in Launch
    BY StartTyped DEF TypeInv, TextsInv
  <2> QED BY <2>1, LenProperties DEF Launch
<1>7. SaysInv'
  <2>1. arg' - 1 = 0
    BY <1>1
  <2> QED BY <1>1, <1>5, <1>6, <2>1 DEF SaysInv, Ready
<1> QED BY <1>1, <1>4, <1>7 DEF LaunchInv, ReadyInv, Ready, ApprovedInv

\* From then on nothing is read again; directories there stay there.
LEMMA OthersLaunch ==
    ASSUME TypeInv, LaunchInv, UNCHANGED <<launch, cli, values, config, approved>>,
           phase' = phase \/ (phase \in Ready /\ phase' \in {"ended", "failed"})
             \/ (phase \in Ready /\ phase' \in Ready),
           arg' = arg,
           disk' = disk \/ \E dirs : disk' = MadeBy(dirs),
           members => members',
           phase' \in {"clients", "spawn", "bind", "serve"} =>
             \/ phase \in {"clients", "spawn", "bind", "serve"}
             \/ phase \in Ready /\ members' = (members \/ IsSet("WECHAT_ADMIN_OPENIDS"))
    PROVE  LaunchInv'
<1>1. TextsInv /\ SaysInv /\ ReadyInv /\ ApprovedInv
  BY DEF TypeInv, LaunchInv
<1>2. SaysInv' /\ ReadyInv'
  <2>1. CASE phase' = phase
    BY <1>1, <2>1, StillMerged DEF SaysInv, ReadyInv
  <2>2. CASE phase' \in {"ended", "failed"}
    BY <2>2 DEF SaysInv, ReadyInv, Ready
  <2>3. CASE phase \in Ready /\ phase' \in Ready
    BY <1>1, <2>3, StillMerged DEF SaysInv, ReadyInv, Ready
  <2> QED BY <2>1, <2>2, <2>3
<1>3. ASSUME approved' PROVE Fit' /\ \A d \in DoctorDirs : disk'[d] = "present"
  <2>1. Fit' /\ \A d \in DoctorDirs : disk[d] = "present"
    BY <1>1, <1>3, StillFit DEF ApprovedInv
  <2>2. DOMAIN disk = DoctorDirs
    BY DEF TypeInv, HostInv, Disk
  <2> QED BY <2>1, <2>2 DEF MadeBy
<1>4. ASSUME approved', OneSpelling', phase' \in {"clients", "spawn", "bind", "serve"} PROVE members'
  <2>1. approved /\ OneSpelling
    BY <1>4, StillMerged
  <2>2. CASE phase \in {"clients", "spawn", "bind", "serve"}
    BY <1>1, <2>1, <2>2 DEF ApprovedInv
  <2>3. CASE phase \in Ready /\ members' = (members \/ IsSet("WECHAT_ADMIN_OPENIDS"))
    BY <1>1, <2>1, <2>3, ApprovedIsSet DEF ApprovedInv, Needed
  <2> QED BY <1>4, <2>2, <2>3
<1> QED BY <1>2, <1>3, <1>4 DEF LaunchInv, ApprovedInv

\* Every step keeps what is known of the command line and of the verdict.
LEMMA LaunchStep == TypeInv /\ MergeInv /\ LaunchInv /\ [Next]_vars => LaunchInv'
<1> SUFFICES ASSUME TypeInv, MergeInv, LaunchInv, [Next]_vars PROVE LaunchInv'
  OBVIOUS
<1>1. CASE RunOther \/ StartService
  <2>1. /\ UNCHANGED <<launch, arg, cli, values, config, approved, disk, members>>
        /\ phase = "dispatch" /\ phase' \in {"ended", "failed", "token"}
    BY <1>1 DEF RunOther, StartService, Go, parsing, merged, read, machine, started
  <2> QED BY <2>1, OthersLaunch DEF Ready
<1>2. CASE RequireToken \/ EnsureParent \/ ConnectAndMigrate \/ StartFault
  <2>1. /\ UNCHANGED <<launch, arg, cli, values, config, approved, members>>
        /\ phase \in Ready /\ phase' \in {"parent", "failed", "connect", "seed"}
    BY <1>2 DEF RequireToken, EnsureParent, ConnectAndMigrate, StartFault, Go, Exit, Stays,
                parsing, merged, read, started, Ready
  <2>2. disk' = disk \/ \E dirs : disk' = MadeBy(dirs)
    BY <1>2 DEF RequireToken, EnsureParent, ConnectAndMigrate, StartFault
  <2> QED BY <2>1, <2>2, OthersLaunch DEF Ready
<1>3. CASE SeedAdmins
  <2>1. /\ UNCHANGED <<launch, arg, cli, values, config, approved, disk>>
        /\ phase = "seed" /\ phase' = "clients"
        /\ members' = (members \/ IsSet("WECHAT_ADMIN_OPENIDS"))
    BY <1>3 DEF SeedAdmins, Go, Stays, parsing, merged, read
  <2> QED BY <2>1, OthersLaunch DEF Ready
<1>4. CASE BuildClients \/ SpawnWorker \/ Bind
  <2>1. /\ UNCHANGED <<launch, arg, cli, values, config, approved, disk, members>>
        /\ phase \in {"clients", "spawn", "bind"} /\ phase' \in {"spawn", "bind", "serve"}
    BY <1>4 DEF BuildClients, SpawnWorker, Bind, Go, Stays, parsing, merged, read, started
  <2> QED BY <2>1, OthersLaunch DEF Ready
<1>5. CASE \/ \E r \in Requests : Receive(r)
           \/ RefuseUnsigned \/ RefuseUnconfigured \/ Archive \/ ArchiveFails
           \/ Decrypt \/ DecryptFails \/ Parse \/ ParseFails
  <2>1. UNCHANGED <<launch, phase, arg, cli, values, config, approved, disk, members>>
    BY <1>5 DEF Receive, RefuseUnsigned, RefuseUnconfigured, Archive, ArchiveFails, Decrypt,
                DecryptFails, Parse, ParseFails, Refuse, Unmoved, configVars, parsing, merged,
                read, machine, started
  <2> QED BY <2>1, OthersLaunch
<1>6. CASE UNCHANGED vars
  <2>1. UNCHANGED <<launch, phase, arg, cli, values, config, approved, disk, members>>
    BY <1>6 DEF vars, configVars, parsing, merged, read, machine, started
  <2> QED BY <2>1, OthersLaunch
<1> QED BY <1>1, <1>2, <1>3, <1>4, <1>5, <1>6, ConfigureLaunches, DoctorLaunches, SecondLaunches DEF Next

\* At a launch nothing is parsed and nothing approved.
LEMMA LaunchStart == ServiceInit => LaunchInv
<1> SUFFICES ASSUME ServiceInit PROVE LaunchInv
  OBVIOUS
<1>1. phase = "parse" /\ arg = 1 /\ cli = NoCli /\ approved = FALSE /\ launch \in Launch
  BY ServiceAssumption DEF ServiceInit, Init
<1>2. arg - 1 = 0 /\ 0 <= Len(launch.args) /\ Says(launch.args, 0, cli)
  BY <1>1, SaysStart, LenProperties DEF Launch
<1> QED BY <1>1, <1>2 DEF LaunchInv, SaysInv, ReadyInv, ApprovedInv, Ready

-----------------------------------------------------------------------------
(* What WeChat sends is answered.                                          *)

Expected == AsIssued /\ IsGenuine(request)

GenuineInv ==
    /\ stage \in {"idle", "plain", "encrypted"} => plainXml = <<>>
    /\ stage = "parse" /\ Expected => plainXml = request.xml
    /\ stage = "answered" /\ Expected =>
         answer = 200 \/ (answer = 400 /\ plainXml # request.xml)

\* A genuine request passes every check; in encrypted mode it opens to the
\* text it was sent with.
LEMMA GenuinePasses ==
    ASSUME AnswerInv, Expected, stage # "idle"
    PROVE  /\ request.xml \in Seq(Nat) \ {<<>>} /\ Parses(request.xml)
           /\ ~Encrypted(request) => PlainIsSigned
           /\ Encrypted(request) =>
                /\ IsSet("WECHAT_APP_ID") /\ IsSet("WECHAT_ENCODING_AES_KEY")
                /\ request.msgSignature # Unsigned
                /\ request.envelope /\ EncryptedIsSigned /\ IsKey(AesKey)
                /\ \A bytes \in Opened(AesKey, request.payload) :
                      IsForApp(bytes) /\ Unframe(bytes).xml = request.xml
<1>1. /\ Parses(request.xml) /\ request.xml \in Seq(Nat) \ {<<>>}
      /\ WechatToken = Issued.token
  BY ServiceAssumption DEF Expected, IsGenuine, AsIssued, Parses
<1>2. /\ Issued.token.shape = "plain" /\ Issued.app.shape = "plain" /\ Issued.key.shape = "plain"
      /\ Issued.app \in Text
  BY ServiceAssumption
<1>3. CASE ~Encrypted(request)
  <2>1. ~request.aes
    BY <1>3 DEF Expected, IsGenuine
  <2> QED BY <1>1, <1>3, <2>1 DEF Expected, IsGenuine, PlainIsSigned
<1>4. CASE Encrypted(request)
  <2>1. request.aes /\ IsOn("WECHAT_ENCRYPTED_CALLBACK_ENABLED", FALSE)
    BY <1>4 DEF Encrypted
  <2>2. /\ AppId = Issued.app /\ AesKey = Issued.key
        /\ request.envelope
        /\ request.payload = [key |-> Issued.key.word, bytes |-> Frame(request.xml, AppOf(Issued.app))]
        /\ request.msgSignature = Signature(Issued.token, request.nonce, request.payload)
    BY <2>1 DEF Expected, AsIssued, IsGenuine
  <2>3. IsSet("WECHAT_APP_ID") /\ IsSet("WECHAT_ENCODING_AES_KEY") /\ IsKey(AesKey)
    BY <1>2, <2>2 DEF IsSet, AppId, AesKey, Default, IsKey
  <2>4. request.msgSignature # Unsigned /\ EncryptedIsSigned
    <3>1. request.msgSignature.token.shape = "plain" /\ Unsigned.token.shape = "absent"
      BY <1>2, <2>2 DEF Signature, Unsigned
    <3> QED BY <1>1, <2>2, <3>1 DEF EncryptedIsSigned
  <2>5. AppOf(Issued.app) \in Seq(Nat)
    BY <1>2, ServiceAssumption DEF AppOf, Text
  <2>6. /\ Unframe(Frame(request.xml, AppOf(Issued.app))) = [xml |-> request.xml, app |-> AppOf(Issued.app)]
    BY <1>1, <2>5, FrameRoundTrip
  <2>7. \A bytes \in Opened(AesKey, request.payload) : bytes = Frame(request.xml, AppOf(Issued.app))
    BY <2>2 DEF Opened
  <2>8. [xml |-> request.xml, app |-> AppOf(Issued.app)] # Malformed
    BY DEF Malformed
  <2>9. \A bytes \in Opened(AesKey, request.payload) : IsForApp(bytes) /\ Unframe(bytes).xml = request.xml
    BY <2>2, <2>6, <2>7, <2>8 DEF IsForApp
  <2> QED BY <1>1, <1>4, <2>2, <2>3, <2>4, <2>9
<1> QED BY <1>3, <1>4

\* Every step keeps that a genuine callback is refused by the archive alone.
LEMMA GenuineStep == AnswerInv /\ GenuineInv /\ [Next]_vars => GenuineInv'
<1> SUFFICES ASSUME AnswerInv, GenuineInv, [Next]_vars PROVE GenuineInv'
  OBVIOUS
<1>1. ASSUME phase # "serve", UNCHANGED handled PROVE GenuineInv'
  <2>1. stage = "idle"
    BY <1>1 DEF AnswerInv
  <2>2. stage' = "idle" /\ plainXml' = plainXml
    BY <1>1, <2>1 DEF handled
  <2> QED BY <2>1, <2>2 DEF GenuineInv
<1>2. CASE Configure
  <2>1. phase # "serve" /\ UNCHANGED handled
    BY <1>2 DEF Configure, ConfigNext, ParseCommand, ParseSwitch, ParseEnvFile, ParseFlag,
                RefuseArgument, FinishParsing, Parsing, MergeProcessEnv, MergeEnvFile,
                MergeFlags, Lookup, LookupFails
  <2> QED BY <1>1, <2>1
<1>3. CASE \/ RunDoctor \/ RunOther \/ StartApproved \/ StartService
           \/ RequireToken \/ EnsureParent \/ ConnectAndMigrate \/ SeedAdmins
           \/ BuildClients \/ SpawnWorker \/ Bind \/ StartFault
  <2>1. phase # "serve" /\ UNCHANGED handled
    BY <1>3 DEF RunDoctor, RunOther, StartApproved, StartService, RequireToken, EnsureParent,
                ConnectAndMigrate, SeedAdmins, BuildClients, SpawnWorker, Bind, StartFault, Stays, Go
  <2> QED BY <1>1, <2>1
<1>4. CASE \E r \in Requests : Receive(r)
  <2>1. stage = "idle" /\ stage' \in {"plain", "encrypted"} /\ plainXml' = plainXml
    BY <1>4 DEF Receive, AtStage
  <2> QED BY <2>1 DEF GenuineInv
<1>5. ASSUME UNCHANGED <<config, request>> PROVE Expected' <=> Expected
  BY <1>5 DEF Expected, AsIssued, IsGenuine, Encrypted, IsOn, IsSet, WechatToken, AesKey, AppId, AppOf
<1>6. ASSUME NEW status \in {400, 403}, Refuse(status), stage # "idle",
             Expected => status = 400 /\ plainXml # request.xml
      PROVE  GenuineInv'
  <2>1. stage' = "answered" /\ answer' = status /\ UNCHANGED <<config, request, plainXml>>
    BY <1>6 DEF Refuse, Unmoved, configVars, read
  <2> QED BY <1>5, <1>6, <2>1 DEF GenuineInv
<1>7. CASE RefuseUnsigned \/ RefuseUnconfigured \/ DecryptFails
  <2>1. stage # "idle" /\ (Refuse(400) \/ Refuse(403))
    BY <1>7 DEF RefuseUnsigned, RefuseUnconfigured, DecryptFails, AtStage
  <2>2. ~Expected
    <3> SUFFICES ASSUME Expected PROVE FALSE
      OBVIOUS
    <3>1. stage = "plain" => ~Encrypted(request)
      BY DEF AnswerInv
    <3>2. stage \in {"encrypted", "decrypt"} => Encrypted(request)
      BY DEF AnswerInv
    <3>3. CASE RefuseUnsigned
      BY <2>1, <3>1, <3>2, <3>3, GenuinePasses DEF RefuseUnsigned, AtStage
    <3>4. CASE RefuseUnconfigured
      BY <2>1, <3>1, <3>2, <3>4, GenuinePasses DEF RefuseUnconfigured, AtStage
    <3>5. CASE DecryptFails
      BY <2>1, <3>1, <3>2, <3>5, GenuinePasses DEF DecryptFails, AtStage
    <3> QED BY <1>7, <3>3, <3>4, <3>5
  <2> QED BY <1>6, <2>1, <2>2
<1>8. CASE ArchiveFails
  <2>1. stage \in {"plain", "encrypted"} /\ Refuse(400)
    BY <1>8 DEF ArchiveFails, MayArchive, AtStage
  <2>2. plainXml = <<>>
    BY <2>1 DEF GenuineInv
  <2>3. Expected => plainXml # request.xml
    BY <2>1, <2>2, GenuinePasses
  <2>4. 400 \in {400, 403} /\ stage # "idle"
    BY <2>1
  <2>5. Expected => 400 = 400 /\ plainXml # request.xml
    BY <2>3
  <2> QED BY <1>6, <2>1, <2>4, <2>5
<1>9. CASE ParseFails
  <2>1. stage = "parse" /\ Refuse(400) /\ ~Parses(plainXml)
    BY <1>9 DEF ParseFails, AtStage
  <2>2. ~Expected
    BY <2>1, GenuinePasses DEF GenuineInv
  <2> QED BY <1>6, <2>1, <2>2
<1>10. CASE Archive
  <2>1. stage' \in {"parse", "decrypt"} /\ plainXml' = request.xml /\ request' = request
    BY <1>10 DEF Archive
  <2> QED BY <2>1 DEF GenuineInv
<1>11. CASE Decrypt
  <2>1. /\ stage = "decrypt" /\ stage' = "parse" /\ UNCHANGED <<config, request>>
        /\ \E bytes \in Opened(AesKey, request.payload) : plainXml' = Unframe(bytes).xml
    BY <1>11 DEF Decrypt, AtStage, Unmoved, configVars, read
  <2>2. Encrypted(request)
    BY <2>1 DEF AnswerInv
  <2>3. Expected => plainXml' = request.xml
    BY <2>1, <2>2, GenuinePasses
  <2> QED BY <1>5, <2>1, <2>3 DEF GenuineInv
<1>12. CASE Parse
  <2>1. stage' = "answered" /\ answer' = 200
    BY <1>12 DEF Parse
  <2> QED BY <2>1 DEF GenuineInv
<1>13. CASE UNCHANGED vars
  <2>1. UNCHANGED <<config, request, stage, plainXml, answer>>
    BY <1>13 DEF vars, configVars, read, handled
  <2> QED BY <1>5, <2>1 DEF GenuineInv
<1> QED BY <1>2, <1>3, <1>4, <1>7, <1>8, <1>9, <1>10, <1>11, <1>12, <1>13 DEF Next

\* The service's invariant.
IInv == MergeInv /\ TypeInv /\ AnswerInv /\ LaunchInv /\ GenuineInv

\* The service's invariant holds always.
LEMMA Invariant == Spec => []IInv
<1>1. ServiceInit => IInv
  BY MergeStart, TypeStart, LaunchStart
     DEF IInv, ServiceInit, Init, AnswerInv, AcceptedIsGenuine, GenuineInv
<1>2. IInv /\ [Next]_vars => IInv'
  BY MergeStep, TypeStep, AnswerStep, LaunchStep, GenuineStep DEF IInv, TypeInv
<1> QED BY <1>1, <1>2, PTL DEF Spec

\* For every launch doctor approved of: without its command it says the same,
\* so the start finds the token and the directory it was promised, its admins
\* are whitelisted before it serves, and a genuine callback is refused by
\* nothing but the archive.
THEOREM ApprovalHolds == Spec => []ApprovedServiceAnswers
<1>1. IInv => ApprovedServiceAnswers
  <2> SUFFICES ASSUME IInv, approved, OneSpelling
               PROVE  /\ phase = "token" => IsSet("WECHAT_TOKEN")
                      /\ phase = "parent" => (HasParent => disk["database"] # "forbidden")
                      /\ phase = "serve" => members
                      /\ (stage = "answered" /\ AsIssued /\ IsGenuine(request)) =>
                            answer = 200 \/ (answer = 400 /\ plainXml # request.xml)
    BY DEF ApprovedServiceAnswers
  <2>1. TextsInv /\ SaysInv /\ ReadyInv /\ ApprovedInv /\ GenuineInv
    BY DEF IInv, TypeInv, LaunchInv
  <2>2. phase = "token" => IsSet("WECHAT_TOKEN")
    BY <2>1, ApprovedIsSet DEF ApprovedInv, Ready, Needed
  <2>3. disk["database"] # "forbidden" /\ (phase = "serve" => members)
    BY <2>1 DEF ApprovedInv, DoctorDirs
  <2>4. stage = "answered" /\ AsIssued /\ IsGenuine(request) =>
          answer = 200 \/ (answer = 400 /\ plainXml # request.xml)
    BY <2>1 DEF GenuineInv, Expected
  <2> QED BY <2>2, <2>3, <2>4
<1> QED BY <1>1, Invariant, PTL

=============================================================================
