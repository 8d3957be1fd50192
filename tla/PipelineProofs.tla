--------------------------- MODULE PipelineProofs ---------------------------
(***************************************************************************)
(* Proofs about Pipeline, for any messages, addresses, delays, lifetimes   *)
(* and numbers of attempts: types, the token's margin, and that items are  *)
(* published complete and in order.                                        *)
(***************************************************************************)
EXTENDS Pipeline, TLAPS, WellFoundedInduction

\* The least element of a set of naturals.
LEMMA LeastNatural ==
  ASSUME NEW T, T \subseteq Nat, T # {}
  PROVE  \E x \in T : \A y \in T : x <= y
<1> DEFINE R == {ss \in Nat \X Nat : ss[1] < ss[2]}
<1>1. IsWellFoundedOn(R, Nat)
  BY NatLessThanWellFounded DEF OpToRel
<1>2. PICK x \in T : \A y \in T : ~ (<<y, x>> \in R)
  <2> HIDE DEF R
  <2> QED BY <1>1, WFMin, Zenon
<1>3. \A y \in T : ~ (y < x)
  BY <1>2
<1> QED BY <1>3

\* Every address of a message occurs among the first occurrences.
LEMMA FirstsReachAll ==
  ASSUME NEW m \in Msg, NEW k \in DOMAIN Urls[m]
  PROVE  \E i \in Firsts(m) : Urls[m][i] = Urls[m][k]
<1>1. DOMAIN Urls[m] = 1 .. Len(Urls[m]) /\ Len(Urls[m]) \in Nat
  BY MessageAssumption
<1> DEFINE Same == {i \in DOMAIN Urls[m] : Urls[m][i] = Urls[m][k]}
<1>2. PICK i \in Same : \A j \in Same : i <= j
  <2>1. Same \subseteq Nat /\ k \in Same
    BY <1>1
  <2> HIDE DEF Same
  <2> QED BY <2>1, LeastNatural
<1>3. \A j \in 1 .. i - 1 : Urls[m][j] # Urls[m][i]
  BY <1>1, <1>2
<1> QED
  BY <1>2, <1>3 DEF Firsts

\* Places and pictures carry no address.
LEMMA NoAddresses ==
  ASSUME NEW m \in Msg, Kind[m] \in {"location", "media"}
  PROVE  Firsts(m) = {} /\ DOMAIN Urls[m] = {}
<1>1. Urls[m] = <<>>
  BY MessageAssumption
<1>2. DOMAIN Urls[m] = {}
  BY <1>1
<1> QED BY <1>2 DEF Firsts

\* The file names are distinct, and belong to the directory.
LEMMA FileNamesDiffer ==
  /\ Media # Lbs /\ Media # Processed /\ Lbs # Processed
  /\ \A i \in Nat : Page(i) # Media /\ Page(i) # Lbs /\ Page(i) # Processed
  /\ \A i, j \in Nat : Page(i) = Page(j) => i = j
  BY DEF Media, Lbs, Processed, Page

LEMMA FileNamesKnown ==
  ASSUME NEW m \in Msg
  PROVE  /\ {Media, Lbs, Processed} \subseteq FileName
         /\ \A i \in DOMAIN Urls[m] : Page(i) \in FileName /\ i \in Nat
  <1>1. DOMAIN Urls[m] = 1 .. Len(Urls[m])
    BY MessageAssumption
  <1> QED BY <1>1 DEF FileName

-----------------------------------------------------------------------------
\* The answer to a token request carries naturals.
LEMMA IssuedTyped ==
  ASSUME TypeOK, IssueToken
  PROVE  expiresIn' \in Nat /\ held' \in Nat
<1>1. clock \in Nat /\ expiresIn' \in Nat
  BY TimeAssumption, BoundAssumption DEF TypeOK, IssueToken
<1> QED BY <1>1 DEF IssueToken

\* Every step keeps the types.
LEMMA TypeStep == TypeOK /\ [Next]_vars => TypeOK'
<1> SUFFICES ASSUME TypeOK, [Next]_vars PROVE TypeOK'
  OBVIOUS
<1> USE BoundAssumption, TimeAssumption, FileNamesKnown
    DEF TypeOK, tokenVars, fileVars, resultVars, BeginSave, PutTmp, Advance, SendMediaRequest,
        Steps, Version
<1>1. CASE Tick
  BY <1>1 DEF Tick
<1>2. CASE Fail \/ Crash
  BY <1>2 DEF Fail, Crash
<1>3. ASSUME NEW m \in Msg, Begin(m) PROVE TypeOK'
  BY <1>3 DEF Begin, FirstStep
<1>4. CASE CreateTmp
  BY <1>4 DEF CreateTmp
<1>13. CASE WriteTmp
  BY <1>13 DEF WriteTmp
<1>5. CASE RenameTmp
  BY <1>5 DEF RenameTmp, AfterSave
<1>6. ASSUME NEW i \in DOMAIN Urls[cur], ReadPage(i) PROVE TypeOK'
  BY <1>6 DEF ReadPage
<1>7. CASE PagesDone \/ Geocode \/ Describe \/ Render
  BY <1>7 DEF PagesDone, Geocode, Describe, Render
<1>8. CASE UseCachedToken \/ FetchToken \/ ServeMedia
  BY <1>8 DEF UseCachedToken, FetchToken, ServeMedia
<1>12. CASE IssueToken
  BY <1>12, IssuedTyped DEF IssueToken
<1>9. CASE ReceiveToken
  <2>1. Ttl(expiresIn) \in Nat
    BY DEF Ttl
  <2> QED BY <1>9, <2>1 DEF ReceiveToken
<1>10. CASE WriteLog \/ WriteSource \/ MarkSourceWritten \/ MarkDone
  BY <1>10 DEF WriteLog, WriteSource, MarkSourceWritten, MarkDone
<1>11. CASE UNCHANGED vars
  BY <1>11 DEF vars
<1> QED
  BY <1>1, <1>2, <1>3, <1>4, <1>5, <1>6, <1>7, <1>8, <1>9, <1>10, <1>11, <1>12, <1>13 DEF Next

LEMMA InitTyped == Init => TypeOK
<1> SUFFICES ASSUME Init PROVE TypeOK
  OBVIOUS
<1>1. Processed \in FileName /\ 0 \in Version /\ 0 \in 0 .. MaxClock
  BY BoundAssumption, FileNamesKnown DEF Init, Version
<1> QED
  BY <1>1 DEF Init, TypeOK, Steps

\* Steps, times, files and versions keep their types whatever fails or dies.
THEOREM TypeCorrect == Spec => []TypeOK
  BY InitTyped, TypeStep, PTL DEF Spec

-----------------------------------------------------------------------------
\* The margin is kept by the steps that handle tokens, and by time.
LEMMA MarginStep == TypeOK /\ TokenMargin /\ [Next]_vars => TokenMargin'
<1> SUFFICES ASSUME TypeOK, TokenMargin, [Next]_vars PROVE TokenMargin'
  OBVIOUS
<1> USE TimeAssumption, BoundAssumption DEF TypeOK, TokenMargin, InTime, SendMediaRequest
<1>1. CASE Tick
  BY <1>1 DEF Tick, tokenVars
<1>2. CASE UseCachedToken
  BY <1>2 DEF UseCachedToken
<1>3. CASE FetchToken
  BY <1>3 DEF FetchToken
<1>4. CASE IssueToken
  BY <1>4 DEF IssueToken
<1>5. CASE ReceiveToken
  BY <1>5 DEF ReceiveToken, Ttl
<1>6. CASE Crash
  BY <1>6 DEF Crash
<1>7. CASE UNCHANGED <<tokenVars, clock>> /\ pc' \notin {"tokenIssued", "mediaSent"}
  BY <1>7 DEF tokenVars
<1>8. CASE UNCHANGED <<tokenVars, clock, pc>>
  BY <1>8 DEF tokenVars
<1>9. ASSUME NEW m \in Msg, Begin(m)
      PROVE  UNCHANGED <<tokenVars, clock>> /\ pc' \notin {"tokenIssued", "mediaSent"}
  BY <1>9 DEF Begin, FirstStep
<1>10. CASE Fail \/ CreateTmp \/ WriteTmp \/ RenameTmp \/ PagesDone \/ Geocode \/ ServeMedia
         \/ Describe \/ Render \/ WriteLog \/ WriteSource \/ MarkSourceWritten \/ MarkDone
  BY <1>7, <1>10
  DEF Fail, CreateTmp, WriteTmp, RenameTmp, AfterSave, PagesDone, Geocode, ServeMedia,
      Describe, Render, WriteLog, WriteSource, MarkSourceWritten, MarkDone, BeginSave, Advance
<1>11. ASSUME NEW i \in DOMAIN Urls[cur], ReadPage(i) PROVE TokenMargin'
  BY <1>7, <1>8, <1>11 DEF ReadPage, BeginSave
<1> QED
  BY <1>1, <1>2, <1>3, <1>4, <1>5, <1>6, <1>7, <1>8, <1>9, <1>10, <1>11 DEF Next, vars

\* A request for a file that has not timed out meets a valid token, for every
\* timeout, every margin of at least twice the timeout and every lifetime of
\* more than twice the timeout.
THEOREM TokensAreGood == Spec => []TokenGoodWhenUsed
<1>1. Init => TokenMargin
  BY DEF Init, TokenMargin
<1>2. TypeOK /\ TokenMargin => TokenGoodWhenUsed
  BY TimeAssumption DEF TypeOK, TokenMargin, TokenGoodWhenUsed, InTime, TokenIsGood
<1> QED
  BY <1>1, <1>2, MarginStep, TypeCorrect, PTL DEF Spec

-----------------------------------------------------------------------------
(* Files: which kind a step is of, and what it leaves behind. *)

\* Steps stay within the branch their message's kind chose.
LEMMA FitStep == TypeOK /\ StepsFitKind /\ [Next]_vars => StepsFitKind'
<1> SUFFICES ASSUME TypeOK, StepsFitKind, [Next]_vars PROVE StepsFitKind'
  OBVIOUS
<1> USE FileNamesDiffer DEF StepsFitKind, Saving, SavingOne, BeginSave, SendMediaRequest
<1>1. cur \in Msg /\ \A i \in DOMAIN Urls[cur] : i \in Nat
  BY FileNamesKnown DEF TypeOK
<1>2. ASSUME NEW m \in Msg, Begin(m) PROVE StepsFitKind'
  <2>1. Kind[m] \in {"text", "link", "location", "media"}
    BY MessageAssumption
  <2> QED BY <1>2, <2>1 DEF Begin, FirstStep
<1>3. ASSUME NEW i \in DOMAIN Urls[cur], ReadPage(i) PROVE StepsFitKind'
  BY <1>1, <1>3 DEF ReadPage
<1>4. CASE Geocode
  BY <1>1, <1>4 DEF Geocode
<1>5. CASE ServeMedia
  BY <1>1, <1>5 DEF ServeMedia
<1>6. CASE Render
  BY <1>1, <1>6 DEF Render
<1>7. CASE RenameTmp
  BY <1>7 DEF RenameTmp, AfterSave
<1>8. CASE CreateTmp \/ WriteTmp
  BY <1>8 DEF CreateTmp, WriteTmp
<1>9. CASE Fail \/ Crash \/ PagesDone \/ Describe
  BY <1>9 DEF Fail, Crash, PagesDone, Describe
<1>10. CASE UseCachedToken \/ FetchToken \/ IssueToken \/ ReceiveToken
  BY <1>10 DEF UseCachedToken, FetchToken, IssueToken, ReceiveToken
<1>11. CASE WriteLog \/ WriteSource \/ MarkSourceWritten \/ MarkDone
  BY <1>11 DEF WriteLog, WriteSource, MarkSourceWritten, MarkDone, Advance
<1>12. CASE Tick \/ UNCHANGED vars
  BY <1>12 DEF Tick, vars
<1> QED
  BY <1>2, <1>3, <1>4, <1>5, <1>6, <1>7, <1>8, <1>9, <1>10, <1>11, <1>12 DEF Next

\* A file is renamed only after it was written to the end, by this attempt.
LEMMA RenamedIsWhole ==
  ASSUME TypeOK, FilesBehind, RenameTmp
  PROVE  \A m \in Msg, n \in FileName :
           disk'[m][n] = IF m = cur /\ n = file THEN turn ELSE disk[m][n]
<1>1. tmp[cur][file] = turn
  BY DEF FilesBehind, RenameTmp
<1> QED
  BY <1>1 DEF RenameTmp, TypeOK

\* What the attempt has behind it stays on the disk.
LEMMA BehindStep ==
  TypeOK /\ StepsFitKind /\ FilesBehind /\ [Next]_vars => FilesBehind'
<1> SUFFICES ASSUME TypeOK, StepsFitKind, FilesBehind, [Next]_vars PROVE FilesBehind'
  OBVIOUS
<1> USE FileNamesDiffer DEF Saving, SavingOne, BeginSave, SendMediaRequest
<1>1. /\ cur \in Msg /\ file \in FileName /\ turn \in Nat
      /\ \A m \in Msg : log[m] \in Nat
      /\ \A i \in DOMAIN Urls[cur] : i \in Nat /\ Page(i) \in FileName
      /\ Firsts(cur) \subseteq DOMAIN Urls[cur]
      /\ Payloads(cur) \subseteq FileName
  BY FileNamesKnown, BoundAssumption DEF TypeOK, Version, Firsts, Payloads
<1>2. ASSUME NEW m \in Msg, Begin(m) PROVE FilesBehind'
  <2>1. FirstStep(m) = "render" => Kind[m] = "text" /\ Firsts(m) = {}
    BY DEF FirstStep
  <2>2. FirstStep(m) \notin {"rename", "describe", "log", "source", "mark", "create", "write"}
    BY DEF FirstStep
  <2>3. FirstStep(m) = "render" => Gathered'
    BY <1>2, <2>1 DEF Begin, Gathered, Payloads
  <2> QED BY <1>1, <1>2, <2>2, <2>3 DEF Begin, FilesBehind, resultVars
<1>3. ASSUME NEW i \in DOMAIN Urls[cur], ReadPage(i) PROVE FilesBehind'
  BY <1>1, <1>3 DEF ReadPage, FilesBehind, fileVars, resultVars, StepsFitKind
<1>4. CASE PagesDone
  <2>1. Gathered
    BY <1>1, <1>4 DEF PagesDone, FilesBehind, StepsFitKind, Gathered, Payloads
  <2> QED BY <1>4, <2>1 DEF PagesDone, FilesBehind, Gathered, fileVars, resultVars
<1>5. CASE RenameTmp
  <2>1. CASE file = Media
    <3>1. AfterSave = "describe" /\ Kind[cur] = "media"
      BY <1>5, <2>1 DEF AfterSave, RenameTmp, StepsFitKind
    <3> QED
      BY <1>1, <1>5, <2>1, <3>1, RenamedIsWhole
      DEF RenameTmp, FilesBehind, resultVars, TypeOK
  <2>2. CASE file = Lbs
    <3>1. AfterSave = "render" /\ Kind[cur] = "location"
      BY <1>5, <2>2 DEF AfterSave, RenameTmp, StepsFitKind
    <3>2. Firsts(cur) = {}
      BY <1>1, <3>1, NoAddresses
    <3>3. Gathered'
      BY <1>1, <1>5, <2>2, <3>1, <3>2, RenamedIsWhole DEF RenameTmp, Gathered, Payloads, resultVars
    <3> QED
      BY <1>1, <1>5, <2>2, <3>1, <3>3, RenamedIsWhole DEF RenameTmp, FilesBehind, resultVars
  <2>3. CASE file = Processed
    <3>1. AfterSave = "log"
      BY <2>3 DEF AfterSave
    <3>2. Gathered'
      <4>1. \A n \in Payloads(cur) : n # Processed
        BY <1>1 DEF Payloads
      <4> QED BY <1>1, <1>5, <2>3, <4>1, RenamedIsWhole DEF RenameTmp, FilesBehind, Gathered
    <3> QED
      BY <1>1, <1>5, <2>3, <3>1, <3>2, RenamedIsWhole
      DEF RenameTmp, FilesBehind, resultVars, TypeOK
  <2>4. CASE file \notin {Media, Lbs, Processed}
    <3>1. AfterSave = "links"
      BY <2>4 DEF AfterSave
    <3> QED
      BY <1>1, <1>5, <2>4, <3>1, RenamedIsWhole
      DEF RenameTmp, FilesBehind, resultVars, TypeOK
  <2> QED BY <2>1, <2>2, <2>3, <2>4
<1>6. CASE Describe
  <2>1. Kind[cur] = "media" /\ Firsts(cur) = {}
    BY <1>1, <1>6, NoAddresses DEF Describe, StepsFitKind
  <2>2. Gathered
    BY <1>6, <2>1 DEF Describe, FilesBehind, Gathered, Payloads
  <2> QED BY <1>6, <2>2 DEF Describe, FilesBehind, Gathered, fileVars, resultVars
<1>7. CASE CreateTmp \/ Render
  BY <1>7 DEF CreateTmp, Render, FilesBehind, Gathered, PutTmp, fileVars, resultVars, TypeOK
<1>8. CASE WriteTmp
  BY <1>1, <1>8 DEF WriteTmp, FilesBehind, Gathered, PutTmp, resultVars, TypeOK
<1>9. CASE Geocode \/ ServeMedia
  BY <1>1, <1>9 DEF Geocode, ServeMedia, FilesBehind, Gathered, fileVars, resultVars
<1>10. CASE Fail \/ Crash
  BY <1>10 DEF Fail, Crash, FilesBehind, Gathered, fileVars, resultVars
<1>11. CASE UseCachedToken \/ FetchToken \/ IssueToken \/ ReceiveToken
  BY <1>11 DEF UseCachedToken, FetchToken, IssueToken, ReceiveToken, FilesBehind, Gathered,
               fileVars, resultVars
<1>12. CASE WriteLog
  BY <1>1, <1>12 DEF WriteLog, Advance, FilesBehind, Gathered, fileVars, TypeOK
<1>13. CASE WriteSource
  BY <1>1, <1>13 DEF WriteSource, Advance, FilesBehind, Gathered, fileVars, TypeOK
<1>14. CASE MarkSourceWritten \/ MarkDone
  BY <1>14 DEF MarkSourceWritten, MarkDone, Advance, FilesBehind, Gathered, fileVars
<1>15. CASE Tick \/ UNCHANGED vars
  BY <1>15 DEF Tick, vars, FilesBehind, Gathered, fileVars, resultVars
<1> QED
  BY <1>2, <1>3, <1>4, <1>5, <1>6, <1>7, <1>8, <1>9, <1>10, <1>11, <1>12, <1>13, <1>14, <1>15
  DEF Next

\* Later results never overtake earlier ones.
LEMMA TrailStep ==
  TypeOK /\ FilesBehind /\ TrailInOrder /\ [Next]_vars => TrailInOrder'
<1> SUFFICES ASSUME TypeOK, FilesBehind, TrailInOrder, [Next]_vars PROVE TrailInOrder'
  OBVIOUS
<1>1. /\ cur \in Msg /\ file \in FileName /\ turn \in Nat /\ Processed \in FileName
      /\ \A m \in Msg : log[m] \in Nat /\ source[m] \in Nat /\ body[m] \in Nat
      /\ \A m \in Msg : log[m] <= turn
  BY FileNamesKnown, BoundAssumption DEF TypeOK, Version, FilesBehind
<1>2. CASE RenameTmp
  BY <1>1, <1>2, RenamedIsWhole DEF RenameTmp, resultVars, TrailInOrder
<1>3. CASE WriteLog
  BY <1>1, <1>3 DEF WriteLog, Advance, fileVars, TrailInOrder, FilesBehind, TypeOK
<1>4. CASE WriteSource
  BY <1>1, <1>4 DEF WriteSource, Advance, fileVars, TrailInOrder, FilesBehind, TypeOK
<1>5. CASE MarkSourceWritten
  BY <1>1, <1>5 DEF MarkSourceWritten, Advance, fileVars, TrailInOrder, FilesBehind, TypeOK
<1>6. CASE UNCHANGED <<disk, log, source, body>>
  BY <1>6 DEF TrailInOrder
<1> QED
  BY <1>2, <1>3, <1>4, <1>5, <1>6
  DEF Next, vars, fileVars, resultVars, Tick, Fail, Crash, Begin, CreateTmp, WriteTmp, ReadPage,
      PagesDone, Geocode, UseCachedToken, FetchToken, IssueToken, ReceiveToken, ServeMedia,
      Describe, Render, MarkDone

\* What was published complete stays so, and only what is complete is published.
LEMMA CompleteStep ==
  TypeOK /\ FilesBehind /\ PublishedComplete /\ [Next]_vars => PublishedComplete'
<1> SUFFICES ASSUME TypeOK, FilesBehind, PublishedComplete, [Next]_vars
    PROVE PublishedComplete'
  OBVIOUS
<1>1. /\ cur \in Msg /\ file \in FileName /\ turn \in Nat
      /\ \A m \in Msg : log[m] \in Nat /\ log[m] <= turn /\ Payloads(m) \subseteq FileName
  BY BoundAssumption DEF TypeOK, Version, FilesBehind, Payloads
<1>2. CASE RenameTmp
  BY <1>1, <1>2, RenamedIsWhole DEF RenameTmp, resultVars, PublishedComplete
<1>3. CASE WriteLog
  <2>1. log' = [log EXCEPT ![cur] = turn] /\ disk' = disk /\ Gathered
    BY <1>3 DEF WriteLog, Advance, fileVars, FilesBehind
  <2>2. \A k \in DOMAIN Urls[cur] : Urls[cur][k] \in PublicUrl
    BY <1>1, <2>1, FirstsReachAll DEF Gathered
  <2> QED
    BY <1>1, <2>1, <2>2 DEF PublishedComplete, Gathered, TypeOK
<1>4. CASE UNCHANGED <<disk, log>>
  BY <1>4 DEF PublishedComplete
<1> QED
  BY <1>2, <1>3, <1>4
  DEF Next, vars, fileVars, resultVars, Tick, Fail, Crash, Begin, CreateTmp, WriteTmp, ReadPage,
      PagesDone, Geocode, UseCachedToken, FetchToken, IssueToken, ReceiveToken, ServeMedia,
      Describe, Render, WriteSource, MarkSourceWritten, MarkDone

-----------------------------------------------------------------------------
\* The inductive invariant holds for every instance.
THEOREM PipelineInvariant == Spec => []PipelineInv
<1>1. Init => PipelineInv
  <2>1. Init => TypeOK
    BY InitTyped
  <2>2. Init => TokenMargin
    BY DEF Init, TokenMargin
  <2>3. Init => StepsFitKind /\ FilesBehind
    BY DEF Init, StepsFitKind, FilesBehind, Saving, SavingOne
  <2>4. Init => TrailInOrder /\ PublishedComplete
    BY FileNamesKnown DEF Init, TrailInOrder, PublishedComplete
  <2> QED BY <2>1, <2>2, <2>3, <2>4 DEF PipelineInv
<1>2. PipelineInv /\ [Next]_vars => PipelineInv'
  BY TypeStep, MarginStep, FitStep, BehindStep, TrailStep, CompleteStep DEF PipelineInv
<1> QED
  BY <1>1, <1>2, PTL DEF Spec

\* The four places a result goes to are never out of order.
THEOREM TrailsAreInOrder == Spec => []TrailInOrder
<1>1. PipelineInv => TrailInOrder
  BY DEF PipelineInv
<1> QED BY <1>1, PipelineInvariant, PTL

\* No item is published without the files it names, or with an address unread.
THEOREM ItemsAreComplete == Spec => []PublishedComplete
<1>1. PipelineInv => PublishedComplete
  BY DEF PipelineInv
<1> QED BY <1>1, PipelineInvariant, PTL
=============================================================================
