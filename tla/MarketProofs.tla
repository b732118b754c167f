----------------------------- MODULE MarketProofs ------------------------------
(***************************************************************************)
(* Theorems about MarketPublication: for any number of runs, builds and    *)
(* platforms, what is submitted is one build, what is reported as a        *)
(* success is there, and what is refused is another build.                 *)
(***************************************************************************)
EXTENDS MarketPublication, FiniteSetTheorems, TLAPS

\* Where a run has read what is frozen, has found it to be a version of its
\* build, and has found every artifact of it to be its own.
AfterRead    == {"verify", "compare", "receipt", "submit", "poll", "market",
                 "PENDING_REVIEW", "PUBLISHED", "mismatch"}
AfterMatch   == {"compare", "receipt", "submit", "poll", "market", "PENDING_REVIEW", "PUBLISHED"}
AfterCompare == AfterMatch \ {"compare"}

\* What a run knows of the frozen content.
RunInv ==
  /\ seen # None => frozen = seen
  /\ pc \in AfterRead => seen # None
  /\ pc \in AfterMatch => VersionMatches
  /\ pc \notin AfterMatch \cup {"mismatch", "failed"} => compared = {}
  /\ pc = "compare" => \A p \in compared : StoredArtifactMatches(p)
  /\ pc \in AfterCompare => seen = ContentOf(build)
  /\ pc = "mismatch" => seen # ContentOf(build)
  /\ pc \in {"market", "PENDING_REVIEW", "PUBLISHED"} => receipt # None
  /\ underway => submitted # {}
  /\ pc = "PUBLISHED" => listing = frozen
  /\ pc # "failed" => polls < Polls

\* Artifacts are uploaded one by one.
FiniteInv ==
  /\ IsFiniteSet(uploaded)
  /\ frozen # None => IsFiniteSet(frozen.artifacts)
  /\ \A c \in late : IsFiniteSet(c.artifacts)

MarketInv == TypeOK /\ RunInv /\ FiniteInv /\ SubmittedIsOneBuild

-----------------------------------------------------------------------------
\* The content of a build is a content, and passes the checks of that build.
LEMMA ContentOfBuild ==
  ASSUME NEW b \in Builds
  PROVE  /\ ContentOf(b) \in Contents /\ ContentOf(b).manifest = b
         /\ \A p \in Platforms : Stored(ContentOf(b), p) = {[platform |-> p, bytes |-> b]}
         /\ Cardinality(ContentOf(b).artifacts) = Cardinality(Platforms)
<1>1. Artifacts(b) \subseteq Rows  BY DEF Artifacts, Rows
<1>2. ContentOf(b).manifest = b /\ ContentOf(b).artifacts = Artifacts(b)  BY DEF ContentOf
<1>3. ContentOf(b) \in Contents  BY <1>1 DEF ContentOf, Contents
<1>4. ASSUME NEW p \in Platforms  PROVE Stored(ContentOf(b), p) = {[platform |-> p, bytes |-> b]}
      BY <1>2 DEF Stored, Artifacts
<1>5. Cardinality(Artifacts(b)) = Cardinality(Platforms)
  <2> DEFINE f == [p \in Platforms |-> [platform |-> p, bytes |-> b]]
  <2>3. f \in [Platforms -> Artifacts(b)]  BY DEF Artifacts
  <2>4. ASSUME NEW p \in Platforms  PROVE f[p].platform = p  OBVIOUS
  <2>5. \A p, q \in Platforms : f[p] = f[q] => p = q  BY <2>4
  <2>6. \A r \in Artifacts(b) : \E p \in Platforms : f[p] = r  BY DEF Artifacts
  <2> HIDE DEF f
  <2>1. f \in Bijection(Platforms, Artifacts(b))
        BY <2>3, <2>5, <2>6 DEF Bijection, Injection, IsInjective, Surjection
  <2>2. ExistsBijection(Platforms, Artifacts(b))  BY <2>1 DEF ExistsBijection
  <2> QED BY <2>2, FS_Bijection, PublicationAssumption
<1> QED BY <1>2, <1>3, <1>4, <1>5

\* A content that passes the checks of a build, each artifact included, is that
\* build's.
LEMMA CheckedIsOneBuild ==
  ASSUME NEW c \in Contents, NEW b \in Builds, IsFiniteSet(c.artifacts), c.manifest = b,
         \A p \in Platforms : Cardinality(Stored(c, p)) = 1,
         \A p \in Platforms : \A r \in Stored(c, p) : r.bytes = b
  PROVE  c = ContentOf(b)
<1>1. c.artifacts \subseteq Rows  BY DEF Contents
<1>2. ASSUME NEW r \in c.artifacts  PROVE r \in Artifacts(b)
  <2>1. r \in Rows /\ r.platform \in Platforms  BY <1>1 DEF Rows
  <2>2. r \in Stored(c, r.platform)  BY DEF Stored
  <2>3. r.bytes = b  BY <2>1, <2>2
  <2>4. r = [platform |-> r.platform, bytes |-> b]  BY <2>1, <2>3 DEF Rows
  <2> QED BY <2>1, <2>4 DEF Artifacts
<1>3. ASSUME NEW p \in Platforms  PROVE [platform |-> p, bytes |-> b] \in c.artifacts
  <2>1. IsFiniteSet(Stored(c, p))  BY FS_Subset DEF Stored
  <2>2. PICK r : Stored(c, p) = {r}  BY <2>1, FS_Singleton
  <2>3. r \in c.artifacts /\ r.platform = p /\ r.bytes = b  BY <2>2 DEF Stored
  <2>4. r = [platform |-> p, bytes |-> b]  BY <1>1, <2>3 DEF Rows
  <2> QED BY <2>3, <2>4
<1>4. c.artifacts = Artifacts(b)  BY <1>2, <1>3 DEF Artifacts
<1> QED BY <1>4 DEF Contents, ContentOf

-----------------------------------------------------------------------------
\* The owners keep what is frozen, and receive nothing that was not submitted.
LEMMA OwnerKeepsInv ==
  ASSUME MarketInv, OwnerStep
  PROVE  MarketInv'
<1>1. /\ UNCHANGED <<app, submitted, attempts, pc, build, originals, uploaded, seen, compared, polls>>
      /\ frozen # None => frozen' = frozen
      /\ frozen' \in late \cup {frozen} /\ late' \subseteq late
      /\ receipt # None => receipt' # None
      /\ listing' = listing \/ (receipt = "PUBLISHED" /\ listing' = frozen)
      /\ receipt' \in Reviewed \cup {receipt, "RECEIVING"}
      BY NoneAssumption DEF OwnerStep, List, Review, LateFreeze, LateSubmission, ReceiveVersion, runVars, Reviewed
<1>7. /\ underway' \in BOOLEAN /\ (underway' => underway) /\ (receipt' # None => receipt # None \/ underway)
  <2>1. CASE List  BY <2>1 DEF List, MarketInv, TypeOK
  <2>2. ASSUME NEW state \in Reviewed, Review(state)  PROVE UNCHANGED underway /\ receipt # None
        BY <2>2, NoneAssumption DEF Review, Reviewed
  <2>3. CASE \E c \in late : LateFreeze(c)  BY <2>3 DEF LateFreeze, MarketInv, TypeOK
  <2>4. CASE LateSubmission  BY <2>4 DEF LateSubmission
  <2> QED BY <2>1, <2>2, <2>3, <2>4 DEF OwnerStep, MarketInv, TypeOK
<1> USE DEF MarketInv
<1>2. TypeOK'  BY <1>1, <1>7 DEF TypeOK
<1>3. VersionMatches' = VersionMatches /\ \A p : StoredArtifactMatches(p)' = StoredArtifactMatches(p)
      BY <1>1 DEF VersionMatches, StoredArtifactMatches
<1>4. FiniteInv'  BY <1>1 DEF FiniteInv
<1>5. SubmittedIsOneBuild'
  <2>1. ASSUME NEW b \in submitted  PROVE frozen' = ContentOf(b)
    <3>1. b \in Builds /\ frozen = ContentOf(b)  BY DEF SubmittedIsOneBuild, TypeOK
    <3> QED BY <1>1, <3>1, ContentOfBuild, NoneAssumption
  <2>2. receipt' # None => submitted # {}  BY <1>7 DEF SubmittedIsOneBuild, RunInv
  <2> QED BY <1>1, <2>1, <2>2 DEF SubmittedIsOneBuild
<1>6. RunInv'
  <2>1. pc = "PUBLISHED" => frozen # None
        BY DEF RunInv, AfterRead
  <2> QED BY <1>1, <1>3, <1>7, <2>1 DEF RunInv, AfterRead, AfterMatch, AfterCompare
<1> QED BY <1>2, <1>4, <1>5, <1>6

\* The start and the stop of a run.
LEMMA StartStopKeepInv ==
  ASSUME MarketInv, Stop \/ \E b \in Builds : Start(b)
  PROVE  MarketInv'
<1> USE DEF MarketInv
<1>1. /\ UNCHANGED ownerVars /\ pc' \in {"failed", "application"} /\ attempts' \in 0..MaxAttempts
      /\ build' \in Builds
      /\ \/ UNCHANGED <<originals, uploaded, seen, compared, polls>>
         \/ originals' = {} /\ uploaded' = {} /\ seen' = None /\ compared' = {} /\ polls' = 0
      /\ pc' # "failed" => polls' = 0 /\ compared' = {}
      BY PublicationAssumption DEF Stop, Start, TypeOK, runVars
<1>2. TypeOK'  BY <1>1, PublicationAssumption DEF TypeOK, ownerVars
<1>3. RunInv'  BY <1>1, PublicationAssumption DEF RunInv, AfterRead, AfterMatch, AfterCompare, ownerVars
<1>4. FiniteInv'  BY <1>1, FS_EmptySet DEF FiniteInv, ownerVars
<1>5. SubmittedIsOneBuild'  BY <1>1 DEF SubmittedIsOneBuild, ownerVars
<1> QED BY <1>2, <1>3, <1>4, <1>5

\* A run up to the freeze of its version.
LEMMA FreezingKeepsInv ==
  ASSUME MarketInv,
         \/ GetApplication \/ CreateApplication \/ GetVersion \/ Freeze
         \/ \E p \in Platforms : FetchOriginal(p) \/ \E bytes \in {build, Corrupt} : Upload(p, bytes)
  PROVE  MarketInv'
<1> USE DEF MarketInv, ownerVars, runVars
<1>1. CASE GetApplication \/ CreateApplication \/ \E p \in Platforms : FetchOriginal(p)
  <2>1. /\ UNCHANGED <<frozen, late, underway, receipt, listing, submitted, attempts, build, uploaded, seen, compared,
                      polls>>
        /\ pc \in {"application", "create", "originals"} /\ app' \in BOOLEAN /\ originals' \subseteq Platforms
        /\ pc' \in {"originals", "create", "failed", "version"}
        BY <1>1 DEF GetApplication, CreateApplication, FetchOriginal, After, TypeOK
  <2>2. TypeOK'  BY <2>1 DEF TypeOK
  <2>3. RunInv'  BY <2>1 DEF RunInv, AfterRead, AfterMatch, AfterCompare
  <2> QED BY <2>1, <2>2, <2>3 DEF FiniteInv, SubmittedIsOneBuild
<1>2. CASE GetVersion
  <2>1. /\ UNCHANGED <<ownerVars, attempts, build, originals, uploaded, compared, polls>>
        /\ pc = "version" /\ pc' \in {"upload", "verify"} /\ seen' = frozen
        /\ frozen = None => pc' = "upload"
        BY <1>2 DEF GetVersion
  <2>2. TypeOK'  BY <2>1 DEF TypeOK
  <2>3. RunInv'  BY <2>1 DEF RunInv, AfterRead, AfterMatch, AfterCompare
  <2> QED BY <2>1, <2>2, <2>3 DEF FiniteInv, SubmittedIsOneBuild
<1>3. ASSUME NEW p \in Platforms, NEW bytes \in {build, Corrupt}, Upload(p, bytes)  PROVE MarketInv'
  <2>1. /\ UNCHANGED <<ownerVars, attempts, build, originals, seen, compared, polls>>
        /\ pc = "upload" /\ pc' \in {"upload", "freeze"}
        /\ uploaded' = uploaded \cup {[platform |-> p, bytes |-> bytes]}
        BY <1>3 DEF Upload
  <2>2. [platform |-> p, bytes |-> bytes] \in Rows  BY DEF Rows, TypeOK
  <2>3. TypeOK'  BY <2>1, <2>2 DEF TypeOK
  <2>4. RunInv'  BY <2>1 DEF RunInv, AfterRead, AfterMatch, AfterCompare
  <2>5. FiniteInv'  BY <2>1, FS_AddElement DEF FiniteInv
  <2> QED BY <2>1, <2>3, <2>4, <2>5 DEF SubmittedIsOneBuild
<1>4. CASE Freeze
  <2> DEFINE content == [manifest |-> build, artifacts |-> uploaded]
  <2>1. /\ pc = "freeze" /\ pc' \in {"version", "failed"}
        /\ UNCHANGED <<app, underway, receipt, listing, submitted, attempts, build, originals, uploaded, seen,
                      compared, polls>>
        /\ \/ frozen' = (IF frozen = None THEN content ELSE frozen) /\ late' = late
           \/ frozen' = frozen /\ late' = late \cup {content}
        BY <1>4 DEF Freeze, After
  <2>2. content \in Contents /\ content.artifacts = uploaded  BY DEF Contents, TypeOK
  <2> HIDE DEF content
  <2>3. TypeOK'  BY <2>1, <2>2 DEF TypeOK
  <2>4. RunInv'  BY <2>1 DEF RunInv, AfterRead, AfterMatch, AfterCompare
  <2>5. FiniteInv'  BY <2>1, <2>2 DEF FiniteInv
  <2>6. frozen # None => frozen' = frozen  BY <2>1
  <2>7. SubmittedIsOneBuild'
    <3>1. ASSUME NEW b \in submitted  PROVE frozen' = ContentOf(b)
      <4>1. b \in Builds /\ frozen = ContentOf(b)  BY DEF SubmittedIsOneBuild, TypeOK
      <4> QED BY <2>6, <4>1, ContentOfBuild, NoneAssumption
    <3> QED BY <2>1, <3>1 DEF SubmittedIsOneBuild
  <2> QED BY <2>3, <2>4, <2>5, <2>7
<1> QED BY <1>1, <1>2, <1>3, <1>4

\* A run that compares what is frozen with its build.
LEMMA VerifyingKeepsInv ==
  ASSUME MarketInv, VerifyFrozen \/ \E p \in Platforms : CompareStored(p)
  PROVE  MarketInv'
<1> USE DEF MarketInv, ownerVars, runVars
<1>1. UNCHANGED <<app, frozen, late, underway, receipt, listing, submitted, attempts, build, originals, uploaded, seen,
                  polls>>
      BY DEF VerifyFrozen, CompareStored
<1>2. FiniteInv' /\ SubmittedIsOneBuild' /\ seen \in Contents /\ frozen = seen /\ build \in Builds
      /\ polls < Polls
      BY <1>1 DEF FiniteInv, SubmittedIsOneBuild, VerifyFrozen, CompareStored, RunInv, AfterRead, TypeOK
<1>3. VersionMatches' = VersionMatches /\ \A p : StoredArtifactMatches(p)' = StoredArtifactMatches(p)
      BY <1>1 DEF VersionMatches, StoredArtifactMatches
<1>4. CASE VerifyFrozen
  <2>1. pc' = (IF VersionMatches THEN "compare" ELSE "mismatch") /\ compared' = compared
        BY <1>4 DEF VerifyFrozen
  <2>2. compared = {}
    <3>1. pc = "verify"  BY <1>4 DEF VerifyFrozen
    <3> QED BY <3>1 DEF RunInv, AfterMatch
  <2>3. ~VersionMatches => seen # ContentOf(build)
    <3> SUFFICES ASSUME seen = ContentOf(build) PROVE VersionMatches  OBVIOUS
    <3>1. seen.manifest = build /\ Cardinality(seen.artifacts) = Cardinality(Platforms)
          BY <1>2, ContentOfBuild
    <3>2. ASSUME NEW p \in Platforms  PROVE Cardinality(Stored(seen, p)) = 1
      <4>1. Stored(seen, p) = {[platform |-> p, bytes |-> build]}  BY <1>2, ContentOfBuild
      <4> QED BY <4>1, FS_Singleton
    <3> QED BY <3>1, <3>2 DEF VersionMatches
  <2>4. TypeOK'  BY <1>1, <2>1 DEF TypeOK
  <2>5. RunInv'  BY <1>1, <1>2, <1>3, <2>1, <2>2, <2>3, NoneAssumption
        DEF RunInv, AfterRead, AfterMatch, AfterCompare
  <2> QED BY <1>2, <2>4, <2>5
<1>5. ASSUME NEW p \in Platforms, CompareStored(p)  PROVE MarketInv'
  <2>1. /\ pc = "compare" /\ compared' = compared \cup {p}
        /\ pc' = IF ~StoredArtifactMatches(p) THEN "mismatch"
                 ELSE IF compared' = Platforms THEN "receipt" ELSE pc
        BY <1>5 DEF CompareStored
  <2>2. VersionMatches /\ \A q \in compared : StoredArtifactMatches(q)
        BY <2>1 DEF RunInv, AfterMatch
  <2>3. ~StoredArtifactMatches(p) => seen # ContentOf(build)
    <3>1. seen = ContentOf(build) => Stored(seen, p) = {[platform |-> p, bytes |-> build]}
          BY <1>2, ContentOfBuild
    <3> QED BY <3>1 DEF StoredArtifactMatches
  <2>4. pc' = "receipt" => seen = ContentOf(build)
    <3> SUFFICES ASSUME pc' = "receipt" PROVE seen = ContentOf(build)  OBVIOUS
    <3>1. \A q \in Platforms : StoredArtifactMatches(q)  BY <2>1, <2>2
    <3>2. IsFiniteSet(seen.artifacts)  BY <1>2, NoneAssumption DEF FiniteInv
    <3> QED BY <1>2, <2>2, <3>1, <3>2, CheckedIsOneBuild DEF VersionMatches, StoredArtifactMatches
  <2>5. TypeOK'  BY <1>1, <2>1 DEF TypeOK
  <2>6. RunInv'  BY <1>1, <1>2, <1>3, <2>1, <2>2, <2>3, <2>4, NoneAssumption
        DEF RunInv, AfterRead, AfterMatch, AfterCompare
  <2> QED BY <1>2, <2>5, <2>6
<1> QED BY <1>4, <1>5

\* A run that submits, and follows the publication.
LEMMA SubmittingKeepsInv ==
  ASSUME MarketInv, GetReceipt \/ Submit \/ Poll \/ VerifyMarket
  PROVE  MarketInv'
<1> USE DEF MarketInv, ownerVars, runVars
<1>1. /\ UNCHANGED <<app, frozen, late, listing, attempts, build, originals, uploaded, seen, compared>>
      /\ pc \in {"receipt", "submit", "poll", "market"}
      BY DEF GetReceipt, Submit, Poll, VerifyMarket
<1>2. FiniteInv'  BY <1>1 DEF FiniteInv
<1>3. /\ VersionMatches /\ seen = ContentOf(build) /\ frozen = seen /\ build \in Builds /\ seen # None
      /\ polls < Polls /\ polls \in Nat
      BY <1>1, PublicationAssumption DEF RunInv, AfterRead, AfterMatch, AfterCompare, TypeOK
<1>4. VersionMatches'  BY <1>1, <1>3 DEF VersionMatches
<1>9. /\ submitted' \in {submitted, submitted \cup {build}} /\ underway' \in BOOLEAN
      /\ UNCHANGED <<underway, receipt>> \/ submitted' = submitted \cup {build}
  <2>1. CASE GetReceipt \/ Poll \/ VerifyMarket  BY <2>1 DEF GetReceipt, Poll, VerifyMarket, TypeOK
  <2>2. CASE Submit  BY <2>2 DEF Submit, TypeOK
  <2> QED BY <2>1, <2>2
<1>5. SubmittedIsOneBuild'  BY <1>1, <1>3, <1>9 DEF SubmittedIsOneBuild
<1>6. /\ pc' \in {"submit", "poll", "market", "failed", "PENDING_REVIEW", "PUBLISHED"}
      /\ receipt' \in {receipt, "RECEIVING"} /\ (receipt # None => receipt' # None)
      /\ polls' \in 0..Polls /\ (pc' # "failed" => polls' < Polls)
      /\ pc' \in {"market", "PENDING_REVIEW", "PUBLISHED"} => receipt' # None
      /\ pc' = "PUBLISHED" => listing = seen
  <2>1. CASE GetReceipt  BY <1>3, <2>1, PublicationAssumption DEF GetReceipt
  <2>2. CASE Submit  BY <1>3, <2>2, NoneAssumption, PublicationAssumption DEF Submit, ReceiveVersion, After
  <2>3. CASE Poll
        BY <1>3, <2>3, NoneAssumption, PublicationAssumption DEF Poll, Counted, PollsLeft, Reviewed
  <2>4. CASE VerifyMarket
        BY <1>3, <2>4, PublicationAssumption DEF VerifyMarket, ListingMatches, RunInv
  <2> QED BY <2>1, <2>2, <2>3, <2>4
<1>7. TypeOK'  BY <1>1, <1>3, <1>6, <1>9 DEF TypeOK
<1>8. RunInv'  BY <1>1, <1>3, <1>4, <1>6, <1>9 DEF RunInv, AfterRead, AfterMatch, AfterCompare
<1> QED BY <1>2, <1>5, <1>7, <1>8

\* What every run of the script knows of the frozen content.
THEOREM MarketInvariant == Spec => []MarketInv
<1>1. Init => MarketInv
  <2> SUFFICES ASSUME Init PROVE MarketInv  OBVIOUS
  <2>1. TypeOK
    <3>1. app \in BOOLEAN /\ underway \in BOOLEAN  BY DEF Init
    <3>2. /\ frozen = None /\ late = {} /\ receipt = None /\ listing = None /\ submitted = {}
          /\ attempts = 0 /\ pc = "failed" /\ build \in Builds
          /\ originals = {} /\ uploaded = {} /\ seen = None /\ compared = {} /\ polls = 0
          BY DEF Init
    <3>3. attempts \in 0..MaxAttempts /\ polls \in 0..Polls  BY <3>2, PublicationAssumption
    <3> QED BY <3>1, <3>2, <3>3 DEF TypeOK
  <2>2. RunInv
    <3>1. ~underway /\ seen = None /\ pc = "failed"  BY DEF Init
    <3> QED BY <3>1 DEF RunInv, AfterRead, AfterMatch, AfterCompare
  <2> QED BY <2>1, <2>2, FS_EmptySet DEF Init, MarketInv, FiniteInv, SubmittedIsOneBuild
<1>2. MarketInv /\ [Next]_vars => MarketInv'
  <2> SUFFICES ASSUME MarketInv, [Next]_vars PROVE MarketInv'  OBVIOUS
  <2>1. CASE UNCHANGED vars
    <3>1. UNCHANGED <<app, frozen, late, underway, receipt, listing, submitted, attempts, pc, build,
                      originals, uploaded, seen, compared, polls>>
          BY <2>1 DEF vars, ownerVars, runVars
    <3> QED BY <3>1 DEF MarketInv, TypeOK, RunInv, FiniteInv, SubmittedIsOneBuild, VersionMatches,
            StoredArtifactMatches
  <2>2. CASE OwnerStep  BY <2>2, OwnerKeepsInv
  <2>3. CASE Stop \/ \E b \in Builds : Start(b)  BY <2>3, StartStopKeepInv
  <2>4. CASE RunStep
        BY <2>4, FreezingKeepsInv, VerifyingKeepsInv, SubmittingKeepsInv DEF RunStep
  <2> QED BY <2>1, <2>2, <2>3, <2>4 DEF Next
<1> QED BY <1>1, <1>2, PTL DEF Spec

\* Every variable of the publication keeps its type.
THEOREM MarketTypeCorrect == Spec => []TypeOK
  BY MarketInvariant, PTL DEF MarketInv

\* What is submitted is one build, complete and undamaged, for any number of runs,
\* builds and platforms.
THEOREM SubmissionIsOneBuild == Spec => []SubmittedIsOneBuild
  BY MarketInvariant, PTL DEF MarketInv

\* A run that reports success has its own build submitted, and listed if it says
\* PUBLISHED.
THEOREM ReportedSuccessIsThere == Spec => []SuccessIsVerified
<1>1. MarketInv => SuccessIsVerified
      BY NoneAssumption DEF MarketInv, RunInv, AfterRead, AfterMatch, AfterCompare, SuccessIsVerified
<1> QED BY <1>1, MarketInvariant, PTL

\* A run refuses a frozen version only if it is not its own build.
THEOREM OwnBuildIsNotRefused == Spec => []RefusalsAreReal
<1>1. MarketInv => RefusalsAreReal
      BY DEF MarketInv, RunInv, AfterRead, RefusalsAreReal
<1> QED BY <1>1, MarketInvariant, PTL
=============================================================================
