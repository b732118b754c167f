-------------------------- MODULE MarketPublication ---------------------------
(***************************************************************************)
(* tools/release/publish-market.py: a version is frozen at the source      *)
(* owner, submitted to the market, and followed until its review.  A run   *)
(* of the script may stop anywhere, and runs of one version follow one     *)
(* another (the concurrency group of .github/workflows/release.yml).  A    *)
(* later run may come with artifacts that were built again.                *)
(*                                                                         *)
(* Abstracted: the bytes of an artifact are the build they belong to, or   *)
(* Corrupt; a build also stands for its connector manifest.  Whatever the  *)
(* script checks of an owner's answer apart from the content is an owner   *)
(* that refuses: a call that fails, with or without its effect.  The       *)
(* source owner freezes a version once and keeps what it has frozen: to    *)
(* freeze it again fails or changes nothing.  A submission that is made    *)
(* again may be received again.  A freeze or a submission whose caller was *)
(* interrupted may take effect later.                                      *)
(*                                                                         *)
(* `submitted` is a history variable: no step depends on it.               *)
(***************************************************************************)
EXTENDS Integers, FiniteSets

CONSTANTS
  Builds, Platforms,
  Corrupt, None,
  Polls,         \* times the receipt is asked for (20)
  MaxAttempts    \* bound: runs of the script

ASSUME PublicationAssumption ==
  /\ Corrupt \notin Builds /\ None \notin Builds \cup {Corrupt} /\ IsFiniteSet(Platforms)
  /\ Polls \in Nat \ {0} /\ MaxAttempts \in Nat

VARIABLES
  app,        \* the application is registered with the source owner
  frozen,     \* the version's frozen content, or None
  late,       \* contents whose freeze is still on its way
  underway,   \* a submission is still on its way
  receipt,    \* state of the publication, or None
  listing,    \* the content consumers of the market see, or None
  submitted,  \* history: the builds whose runs have submitted the version
  attempts,   \* number of runs started
  pc,         \* the next step of the run
  build,      \* the build it was given
  originals,  \* platforms whose public artifact it has downloaded
  uploaded,   \* platform and bytes of the artifacts it has uploaded
  seen,       \* the frozen content it read
  compared,   \* platforms whose stored artifact it has compared
  polls       \* times it was told RECEIVING

ownerVars == <<app, frozen, late, underway, receipt, listing, submitted>>
runVars   == <<build, originals, uploaded, seen, compared, polls>>
vars == <<ownerVars, attempts, pc, runVars>>

Rows     == [platform : Platforms, bytes : Builds \cup {Corrupt}]
Contents == [manifest : Builds, artifacts : SUBSET Rows]

Artifacts(b)   == {[platform |-> p, bytes |-> b] : p \in Platforms}
ContentOf(b)   == [manifest |-> b, artifacts |-> Artifacts(b)]
Stored(c, p)   == {r \in c.artifacts : r.platform = p}
Reviewed == {"PENDING_REVIEW", "PUBLISHED", "REJECTED"}

ASSUME NoneAssumption == None \notin Contents /\ None \notin Reviewed \cup {"RECEIVING"}

Init ==
  /\ app \in BOOLEAN /\ frozen = None /\ late = {} /\ receipt = None /\ listing = None
  /\ underway = FALSE /\ submitted = {}
  /\ attempts = 0 /\ pc = "failed" /\ build \in Builds
  /\ originals = {} /\ uploaded = {} /\ seen = None /\ compared = {} /\ polls = 0

Ended == pc \in {"failed", "mismatch", "PENDING_REVIEW", "PUBLISHED"}

-----------------------------------------------------------------------------
(* The source owner and the market.                                        *)

Review(state) ==
  /\ \/ receipt = "RECEIVING" /\ state \in Reviewed
     \/ receipt = "PENDING_REVIEW" /\ state \in {"PUBLISHED", "REJECTED"}
  /\ receipt' = state
  /\ UNCHANGED <<app, frozen, late, underway, listing, submitted, attempts, pc, runVars>>

LateFreeze(c) ==
  /\ c \in late
  /\ late' = late \ {c}
  /\ frozen' = IF frozen = None THEN c ELSE frozen
  /\ UNCHANGED <<app, underway, receipt, listing, submitted, attempts, pc, runVars>>

\* The market receives the version, at once or again, or keeps the receipt it has.
ReceiveVersion == receipt' = "RECEIVING" \/ (receipt # None /\ receipt' = receipt)

LateSubmission ==
  /\ underway /\ underway' = FALSE
  /\ ReceiveVersion
  /\ UNCHANGED <<app, frozen, late, listing, submitted, attempts, pc, runVars>>

List ==
  /\ receipt = "PUBLISHED" /\ listing' = frozen
  /\ UNCHANGED <<app, frozen, late, underway, receipt, submitted, attempts, pc, runVars>>

-----------------------------------------------------------------------------
(* A run.                                                                  *)

Start(b) ==
  /\ Ended /\ attempts < MaxAttempts
  /\ attempts' = attempts + 1
  /\ pc' = "application" /\ build' = b
  /\ originals' = {} /\ uploaded' = {} /\ seen' = None /\ compared' = {} /\ polls' = 0
  /\ UNCHANGED ownerVars

\* A call fails without effect, a check fails, or the run is interrupted.
Stop ==
  /\ ~Ended /\ pc' = "failed"
  /\ UNCHANGED <<ownerVars, attempts, runVars>>

\* A call with an effect at the owner may fail for the caller all the same.
After(step) == pc' \in {step, "failed"}

GetApplication ==
  /\ pc = "application"
  /\ pc' = IF app THEN "originals" ELSE "create"
  /\ UNCHANGED <<ownerVars, attempts, runVars>>

CreateApplication ==
  /\ pc = "create"
  /\ app' = TRUE /\ After("originals")
  /\ UNCHANGED <<frozen, late, underway, receipt, listing, submitted, attempts, runVars>>

\* The public artifact is downloaded, with the checksum of the release.
FetchOriginal(p) ==
  /\ pc = "originals" /\ p \notin originals
  /\ originals' = originals \cup {p}
  /\ pc' = IF originals' = Platforms THEN "version" ELSE pc
  /\ UNCHANGED <<ownerVars, attempts, build, uploaded, seen, compared, polls>>

GetVersion ==
  /\ pc = "version"
  /\ seen' = frozen
  /\ pc' = IF frozen = None THEN "upload" ELSE "verify"
  /\ UNCHANGED <<ownerVars, attempts, build, originals, uploaded, compared, polls>>

\* The artifact may be damaged on its way into the owner's store.
Upload(p, bytes) ==
  /\ pc = "upload" /\ \A r \in uploaded : r.platform # p
  /\ uploaded' = uploaded \cup {[platform |-> p, bytes |-> bytes]}
  /\ pc' = IF Cardinality(uploaded') = Cardinality(Platforms) THEN "freeze" ELSE pc
  /\ UNCHANGED <<ownerVars, attempts, build, originals, seen, compared, polls>>

Freeze ==
  LET content == [manifest |-> build, artifacts |-> uploaded] IN
  /\ pc = "freeze"
  /\ \/ /\ frozen' = IF frozen = None THEN content ELSE frozen
        /\ late' = late /\ After("version")
     \/ /\ frozen' = frozen /\ late' = late \cup {content} /\ pc' = "failed"
  /\ UNCHANGED <<app, underway, receipt, listing, submitted, attempts, runVars>>

\* Fault: the artifacts are compared with those this run has uploaded.
VersionMatchesUploads ==
  seen.manifest = build /\ seen.artifacts = uploaded

VersionMatches ==
  /\ seen.manifest = build
  /\ \A p \in Platforms : Cardinality(Stored(seen, p)) = 1
  /\ Cardinality(seen.artifacts) = Cardinality(Platforms)

VerifyFrozen ==
  /\ pc = "verify"
  /\ pc' = IF VersionMatches THEN "compare" ELSE "mismatch"
  /\ UNCHANGED <<ownerVars, attempts, runVars>>

\* Fault: the stored artifact is not compared with the original.
StoredArtifactUnchecked(p) == TRUE

StoredArtifactMatches(p) == \A r \in Stored(seen, p) : r.bytes = build

CompareStored(p) ==
  /\ pc = "compare" /\ p \notin compared
  /\ compared' = compared \cup {p}
  /\ pc' = IF ~StoredArtifactMatches(p) THEN "mismatch"
           ELSE IF compared' = Platforms THEN "receipt" ELSE pc
  /\ UNCHANGED <<ownerVars, attempts, build, originals, uploaded, seen, polls>>

GetReceipt ==
  /\ pc = "receipt"
  /\ pc' = IF receipt \in {None, "RECEIVING"} THEN "submit" ELSE "poll"
  /\ UNCHANGED <<ownerVars, attempts, runVars>>

\* Also for a version that is being received, or was reviewed since its receipt
\* was read.
Submit ==
  /\ pc = "submit"
  /\ submitted' = submitted \cup {build}
  /\ \/ ReceiveVersion /\ underway' = underway /\ After("poll")
     \/ receipt' = receipt /\ underway' = TRUE /\ pc' = "failed"
  /\ UNCHANGED <<app, frozen, late, listing, attempts, runVars>>

\* Fault: the requests for the receipt are not counted.
CountedNever == polls

Counted == polls + 1

PollsLeft == Counted < Polls

Poll ==
  /\ pc = "poll"
  /\ IF receipt = "RECEIVING"
     THEN polls' = Counted /\ pc' = IF PollsLeft THEN "poll" ELSE "failed"
     ELSE /\ polls' = polls
          /\ pc' = IF receipt = "PENDING_REVIEW" THEN "PENDING_REVIEW"
                   ELSE IF receipt = "PUBLISHED" THEN "market" ELSE "failed"
  /\ UNCHANGED <<ownerVars, attempts, build, originals, uploaded, seen, compared>>

\* Fault: the receipt is believed.
ListingUnchecked == TRUE

\* The listing that consumers see, found by its application, has this content.
ListingMatches == listing = seen

VerifyMarket ==
  /\ pc = "market"
  /\ pc' = IF ListingMatches THEN "PUBLISHED" ELSE "failed"
  /\ UNCHANGED <<ownerVars, attempts, runVars>>

-----------------------------------------------------------------------------
OwnerStep ==
  \/ List \/ LateSubmission
  \/ \E state \in Reviewed : Review(state)
  \/ \E c \in late : LateFreeze(c)

RunStep ==
  \/ GetApplication \/ CreateApplication \/ GetVersion \/ Freeze \/ VerifyFrozen
  \/ GetReceipt \/ Submit \/ Poll \/ VerifyMarket
  \/ \E p \in Platforms :
       \/ FetchOriginal(p) \/ CompareStored(p)
       \/ \E bytes \in {build, Corrupt} : Upload(p, bytes)

Next == OwnerStep \/ RunStep \/ Stop \/ \E b \in Builds : Start(b)

Spec == Init /\ [][Next]_vars

\* A run goes on: its calls return, with a result or an error.
RunSpec == Spec /\ WF_vars(RunStep)

-----------------------------------------------------------------------------
\* Type invariant.
TypeOK ==
  /\ app \in BOOLEAN /\ frozen \in Contents \cup {None} /\ late \subseteq Contents
  /\ underway \in BOOLEAN /\ submitted \subseteq Builds
  /\ receipt \in {None, "RECEIVING"} \cup Reviewed /\ listing \in Contents \cup {None}
  /\ attempts \in 0..MaxAttempts
  /\ pc \in {"application", "create", "originals", "version", "upload", "freeze", "verify",
            "compare", "receipt", "submit", "poll", "market",
            "failed", "mismatch", "PENDING_REVIEW", "PUBLISHED"}
  /\ build \in Builds /\ originals \subseteq Platforms /\ uploaded \subseteq Rows
  /\ seen \in Contents \cup {None} /\ compared \subseteq Platforms /\ polls \in 0..Polls

\* However often a version is submitted, by runs that follow one another and by
\* submissions that come late or are received again, it is one build, complete and
\* undamaged, and what its owner received was submitted by a run.
SubmittedIsOneBuild ==
  /\ receipt # None => submitted # {}
  /\ \A b \in submitted : frozen = ContentOf(b)

\* A run that reports success has its own build frozen and submitted; if it
\* reports PUBLISHED, consumers see it.
SuccessIsVerified ==
  pc \in {"PENDING_REVIEW", "PUBLISHED"} =>
    /\ frozen = ContentOf(build) /\ receipt # None
    /\ pc = "PUBLISHED" => listing = frozen

\* A run can resume what an interrupted one has left: it refuses the frozen
\* version only if that is not its own build.
RefusalsAreReal == pc = "mismatch" => frozen # ContentOf(build)

\* Every run ends, also if the receipt says RECEIVING forever.
EveryRunEnds == []<>Ended
=============================================================================
