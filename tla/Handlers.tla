------------------------------ MODULE Handlers ------------------------------
(***************************************************************************)
(* The handler families that share no state with one another, each its own *)
(* module, composed for one run: a behaviour is one of one family, `focus',*)
(* and leaves the variables of the others as they were initialised.        *)
(***************************************************************************)
EXTENDS Naturals, FiniteSets

CONSTANTS
  focusses,                                     \* the families that run
  Calls, MaxRestarts, Blank, None,              \* of several families
  Drafts, Stamps,                               \* of DraftMirror
  Surfaces, Any, RouteIds, Profiles, Callers, MaxAssigned,  \* of RoutingTable
  Refs, MaxFiles,                               \* of RemoteRun
  Providers, Stranger, Ids, MaxTime, MaxChanges,  \* of InboxPages
  Tags, Foreign, MaxAttempts,                   \* of TriageTags
  Items, Runs, Levels,                          \* of TriageScores
  Regs, Days, MaxPurchases, PageLimit           \* of PaymentsVerbs

VARIABLES
  focus,
  dOpening, dRows, dFile, dTier, dMinted, dCipher, dLoad, dCall, dRestarts,
  rOpening, rRoutes, rOnFile, rNextId, rCall,
  xSurface, xSwept, xTorn, xPeerRef, xPool, xFiles, xWritten, xLeaked, xOvertaken, xCall, xRestarts,
  pMirror, pCursor, pStatus, pChanges, pReader, pSteady, pPage,
  tMarks, tCall, tImap,
  sFile, sRun, sHandle, sPromise, sCall, sRetired,
  vSlot, vReg, vPurchases, vSince, vRecorded, vPage

(* The constants of a family are those of the same name.                   *)
Mirror == INSTANCE DraftMirror WITH
  opening <- dOpening, rows <- dRows, file <- dFile, tier <- dTier, minted <- dMinted,
  cipher <- dCipher, load <- dLoad, call <- dCall, restarts <- dRestarts
Routing == INSTANCE RoutingTable WITH
  opening <- rOpening, routes <- rRoutes, onFile <- rOnFile, nextId <- rNextId, call <- rCall
Remote == INSTANCE RemoteRun WITH
  surface <- xSurface, swept <- xSwept, torn <- xTorn, peerRef <- xPeerRef, pool <- xPool,
  files <- xFiles, written <- xWritten, leaked <- xLeaked, overtaken <- xOvertaken,
  call <- xCall, restarts <- xRestarts
Pages == INSTANCE InboxPages WITH
  mirror <- pMirror, cursor <- pCursor, status <- pStatus, changes <- pChanges,
  reader <- pReader, steady <- pSteady, page <- pPage
TagsOf == INSTANCE TriageTags WITH
  marks <- tMarks, call <- tCall, imap <- tImap
Scores == INSTANCE TriageScores WITH
  file <- sFile, run <- sRun, handle <- sHandle, promise <- sPromise, call <- sCall,
  retired <- sRetired
Verbs == INSTANCE PaymentsVerbs WITH
  slot <- vSlot, reg <- vReg, purchases <- vPurchases, since <- vSince, recorded <- vRecorded,
  page <- vPage

(* A bound is a number, and what stands for nothing is none of the things  *)
(* it stands for the lack of.                                              *)
ASSUME HandlersAssumption ==
  /\ {MaxRestarts, MaxAssigned, MaxFiles, MaxTime, MaxChanges, MaxPurchases} \subseteq Nat
  /\ MaxAttempts \in Nat \ {0}
  /\ None \notin Calls \cup Mirror!Row \cup Profiles \cup Remote!Files \cup Remote!Identities
              \cup Pages!Item \cup Pages!Query
              \cup [at : Pages!Times, id : Ids]
  /\ Ids \subseteq Nat /\ IsFiniteSet(Ids) /\ Stranger \notin Providers
  /\ "nobody" \notin Regs

dVars == <<dOpening, dRows, dFile, dTier, dMinted, dCipher, dLoad, dCall, dRestarts>>
rVars == <<rOpening, rRoutes, rOnFile, rNextId, rCall>>
xVars == <<xSurface, xSwept, xTorn, xPeerRef, xPool,
          xFiles, xWritten, xLeaked, xOvertaken, xCall, xRestarts>>
pVars == <<pMirror, pCursor, pStatus, pChanges, pReader, pSteady, pPage>>
tVars == <<tMarks, tCall, tImap>>
sVars == <<sFile, sRun, sHandle, sPromise, sCall, sRetired>>
vVars == <<vSlot, vReg, vPurchases, vSince, vRecorded, vPage>>
vars == <<focus, dVars, rVars, xVars, pVars, tVars, sVars, vVars>>

Init ==
  /\ focus \in focusses
  /\ Mirror!Init /\ Routing!Init /\ Remote!Init /\ (focus = "remote" \/ xPeerRef = CHOOSE ref \in Refs : TRUE)
  /\ Pages!Init /\ TagsOf!Init /\ Scores!Init /\ Verbs!Init

Next ==
  /\ UNCHANGED focus
  /\ \/ focus = "drafts" /\ Mirror!Next
        /\ UNCHANGED <<rVars, xVars, pVars, tVars, sVars, vVars>>
     \/ focus = "routes" /\ Routing!Next
        /\ UNCHANGED <<dVars, xVars, pVars, tVars, sVars, vVars>>
     \/ focus = "remote" /\ Remote!Next
        /\ UNCHANGED <<dVars, rVars, pVars, tVars, sVars, vVars>>
     \/ focus = "pages" /\ Pages!Next
        /\ UNCHANGED <<dVars, rVars, xVars, tVars, sVars, vVars>>
     \/ focus = "tags" /\ TagsOf!Next
        /\ UNCHANGED <<dVars, rVars, xVars, pVars, sVars, vVars>>
     \/ focus = "scores" /\ Scores!Next
        /\ UNCHANGED <<dVars, rVars, xVars, pVars, tVars, vVars>>
     \/ focus = "verbs" /\ Verbs!Next
        /\ UNCHANGED <<dVars, rVars, xVars, pVars, tVars, sVars>>

(* Each family's own fairness, while it is the one that runs.              *)
Fairness ==
  /\ WF_dVars(focus = "drafts" /\ (Mirror!Opens \/ Mirror!OpenFails))
  /\ \A c \in Calls : /\ WF_dVars(focus = "drafts" /\ Mirror!Step(c))
                    /\ WF_dVars(focus = "drafts" /\ Mirror!KeyStep(c))
  /\ WF_xVars(focus = "remote" /\ Remote!Sweep)
  /\ \A c \in Calls : WF_xVars(focus = "remote" /\ xSurface = "up" /\ Remote!Advances(c))
  /\ \A c \in Calls : WF_tVars(focus = "tags" /\ TagsOf!Step(c))
  /\ WF_sVars(focus = "scores" /\ (Scores!StoreOpens \/ Scores!OpenFails))

Spec == Init /\ [][Next]_vars /\ Fairness

-----------------------------------------------------------------------------
(* The type invariant of each family.                                      *)
TypesOK ==
  /\ Mirror!TypeOK /\ Routing!TypeOK /\ Remote!TypeOK /\ Pages!TypeOK
  /\ TagsOf!TypeOK /\ Scores!TypeOK /\ Verbs!TypeOK

(* Drafts: every body stays readable under the key a later process finds,  *)
(* and a draft keeps its createdAt (drafts/draft-store.ts,                 *)
(* credentials.ts).                                                        *)
DraftsAreKept == []Mirror!BodiesReadable /\ Mirror!CreatedAtStays

(* Routing: an inbound message gets the most specific profile, and a route *)
(* keeps its id (routing/route-store.ts, routing/routing-resolver.ts).     *)
RoutesAreKept == []Routing!ResolvesMostSpecific /\ Routing!IdsAreStable

(* Remote peers: a running command's key file is there, and a cloud        *)
(* credential only while its command runs (remote/backends).               *)
KeysAreWhereNeeded == Remote!KeyFilesAreThere /\ Remote!CredentialsAreSingleUse

(* Inbox pages: a walk hands out everything once, and an answer that calls *)
(* itself complete hides no outage (inbox/aggregator.ts).                  *)
PagesTellAll == Pages!PagesMissNothing /\ Pages!OutagesAreSaid

(* Tags: nothing changes at a provider without a confirmed call, and what  *)
(* is counted as applied is there (triage/tagger).                         *)
TagsAreTrue == TagsOf!OnlyConfirmedTags /\ []TagsOf!AppliedIsThere

(* Scores: a triage run alone loses no score (triage/pipeline.ts).         *)
LoneRunKeepsScores == Scores!LoneRunKeepsScores

(* Payments verbs: nothing is served after the teardown, a settled         *)
(* registration serves its own store, and the ledger holds every purchase  *)
(* since its file was last torn (payments/register.ts, purchase-ledger.ts). *)
VerbsStayTrue == Verbs!VerbsStayTrue

(* Whatever fails on the way, every draft call, every dispatch to a peer,  *)
(* every apply of tags and every list that waits for scores is answered.   *)
Waits(c) ==
  \/ focus = "drafts" /\ Mirror!Waits(c)
  \/ focus = "remote" /\ Remote!Waits(c)
  \/ focus = "tags" /\ TagsOf!Waits(c)
  \/ focus = "scores" /\ Scores!Waits(c)
EveryCallIsAnswered == \A c \in Calls : Waits(c) ~> ~Waits(c)
=============================================================================
