---------------------------- MODULE RuntimeProofs ----------------------------
(***************************************************************************)
(* Proofs about the compositions of Runtime: each family's inductive       *)
(* invariant in a section of its own, and the theorems that follow.        *)
(***************************************************************************)
EXTENDS Runtime, SequenceTheorems, WellFoundedInduction, TLAPS

(* Every step is one of each family's, or leaves it alone.                 *)
LEMMA EachFamilySteps ==
  ASSUME [Next]_vars
  PROVE  /\ Life!Next \/ UNCHANGED Life!vars
         /\ Commands!Next \/ UNCHANGED Commands!vars
         /\ Operator!Next \/ UNCHANGED Operator!vars
         /\ Trust!Next \/ UNCHANGED Trust!vars
         /\ Files!Next \/ UNCHANGED Files!vars
         /\ Talk!Next \/ UNCHANGED Talk!vars
         /\ Cluster!Next \/ UNCHANGED Cluster!vars
BY Zenon DEF Next, vars, lVars, cVars, oVars, tVars, wVars, rVars, gVars, Life!vars, Commands!vars,
   Operator!vars, Trust!vars, Files!vars, Talk!vars, Cluster!vars

-----------------------------------------------------------------------------
(* The cluster.  A lone call is the only one on its way.                   *)
OnTheWay == {"starting", "announcing", "grouped"}

(* The flag is up from the first call on.                                  *)
FlagUp == gStarted <=> \E c \in Starts : gCall[c] # "uncalled"

(* Beside a lone call on its way, or one that failed, none has been made   *)
(* that has not succeeded.                                                 *)
OneAtATime ==
  gLone => \A c, d \in Starts : c # d /\ gCall[c] \in OnTheWay \cup {"failed"} =>
            gCall[d] \in {"uncalled", "over"}

(* The group is up behind a lone call that has got past it, and the call   *)
(* that brings it up is the first.                                         *)
GroupBehind ==
  gLone => \A c \in Starts : gCall[c] \in {"announcing", "grouped", "over"} => gGroup = "up"
FirstBringsUp ==
  \A c, d \in Starts : gCall[c] = "starting" /\ gLone => gCall[d] # "over"

(* Where the election runs, a call brought it up.                          *)
Coordinated == gElection = "up" => \E c \in Starts : gCall[c] = "over"

ClusterInv ==
  Cluster!TypeOK /\ FlagUp /\ OneAtATime /\ GroupBehind /\ FirstBringsUp /\ Coordinated
  /\ Cluster!ElectionOverGroup

LEMMA InitClusterInv == Cluster!Init => ClusterInv
  BY DEF Cluster!Init, ClusterInv, Cluster!TypeOK, Cluster!Steps, Cluster!Outcomes, FlagUp, OneAtATime, GroupBehind, FirstBringsUp,
         Coordinated, Cluster!ElectionOverGroup, OnTheWay

LEMMA StepClusterInv == ClusterInv /\ (Cluster!Next \/ UNCHANGED Cluster!vars) => ClusterInv'
<1> SUFFICES ASSUME ClusterInv, (Cluster!Next \/ UNCHANGED Cluster!vars) PROVE ClusterInv'
  OBVIOUS
<1> USE DEF ClusterInv, Cluster!TypeOK, Cluster!Steps, Cluster!Outcomes, FlagUp, OneAtATime, GroupBehind, FirstBringsUp,
            Coordinated, Cluster!ElectionOverGroup, OnTheWay
<1>1. ASSUME NEW c \in Starts, Cluster!StartCluster(c) PROVE ClusterInv'
  <2>1. Cluster!TypeOK'
    BY <1>1 DEF Cluster!StartCluster, Cluster!Goes
  <2>2. gCall' = [gCall EXCEPT ![c] = IF gStarted THEN "grouped" ELSE "starting"]
    BY <1>1 DEF Cluster!StartCluster, Cluster!Goes
  <2>3. /\ gCall[c] = "uncalled" /\ gStarted'
        /\ gLone' => gLone /\ \A d \in Starts : gCall[d] \in {"uncalled", "over"}
        /\ gGroup' = (IF gStarted THEN gGroup ELSE "coming")
        /\ gElection' = gElection /\ gMaster' = gMaster
    BY <1>1 DEF Cluster!StartCluster
  <2>4. FlagUp' /\ OneAtATime' /\ Coordinated'
    BY <2>2, <2>3
  <2>5. gLone' => (gStarted => gGroup = "up") /\ (~gStarted => gElection = "down")
    BY <2>3
  <2>6. GroupBehind' /\ FirstBringsUp' /\ Cluster!ElectionOverGroup'
    BY <2>2, <2>3, <2>5
  <2>7. QED
    BY <2>1, <2>4, <2>6
<1>2. ASSUME NEW c \in Starts, Cluster!GroupUp(c) PROVE ClusterInv'
  BY <1>2 DEF Cluster!GroupUp, Cluster!Goes
<1>3. ASSUME NEW c \in Starts, Cluster!Returned(c) PROVE ClusterInv'
  BY <1>3 DEF Cluster!Returned, Cluster!Goes
<1>4. ASSUME NEW c \in Starts, Cluster!ElectionUp(c) PROVE ClusterInv'
  BY <1>4 DEF Cluster!ElectionUp, Cluster!GroupDone, Cluster!Goes
<1>5. ASSUME NEW c \in Starts, Cluster!Fails(c) PROVE ClusterInv'
  <2>1. /\ gCall' = [gCall EXCEPT ![c] = "failed"] /\ gCall[c] \in OnTheWay
        /\ gGroup' = (IF gCall[c] = "starting" THEN "down" ELSE gGroup)
        /\ gStarted' = gStarted /\ gLone' = gLone /\ gElection' = gElection /\ gMaster' = gMaster
        /\ gRoster' = gRoster /\ gReturned' = gReturned
    BY <1>5 DEF Cluster!Fails, Cluster!Goes
  <2>2. Cluster!TypeOK' /\ FlagUp' /\ OneAtATime' /\ FirstBringsUp' /\ Coordinated'
    <3>1. Cluster!TypeOK'
      BY <2>1
    <3>2. gCall'[c] = "failed" /\ \A d \in Starts : d # c => gCall'[d] = gCall[d]
      BY <2>1
    <3>3. FlagUp'
      BY <2>1, <3>2
    <3>4. OneAtATime'
      BY <2>1, <3>2
    <3>5. FirstBringsUp' /\ Coordinated'
      BY <2>1, <3>2
    <3>6. QED
      BY <3>1, <3>3, <3>4, <3>5
  <2>3. gLone /\ gCall[c] = "starting" => \A d \in Starts : d # c => gCall[d] = "uncalled"
    <3> SUFFICES ASSUME gLone, gCall[c] = "starting", NEW d \in Starts, d # c
                 PROVE  gCall[d] = "uncalled"
      OBVIOUS
    <3>1. gCall[d] \in {"uncalled", "over"}
      BY <2>1
    <3>2. gCall[d] # "over"
      BY <2>1
    <3>3. QED
      BY <3>1, <3>2
  <2>4. GroupBehind' /\ Cluster!ElectionOverGroup'
    BY <2>1, <2>3
  <2>5. QED
    BY <2>2, <2>4
<1>6. CASE Cluster!Elected
  BY <1>6 DEF Cluster!Elected
<1>7. CASE Cluster!RosterChanges
  BY <1>7 DEF Cluster!RosterChanges
<1>8. CASE UNCHANGED Cluster!vars
  BY <1>8 DEF Cluster!vars
<1>9. QED
  BY <1>1, <1>2, <1>3, <1>4, <1>5, <1>6, <1>7, <1>8 DEF Cluster!Next


(* The election coordinates over a group that has loaded its key, as long  *)
(* as calls are lone, however many there are and whatever fails            *)
(* (runtime/cluster-group-composition.ts).                                 *)
THEOREM ElectsOverGroup == Spec => []ElectionOverGroup
<1>1. Init => ClusterInv
  BY InitClusterInv DEF Init
<1>2. ClusterInv /\ [Next]_vars => ClusterInv'
  BY EachFamilySteps, StepClusterInv
<1>3. ClusterInv => ElectionOverGroup
  BY DEF ClusterInv, ElectionOverGroup
<1>4. QED
  BY <1>1, <1>2, <1>3, PTL DEF Spec

-----------------------------------------------------------------------------
(* Rewinds.  A conversation, and each side of a snapshot, is a sequence of *)
(* messages no longer than what was ever said.                             *)
Spoken(s, n) == s \in Seq(1..MaxMessages) /\ Len(s) <= n
Snapshot(s, n) ==
  /\ s.conv \in Talk!Conversations /\ Spoken(s.before, n) /\ Spoken(s.after, n)
  /\ Talk!IsPrefix(s.after, s.before)
Somewhere(m) ==
  \/ \E c \in Talk!Conversations : m \in Talk!ToSet(rConv[c])
  \/ \E s \in rSnapshots : m \in Talk!Held(s)
TalkInv ==
  /\ rLive \in Talk!Conversations \cup {"none"} /\ rSaid \in 0..MaxMessages
  /\ rConv \in [Talk!Conversations -> Seq(1..MaxMessages)]
  /\ \A c \in Talk!Conversations : Spoken(rConv[c], rSaid)
  /\ rAnchors \subseteq 0..MaxMessages /\ rOverwritten \in BOOLEAN
  /\ \A s \in rSnapshots : Snapshot(s, rSaid)
  /\ ~rOverwritten => \A m \in 1..rSaid : Somewhere(m)

LEMMA LiveTold == "none" \notin Talk!Conversations /\ MaxMessages \in Nat
BY RuntimeAssumption DEF Talk!Conversations

LEMMA InitTalkInv == Talk!Init => TalkInv
<1> SUFFICES ASSUME Talk!Init PROVE TalkInv
  OBVIOUS
<1>1. /\ rLive = "none" /\ rSaid = 0 /\ rAnchors = {} /\ rSnapshots = {} /\ rOverwritten = FALSE
      /\ rConv = [c \in Talk!Conversations |-> <<>>]
  BY DEF Talk!Init
<1>2. 0 \in 0..MaxMessages /\ 1..0 = {} /\ <<>> \in Seq(1..MaxMessages) /\ Len(<<>>) = 0
  BY LiveTold
<1>3. \A c \in Talk!Conversations : Spoken(rConv[c], rSaid)
  BY <1>1, <1>2 DEF Spoken
<1>4. QED
  BY <1>1, <1>2, <1>3 DEF TalkInv

(* What is kept is a prefix of what there was.                             *)
LEMMA KeptIsPrefix ==
  ASSUME TalkInv, rLive # "none", NEW count \in Nat
  PROVE  /\ Spoken(Talk!Kept(count), rSaid)
         /\ Talk!IsPrefix(Talk!Kept(count), rConv[rLive])
<1> DEFINE whole == rConv[rLive]
           n == Talk!Keep(count)
           kept == SubSeq(whole, 1, n)
<1>1. whole \in Seq(1..MaxMessages) /\ Len(whole) <= rSaid /\ Len(whole) \in Nat /\ rSaid \in Nat
  BY LiveTold DEF TalkInv, Spoken
<1>2. n \in 0..Len(whole)
  BY <1>1 DEF Talk!Keep, Talk!Smaller
<1> HIDE DEF n, whole
<1>3. /\ kept \in Seq(1..MaxMessages) /\ Len(kept) = n
      /\ \A i \in 1..n : kept[i] = whole[i]
  <2>1. n \in Int /\ 1 \in Int /\ n - 1 + 1 = n /\ \A i \in 1..n : i \in 1..Len(whole) /\ 1 + i - 1 = i
    BY <1>1, <1>2
  <2>2. \A i \in 1..n : whole[i] \in 1..MaxMessages
    BY <1>1, <2>1, ElementOfSeq
  <2>3. /\ kept \in Seq(1..MaxMessages) /\ Len(kept) = IF 1 <= n THEN n - 1 + 1 ELSE 0
        /\ \A i \in 1..(n - 1 + 1) : kept[i] = whole[1 + i - 1]
    BY <2>1, <2>2, SubSeqProperties
  <2>4. QED
    BY <1>2, <2>1, <2>3
<1>4. SubSeq(kept, 1, n) = kept /\ n <= Len(whole) /\ n <= rSaid
  BY <1>1, <1>2, <1>3
<1>5. Spoken(kept, rSaid) /\ Talk!IsPrefix(kept, whole)
  BY <1>3, <1>4 DEF Spoken, Talk!IsPrefix
<1>6. QED
  BY <1>5 DEF Talk!Kept, n, whole

LEMMA LongerTalk ==
  ASSUME NEW s \in Seq(1..MaxMessages), NEW m \in 1..MaxMessages
  PROVE  Talk!ToSet(Append(s, m)) = Talk!ToSet(s) \cup {m}
<1>1. /\ Append(s, m) \in Seq(1..MaxMessages) /\ DOMAIN Append(s, m) = 1..(Len(s) + 1)
      /\ DOMAIN s = 1..Len(s) /\ Len(s) \in Nat
      /\ \A i \in 1..Len(s) : Append(s, m)[i] = s[i]
      /\ Append(s, m)[Len(s) + 1] = m
  BY AppendProperties, LenProperties
<1>2. 1..(Len(s) + 1) = 1..Len(s) \cup {Len(s) + 1}
  BY <1>1
<1> DEFINE longer == Append(s, m)
<1> HIDE DEF longer
<1>3. {longer[i] : i \in DOMAIN longer} = {s[i] : i \in DOMAIN s} \cup {m}
  BY <1>1, <1>2 DEF longer
<1>4. QED
  BY <1>3 DEF Talk!ToSet, longer

LEMMA StepTalkInv ==
  ASSUME TalkInv, Talk!Next \/ UNCHANGED Talk!vars
  PROVE  TalkInv'
<1>0. /\ rSaid \in Nat /\ MaxMessages \in Nat /\ rSaid \in 0..MaxMessages
      /\ rLive \in Talk!Conversations \cup {"none"}
      /\ rConv \in [Talk!Conversations -> Seq(1..MaxMessages)]
      /\ \A c \in Talk!Conversations : Spoken(rConv[c], rSaid)
      /\ rAnchors \subseteq 0..MaxMessages /\ rOverwritten \in BOOLEAN
      /\ \A s \in rSnapshots : Snapshot(s, rSaid)
      /\ ~rOverwritten => \A m \in 1..rSaid : Somewhere(m)
  BY LiveTold DEF TalkInv
<1>1. CASE Talk!RegisterConversation \/ Talk!UnregisterConversation
  BY <1>0, <1>1 DEF Talk!RegisterConversation, Talk!UnregisterConversation, TalkInv, Somewhere
<1>2. CASE Talk!Say
  <2>1. /\ rLive \in Talk!Conversations /\ rSaid < MaxMessages /\ rSaid' = rSaid + 1
        /\ rConv' = [rConv EXCEPT ![rLive] = Append(rConv[rLive], rSaid + 1)]
        /\ UNCHANGED <<rLive, rAnchors, rSnapshots, rOverwritten>>
    BY <1>0, <1>2 DEF Talk!Say
  <2> DEFINE longer == Append(rConv[rLive], rSaid + 1)
  <2>2. rSaid + 1 \in 1..MaxMessages /\ rSaid' \in 0..MaxMessages
    BY <1>0, <2>1
  <2>3. rConv[rLive] \in Seq(1..MaxMessages) /\ Len(rConv[rLive]) <= rSaid
    BY <1>0, <2>1 DEF Spoken
  <2>4. longer \in Seq(1..MaxMessages) /\ Len(longer) <= rSaid'
    BY <1>0, <2>1, <2>2, <2>3
  <2>5. Talk!ToSet(longer) = Talk!ToSet(rConv[rLive]) \cup {rSaid + 1}
    BY <2>2, <2>3, LongerTalk
  <2> HIDE DEF longer
  <2>6. rConv'[rLive] = longer /\ \A c \in Talk!Conversations : c # rLive => rConv'[c] = rConv[c]
    BY <1>0, <2>1 DEF longer
  <2>7. \A s : Spoken(s, rSaid) => Spoken(s, rSaid')
    BY <1>0, <2>1 DEF Spoken
  <2>8. \A c \in Talk!Conversations : Spoken(rConv'[c], rSaid')
    BY <1>0, <2>4, <2>6, <2>7 DEF Spoken
  <2>9. \A s \in rSnapshots' : Snapshot(s, rSaid')
    BY <1>0, <2>1, <2>7 DEF Snapshot
  <2>10. ASSUME ~rOverwritten, NEW m \in 1..rSaid' PROVE Somewhere(m)'
    <3>1. CASE m = rSaid + 1
      BY <2>1, <2>5, <2>6, <3>1 DEF Somewhere
    <3>2. CASE m # rSaid + 1
      <4>1. m \in 1..rSaid
        BY <1>0, <2>1, <2>10, <3>2
      <4>2. Somewhere(m)
        BY <1>0, <2>10, <4>1
      <4>3. ASSUME NEW c \in Talk!Conversations, m \in Talk!ToSet(rConv[c])
            PROVE  m \in Talk!ToSet(rConv'[c])
        BY <2>5, <2>6, <4>3
      <4>4. QED
        BY <2>1, <4>2, <4>3 DEF Somewhere
    <3>3. QED
      BY <3>1, <3>2
  <2>11. rConv' \in [Talk!Conversations -> Seq(1..MaxMessages)]
    BY <1>0, <2>1, <2>4 DEF longer
  <2>12. QED
    BY <1>0, <2>1, <2>2, <2>8, <2>9, <2>10, <2>11 DEF TalkInv
<1>3. CASE Talk!TurnEnds
  <2>1. rLive \in Talk!Conversations /\ rAnchors' = rAnchors \cup {Len(rConv[rLive])}
        /\ UNCHANGED <<rLive, rConv, rSaid, rSnapshots, rOverwritten>>
    BY <1>0, <1>3 DEF Talk!TurnEnds
  <2>2. rConv[rLive] \in Seq(1..MaxMessages) /\ Len(rConv[rLive]) <= rSaid
    BY <1>0, <2>1 DEF Spoken
  <2>3. Len(rConv[rLive]) \in 0..MaxMessages
    BY <1>0, <2>2, LenProperties
  <2>4. QED
    BY <1>0, <2>1, <2>3 DEF TalkInv, Somewhere
<1>4. CASE Talk!Rewind
  <2>1. /\ rLive \in Talk!Conversations /\ rLive # "none"
        /\ UNCHANGED <<rLive, rSaid, rAnchors, rOverwritten>>
    BY <1>0, <1>4 DEF Talk!Rewind
  <2>2. rConv[rLive] \in Seq(1..MaxMessages) /\ Len(rConv[rLive]) \in Nat
    BY <1>0, <2>1
  <2>3. PICK count \in Nat : Talk!RewindTo(count, rConv[rLive])
    BY <1>0, <1>4, <2>2 DEF Talk!Rewind
  <2> DEFINE after == Talk!Kept(count)
             snapshot == [conv |-> rLive, before |-> rConv[rLive], after |-> after]
  <2>4. rConv' = [rConv EXCEPT ![rLive] = after] /\ rSnapshots' = rSnapshots \cup {snapshot}
    BY <2>3 DEF Talk!RewindTo
  <2>5. Spoken(after, rSaid) /\ Talk!IsPrefix(after, rConv[rLive])
    BY <2>1, KeptIsPrefix
  <2> HIDE DEF after
  <2>6. Snapshot(snapshot, rSaid) /\ Talk!Held(snapshot) = Talk!ToSet(rConv[rLive])
    BY <1>0, <2>1, <2>5 DEF Snapshot, Talk!Held
  <2> HIDE DEF snapshot
  <2>7. rConv' \in [Talk!Conversations -> Seq(1..MaxMessages)]
        /\ \A c \in Talk!Conversations : Spoken(rConv'[c], rSaid)
    BY <1>0, <2>4, <2>5 DEF Spoken
  <2>8. ASSUME NEW m, Somewhere(m) PROVE Somewhere(m)'
    <3>1. ASSUME NEW c \in Talk!Conversations, m \in Talk!ToSet(rConv[c]), c # rLive
          PROVE  Somewhere(m)'
      BY <1>0, <2>4, <3>1 DEF Somewhere
    <3>2. ASSUME m \in Talk!ToSet(rConv[rLive]) PROVE Somewhere(m)'
      BY <2>4, <2>6, <3>2 DEF Somewhere, Talk!Held
    <3>3. ASSUME NEW s \in rSnapshots, m \in Talk!Held(s) PROVE Somewhere(m)'
      BY <2>4, <3>3 DEF Somewhere, Talk!Held
    <3>4. QED
      BY <2>8, <3>1, <3>2, <3>3 DEF Somewhere
  <2>9. QED
    BY <1>0, <2>1, <2>4, <2>6, <2>7, <2>8 DEF TalkInv
<1>5. CASE Talk!Restore
  <2> DEFINE Back(s, which) ==
          /\ rConv' = [rConv EXCEPT ![s.conv] = which]
          /\ rOverwritten' = (rOverwritten \/
               ~(Talk!ToSet(rConv[s.conv]) \subseteq
                   Talk!ToSet(which) \cup UNION {Talk!Held(t) : t \in rSnapshots}))
          /\ UNCHANGED <<rLive, rSaid, rAnchors, rSnapshots>>
  <2>a. PICK s \in rSnapshots : \E which \in {s.before, s.after} : Back(s, which)
    BY <1>5 DEF Talk!Restore
  <2>b. PICK which \in {s.before, s.after} : Back(s, which)
    BY <2>a
  <2>1. Back(s, which)
    BY <2>b
  <2>2. s.conv \in Talk!Conversations /\ Spoken(which, rSaid)
    BY <1>0, <2>1 DEF Snapshot
  <2>3. rConv' \in [Talk!Conversations -> Seq(1..MaxMessages)]
        /\ \A c \in Talk!Conversations : Spoken(rConv'[c], rSaid)
    BY <1>0, <2>1, <2>2 DEF Spoken
  <2>4. rOverwritten' \in BOOLEAN
    BY <2>1
  <2>5. ASSUME ~rOverwritten', NEW m, Somewhere(m) PROVE Somewhere(m)'
    <3>1. ASSUME NEW t \in rSnapshots, m \in Talk!Held(t) PROVE Somewhere(m)'
      BY <2>1, <3>1 DEF Somewhere, Talk!Held
    <3>2. ASSUME NEW c \in Talk!Conversations, m \in Talk!ToSet(rConv[c]), c # s.conv
          PROVE  Somewhere(m)'
      BY <1>0, <2>1, <3>2 DEF Somewhere
    <3>3. ASSUME m \in Talk!ToSet(rConv[s.conv]) PROVE Somewhere(m)'
      <4>1. m \in Talk!ToSet(which) \cup UNION {Talk!Held(t) : t \in rSnapshots}
        BY <2>1, <2>5, <3>3
      <4>2. rConv'[s.conv] = which
        BY <1>0, <2>1, <2>2
      <4>3. QED
        BY <2>2, <3>1, <4>1, <4>2 DEF Somewhere
    <3>4. QED
      BY <2>5, <3>1, <3>2, <3>3 DEF Somewhere
  <2>6. ~rOverwritten' => ~rOverwritten
    BY <2>1
  <2>7. QED
    BY <1>0, <2>1, <2>3, <2>4, <2>5, <2>6 DEF TalkInv
<1>6. CASE UNCHANGED Talk!vars
  BY <1>0, <1>6 DEF Talk!vars, TalkInv, Somewhere
<1>7. QED
  BY <1>1, <1>2, <1>3, <1>4, <1>5, <1>6 DEF Talk!Next

(* No rewind loses a message that no snapshot holds, of conversations of   *)
(* any length (runtime/conversation-rewind-port.ts).                       *)
THEOREM RewindsKeepEverything == Spec => []RewindsLoseNothing
<1>1. Init => TalkInv
  BY InitTalkInv DEF Init
<1>2. TalkInv /\ [Next]_vars => TalkInv'
  BY EachFamilySteps, StepTalkInv
<1>3. TalkInv => RewindsLoseNothing
  BY DEF TalkInv, Somewhere, RewindsLoseNothing, Talk!RewindsLoseNothing
<1>4. QED
  BY <1>1, <1>2, <1>3, PTL DEF Spec

-----------------------------------------------------------------------------
(* The command line.  A set of numbers has a least one.                    *)
LEMMA LeastOfNaturals ==
  ASSUME NEW S \in SUBSET Nat, S # {}
  PROVE  \E n \in S : \A m \in S : n <= m
<1>1. PICK n \in S : \A m \in S : ~(<<m, n>> \in OpToRel(<, Nat))
  BY NatLessThanWellFounded, WFMin
<1>2. ASSUME NEW m \in S, m < n PROVE <<m, n>> \in OpToRel(<, Nat)
  <2>1. SUFFICES <<m, n>> \in {pair \in Nat \X Nat : pair[1] < pair[2]}
    BY Zenon DEF OpToRel
  <2>2. QED
    BY <1>2
<1>3. \A m \in S : ~(m < n)
  BY <1>1, <1>2, Zenon
<1>4. QED
  BY <1>3

(* The command word is the first word.                                     *)
LEMMA FirstWord ==
  ASSUME NEW argv \in Seq(Tokens), Life!HasWord(argv)
  PROVE  /\ Life!WordAt(argv) \in Life!WordsOf(argv)
         /\ \A i \in Life!WordsOf(argv) : Life!WordAt(argv) <= i
<1>1. Life!WordsOf(argv) \in SUBSET Nat /\ Life!WordsOf(argv) # {}
  BY DEF Life!HasWord, Life!WordsOf
<1>2. \E n \in Life!WordsOf(argv) : \A m \in Life!WordsOf(argv) : n <= m
  BY <1>1, LeastOfNaturals
<1>3. QED
  BY <1>2 DEF Life!WordAt, Life!Min

(* Where main goes on to serve, the command is serve and nothing else was  *)
(* asked for.                                                              *)
LEMMA VerdictsTold ==
  ASSUME NEW argv \in Seq(Tokens), NEW fits \in BOOLEAN, Life!Verdict(argv, fits).to = "serve"
  PROVE  /\ Life!Command(argv) = "serve" /\ ~Life!Refused(argv)
         /\ ~Life!Has(argv, "--help") /\ ~Life!Has(argv, "--version")
<1>1. Life!HelpFor(argv).to # "serve"
  BY DEF Life!HelpFor, Life!Refusal, Life!Page
<1>2. Life!CompletionFor(argv).to # "serve"
  BY DEF Life!CompletionFor, Life!Runs
<1>3. Life!Refusal.to # "serve" /\ Life!Page.to # "serve" /\ \A codes : Life!Runs(codes).to # "serve"
  BY DEF Life!Refusal, Life!Page, Life!Runs
<1>4. argv = <<>> \/ argv[1] \notin Life!RawInterceptCommands
  BY <1>3 DEF Life!Verdict
<1>5. /\ ~Life!Refused(argv) /\ ~Life!Has(argv, "--help") /\ ~Life!Has(argv, "--version")
      /\ Life!Command(argv) \notin {"help", "version", "completion", "config"}
      /\ Life!Command(argv) \notin Life!RawInterceptCommands \cup Life!RemoteCommands
                                     \cup Life!ServiceCommands
  BY <1>1, <1>2, <1>3, <1>4 DEF Life!Verdict
<1>6. Life!Command(argv) # "unknown"
  BY <1>5 DEF Life!Refused
<1>7. Life!Command(argv) \in Life!Commands \cup {"serve", "unknown"}
  BY DEF Life!Command, Life!Known
<1>8. QED
  BY <1>5, <1>6, <1>7 DEF Life!Commands, Life!OwnCommands

LEMMA ServingIsAskedFor ==
  ASSUME NEW argv \in Seq(Tokens), NEW fits \in BOOLEAN, Life!Verdict(argv, fits).to = "serve"
  PROVE  Life!AsksToServe(argv)
<1> DEFINE words == {i \in DOMAIN argv : argv[i] \notin Life!Flags
                                         /\ ~(i > 1 /\ argv[i - 1] \in Life!ValueFlags)}
<1>1. Life!Command(argv) = "serve" /\ ~Life!Refused(argv)
      /\ ~Life!Has(argv, "--help") /\ ~Life!Has(argv, "--version")
  BY VerdictsTold
<1>2. words = Life!WordsOf(argv)
  BY DEF Life!WordsOf, Life!IsWord, Life!ValueAt
<1>3. Life!Parsed(argv) = argv
  BY <1>1 DEF Life!Parsed, Life!RawInterceptCommands
<1>4. ASSUME NEW i \in DOMAIN argv, argv[i] \in Life!Flags
      PROVE  argv[i] \in (Life!ServeFlags \cup Life!GlobalFlags) \ {"--help", "--version"}
  <2>1. argv[i] \in Life!GlobalFlags \cup Life!FlagsOf("serve")
    BY <1>1, <1>3, <1>4 DEF Life!Refused, Life!FlagIsWrong
  <2>2. argv[i] # "--help" /\ argv[i] # "--version"
    BY <1>1, <1>3, <1>4 DEF Life!Has
  <2>3. QED
    BY <2>1, <2>2 DEF Life!FlagsOf
<1>5. ASSUME words # {}
      PROVE  \E i \in words : argv[i] = "serve" /\ \A j \in words : i <= j
  <2>1. Life!HasWord(argv)
    BY <1>2, <1>5 DEF Life!HasWord
  <2>2. Life!WordAt(argv) \in words /\ \A j \in words : Life!WordAt(argv) <= j
    BY <1>2, <2>1, FirstWord
  <2>3. Life!Resolve(argv[Life!WordAt(argv)]) = "serve"
    BY <1>1, <2>1 DEF Life!Command
  <2>4. argv[Life!WordAt(argv)] = "serve"
    BY <2>3 DEF Life!Resolve
  <2>5. QED
    BY <2>2, <2>4
<1>6. QED
  BY <1>4, <1>5 DEF Life!AsksToServe

-----------------------------------------------------------------------------
(* The boot and the shutdown.                                              *)
LEMMA SevenInARow ==
  ASSUME NEW S, NEW a \in S, NEW b \in S, NEW c \in S, NEW d \in S, NEW e \in S, NEW f \in S, NEW g \in S
  PROVE  <<a, b, c, d, e, f, g>> \in Seq(S)
OBVIOUS

LEMMA OwnersTold ==
  ASSUME NEW browser \in BOOLEAN
  PROVE  /\ Len(Life!Owners(browser)) \in Nat \ {0}
         /\ Life!Owners(browser)[Len(Life!Owners(browser))] = "daemon handler surfaces"
         /\ \E i \in DOMAIN Life!Owners(browser) :
              Life!Owners(browser)[i] = "browser checkout seam holder"
<1> DEFINE rest == <<"browser checkout seam holder", "config event bridge", "graph pollers",
                     "durability housekeeping", "device housekeeping", "wake-word housekeeping",
                     "daemon handler surfaces">>
           first == <<"wrfc fix engine">> \o (IF browser THEN <<"browser sessions">> ELSE <<>>)
           names == {"wrfc fix engine", "browser sessions", "browser checkout seam holder",
                     "config event bridge", "graph pollers", "durability housekeeping",
                     "device housekeeping", "wake-word housekeeping", "daemon handler surfaces"}
<1>1. Len(rest) = 7 /\ rest[1] = "browser checkout seam holder" /\ rest[7] = "daemon handler surfaces"
  OBVIOUS
<1>2. rest \in Seq(names)
  <2>1. /\ "browser checkout seam holder" \in names /\ "config event bridge" \in names
        /\ "graph pollers" \in names /\ "durability housekeeping" \in names
        /\ "device housekeeping" \in names /\ "wake-word housekeeping" \in names
        /\ "daemon handler surfaces" \in names
    OBVIOUS
  <2> HIDE DEF names
  <2>2. QED
    BY <2>1, SevenInARow, Zenon DEF rest
<1>3. first \in Seq(names)
  <2>1. <<"wrfc fix engine">> \in Seq(names) /\ <<"browser sessions">> \in Seq(names)
        /\ <<>> \in Seq(names)
    OBVIOUS
  <2> HIDE DEF names
  <2>2. QED
    BY <2>1, ConcatProperties
<1>4. Life!Owners(browser) = first \o rest
  BY DEF Life!Owners, Life!AllOwners
<1> HIDE DEF first, rest, names
<1>5. Len(first) \in Nat
  BY <1>3
<1>6. /\ first \o rest \in Seq(names) /\ Len(first \o rest) = Len(first) + Len(rest)
      /\ \A i \in 1..(Len(first) + Len(rest)) :
           (first \o rest)[i] = IF i <= Len(first) THEN first[i] ELSE rest[i - Len(first)]
  BY <1>2, <1>3, ConcatProperties
<1>7. /\ Len(first) + 1 \in 1..(Len(first) + Len(rest)) /\ ~(Len(first) + 1 <= Len(first))
      /\ Len(first) + 7 \in 1..(Len(first) + Len(rest)) /\ ~(Len(first) + 7 <= Len(first))
      /\ (Len(first) + 1) - Len(first) = 1 /\ (Len(first) + 7) - Len(first) = 7
      /\ Len(first) + Len(rest) \in Nat \ {0}
  <2>1. \A n \in Nat : /\ n + 1 \in 1..(n + 7) /\ ~(n + 1 <= n) /\ n + 7 \in 1..(n + 7)
                       /\ ~(n + 7 <= n) /\ (n + 1) - n = 1 /\ (n + 7) - n = 7
                       /\ n + 7 \in Nat \ {0}
    OBVIOUS
  <2>2. Len(rest) = 7
    BY <1>1
  <2>3. QED
    BY <1>5, <2>1, <2>2
<1>8. (first \o rest)[Len(first) + 1] = rest[1] /\ (first \o rest)[Len(first) + 7] = rest[7]
  BY <1>6, <1>7
<1>9. DOMAIN (first \o rest) = 1..(Len(first) + Len(rest))
  BY <1>6, LenProperties
<1>10. Len(first \o rest) \in Nat \ {0}
  BY <1>5, <1>6, <1>7
<1>11. QED
  BY <1>1, <1>4, <1>6, <1>7, <1>8, <1>9, <1>10

LifeInv ==
  /\ lArgv \in Seq(Tokens) /\ Len(lArgv) <= MaxTokens /\ lFits \in BOOLEAN
  /\ lStage \in Life!Stages /\ lSeam \in BOOLEAN
  /\ lServers \in [Life!Servers -> {"off", "starting", "up", "stopped"}]
  /\ lShutdown \in {"none", "stopping", "released"}
  /\ lExit \in {Life!Running, Life!Killed} \cup Life!Codes
  /\ Life!OnlyServeServes
  /\ IF lStage \in {"dispatch", "compose"} THEN lOwners = <<>>
     ELSE \E browser \in BOOLEAN : lOwners = Life!Owners(browser)
  /\ lShutdown # "none" => lStage \in Life!Handling
  /\ lShutdown = "released" =>
       /\ \A s \in Life!Servers : lServers[s] = "stopped"
       /\ lReleased = Life!Reverse(lOwners) /\ ~lSeam
  /\ lShutdown # "released" => lReleased = <<>>

LEMMA InitLifeInv == Life!Init => LifeInv
<1> SUFFICES ASSUME Life!Init PROVE LifeInv
  OBVIOUS
<1>1. PICK n \in 0..MaxTokens : lArgv \in [1..n -> Tokens]
  BY DEF Life!Init, Life!CommandLines
<1>2. n \in Nat /\ lArgv \in Seq(Tokens) /\ Len(lArgv) = n /\ n <= MaxTokens
  BY <1>1, RuntimeAssumption
<1>3. QED
  BY <1>2 DEF Life!Init, LifeInv, Life!Stages, Life!OnlyServeServes

LEMMA StepLifeInv ==
  ASSUME LifeInv, Life!Next \/ UNCHANGED Life!vars
  PROVE  LifeInv'
<1> USE DEF LifeInv, Life!Stages, Life!OnlyServeServes, Life!Handling
<1>1. CASE Life!Dispatch
  <2>1. CASE Life!Verdict(lArgv, lFits).to = "serve"
    <3>1. Life!AsksToServe(lArgv)
      BY <2>1, ServingIsAskedFor
    <3>2. QED
      BY <1>1, <2>1, <3>1 DEF Life!Dispatch
  <2>2. CASE Life!Verdict(lArgv, lFits).to # "serve"
    <3>1. \A code \in Life!Verdict(lArgv, lFits).code : code \in Life!Codes
      BY DEF Life!Verdict, Life!Runs, Life!Refusal, Life!Page, Life!Serve, Life!HelpFor,
             Life!CompletionFor, Life!Codes
    <3>2. QED
      BY <1>1, <2>2, <3>1 DEF Life!Dispatch
  <2>3. QED
    BY <2>1, <2>2
<1>2. CASE Life!Compose
  BY <1>2 DEF Life!Compose
<1>3. CASE Life!Prepare
  BY <1>3 DEF Life!Prepare
<1>4. CASE Life!ClusterStarted
  BY <1>4 DEF Life!ClusterStarted
<1>5. CASE Life!ServersUp \/ Life!BootTasksDone \/ Life!Reconciled \/ Life!Banner
  BY <1>5 DEF Life!ServersUp, Life!BootTasksDone, Life!Reconciled, Life!Banner
<1>6. CASE Life!BootFails
  BY <1>6 DEF Life!BootFails, Life!Codes
<1>7. CASE Life!Signal
  BY <1>7 DEF Life!Signal
<1>8. CASE Life!Dispose
  <2>1. PICK browser \in BOOLEAN : lOwners = Life!Owners(browser)
    BY <1>8 DEF Life!Dispose
  <2>2. ~lSeam'
    BY <1>8, <2>1, OwnersTold DEF Life!Dispose
  <2>3. QED
    BY <1>8, <2>2 DEF Life!Dispose
<1>9. CASE Life!ExitClean \/ Life!Deadline
  BY <1>9 DEF Life!ExitClean, Life!Deadline, Life!Codes
<1>10. ASSUME NEW s \in Life!Servers, Life!ServerUp(s) \/ Life!StopSettles(s) PROVE LifeInv'
  BY <1>10 DEF Life!ServerUp, Life!StopSettles
<1>11. CASE UNCHANGED Life!vars
  BY <1>11 DEF Life!vars
<1>12. QED
  BY <1>1, <1>2, <1>3, <1>4, <1>5, <1>6, <1>7, <1>8, <1>9, <1>10, <1>11 DEF Life!Next

LEMMA LifeInvariance == Spec => []LifeInv
<1>1. Init => LifeInv
  BY InitLifeInv DEF Init
<1>2. LifeInv /\ [Next]_vars => LifeInv'
  BY EachFamilySteps, StepLifeInv
<1>3. QED
  BY <1>1, <1>2, PTL DEF Spec

(* A daemon starts only where the command line asks for one, whatever its  *)
(* words and flags and however many (daemon/cli.ts,                        *)
(* cli/command-catalog.ts).                                                *)
THEOREM OnlyServingServes == Spec => []OnlyServeServes
<1>1. LifeInv => OnlyServeServes
  BY DEF LifeInv, OnlyServeServes
<1>2. QED
  BY <1>1, LifeInvariance, PTL

(* A shutdown that reports success has stopped both servers and released   *)
(* every owner, the newest first, wherever the signal met the boot         *)
(* (daemon/cli.ts, runtime/disposal-wiring.ts).                            *)
THEOREM ShutdownLeavesNothing == Spec => []ShutdownIsTotal
<1>1. ASSUME LifeInv PROVE ShutdownIsTotal
  <2> SUFFICES ASSUME lShutdown = "released"
               PROVE  lReleased # <<>> /\ lReleased[1] = "daemon handler surfaces"
    BY <1>1 DEF LifeInv, ShutdownIsTotal, Life!ShutdownIsTotal
  <2>1. PICK browser \in BOOLEAN : lOwners = Life!Owners(browser)
    BY <1>1 DEF LifeInv, Life!Handling
  <2>2. lReleased = [i \in 1..Len(lOwners) |-> lOwners[(Len(lOwners) - i) + 1]]
    BY <1>1 DEF LifeInv, Life!Reverse
  <2>3. Len(lOwners) \in Nat \ {0} /\ lOwners[Len(lOwners)] = "daemon handler surfaces"
    BY <2>1, OwnersTold
  <2>4. \A n \in Nat \ {0} : 1 \in 1..n /\ (n - 1) + 1 = n
    OBVIOUS
  <2>5. 1 \in 1..Len(lOwners) /\ (Len(lOwners) - 1) + 1 = Len(lOwners)
    BY <2>3, <2>4
  <2>6. 1 \in DOMAIN lReleased /\ lReleased[1] = lOwners[Len(lOwners)]
    BY <2>2, <2>5
  <2>7. DOMAIN <<>> = {}
    OBVIOUS
  <2>8. lReleased # <<>>
    BY <2>6, <2>7
  <2>9. QED
    BY <2>3, <2>6, <2>8
<1>2. QED
  BY <1>1, LifeInvariance, PTL

-----------------------------------------------------------------------------
(* A command to a running daemon.  A call that was accepted was acted on,  *)
(* and what exits without asking has asked nothing.                        *)
SocketCommands == {"list", "kill", "pair"}
CommandsShape ==
  /\ cAsk \in [command : Commands!Commands, remote : BOOLEAN, wellFormed : BOOLEAN, yes : BOOLEAN]
  /\ cHttp \in [Commands!Routes ->
                  Commands!Replies \cup {Commands!Unasked, Commands!Asked, Commands!Lost}]
  /\ cWs \in {"unasked", "connecting", "authing", "waiting"} \cup Commands!Outcomes
  /\ cLocal \in {"nothing", "unavailable", "uptime", "clean shutdown", "not recorded"}
  /\ cExit \in {0, 1, 2, Commands!Running}
Counted == cCalls \in Nat /\ cDid \in Nat /\ cCalls + cDid <= 2
Answers == cFrames \subseteq BOOLEAN
Acted == TRUE \in cFrames => cDid > 0
Heard == cWs = "data" => cDid > 0
Sent == cCalls + cDid > 0 => Commands!Started
OverTheSocket ==
  cAsk.command \in SocketCommands => \A r \in Commands!Routes : cHttp[r] = Commands!Unasked
NeedsConsent == cAsk.command = "pair" /\ (~cAsk.remote \/ ~cAsk.yes) => ~Commands!Started
ExitsWell(ask, ws, exit) ==
  exit = 0 => /\ ask.command = "kill" => ws = "data"
              /\ ask.command = "pair" /\ ask.remote /\ ask.yes => ws = "data"
Unstarted == cExit = 2 => ~Commands!Started
CommandsInv ==
  /\ CommandsShape /\ Counted /\ Answers /\ Acted /\ Heard /\ Sent
  /\ OverTheSocket /\ NeedsConsent /\ ExitsWell(cAsk, cWs, cExit) /\ Unstarted

LEMMA RepliesTold ==
  /\ Commands!Unasked \notin Commands!Replies /\ Commands!Asked \notin Commands!Replies
  /\ Commands!Lost \notin Commands!Replies /\ "identity" \in Commands!Routes
  /\ Commands!Asked # Commands!Unasked /\ Commands!Lost # Commands!Unasked
  /\ \A r \in Commands!Routes : Commands!Read(r, Commands!Unasked) = "refused"
BY DEF Commands!Unasked, Commands!Asked, Commands!Lost, Commands!State, Commands!Replies,
       Commands!Routes, Commands!Read

LEMMA InitCommandsInv == Commands!Init => CommandsInv
<1> SUFFICES ASSUME Commands!Init PROVE CommandsInv
  OBVIOUS
<1>1. CommandsShape
  BY DEF Commands!Init, CommandsShape
<1>2. Counted /\ Heard /\ ~Commands!Started /\ cExit = Commands!Running /\ cFrames = {}
  BY RepliesTold DEF Commands!Init, Counted, Heard, Commands!Started
<1>3. OverTheSocket
  BY DEF Commands!Init, OverTheSocket
<1>4. Sent
  BY DEF Commands!Init, Sent
<1>5. Answers /\ Acted
  BY <1>2, Zenon DEF Answers, Acted
<1>6. NeedsConsent /\ ExitsWell(cAsk, cWs, cExit) /\ Unstarted
  BY <1>2 DEF NeedsConsent, ExitsWell, Unstarted, Commands!Running
<1>7. QED
  BY <1>1, <1>2, <1>3, <1>4, <1>5, <1>6 DEF CommandsInv

(* The process exits.                                                      *)
LEMMA CommandExits ==
  ASSUME CommandsInv, NEW code \in {0, 1, 2}, Commands!Exits(code),
         code = 2 => ~Commands!Started, ExitsWell(cAsk, cWs, code)
  PROVE  CommandsInv'
<1>1. cExit' = code /\ UNCHANGED <<cAsk, cHttp, cWs, cCalls, cDid, cFrames, cLocal>>
  BY DEF Commands!Exits
<1>2. Commands!Started <=> Commands!Started'
  BY <1>1 DEF Commands!Started
<1>3. CommandsShape'
  BY <1>1 DEF CommandsInv, CommandsShape
<1>4. (Counted /\ Heard /\ Sent /\ OverTheSocket)'
  BY <1>1, <1>2 DEF CommandsInv, Counted, Heard, Sent, OverTheSocket
<1>5. Answers' /\ Acted'
  BY <1>1, Zenon DEF CommandsInv, Answers, Acted
<1>6. NeedsConsent' /\ Unstarted'
  BY <1>1, <1>2 DEF CommandsInv, NeedsConsent, Unstarted
<1>7. ExitsWell(cAsk', cWs', cExit')
  BY <1>1
<1>8. QED
  BY <1>3, <1>4, <1>5, <1>6, <1>7 DEF CommandsInv

(* The socket's call moves on, before the exit.                            *)
LEMMA CallMoves ==
  ASSUME CommandsInv, cExit = Commands!Running, cExit' = cExit, cAsk' = cAsk, cHttp' = cHttp,
         cDid' = cDid, cFrames' = cFrames, cLocal' = cLocal, cCalls' \in Nat, cCalls' + cDid <= 2,
         cWs' \in {"connecting", "authing", "waiting", "data", "refused"},
         cWs' = "data" => TRUE \in cFrames,
         cAsk.command = "pair" => cAsk.remote /\ cAsk.yes
  PROVE  CommandsInv'
<1>1. Commands!Started'
  BY DEF Commands!Started
<1>2. CommandsShape'
  BY DEF CommandsInv, CommandsShape, Commands!Outcomes
<1>3. Answers' /\ Acted' /\ (cWs' = "data" => cDid > 0)
  BY Zenon DEF CommandsInv, Answers, Acted
<1>4. Counted' /\ Heard' /\ Sent' /\ OverTheSocket'
  BY <1>1, <1>3 DEF CommandsInv, Counted, Heard, Sent, OverTheSocket
<1>5. NeedsConsent' /\ Unstarted' /\ ExitsWell(cAsk', cWs', cExit')
  BY DEF NeedsConsent, Unstarted, ExitsWell, Commands!Running
<1>6. QED
  BY <1>2, <1>3, <1>4, <1>5 DEF CommandsInv

(* A question is asked or answered over HTTP, with the socket where it was *)
(* or, of status, on its way.                                              *)
LEMMA QuestionMoves ==
  ASSUME CommandsInv, cExit' = cExit, cAsk' = cAsk, cCalls' = cCalls,
         cDid' = cDid, cFrames' = cFrames, cLocal' = cLocal, cExit = Commands!Running,
         cHttp' \in [Commands!Routes ->
                       Commands!Replies \cup {Commands!Unasked, Commands!Asked, Commands!Lost}],
         Commands!Started => Commands!Started', cWs' \in {cWs, "connecting", "refused"},
         cAsk.command \notin SocketCommands
  PROVE  CommandsInv'
<1>2. CommandsShape'
  BY DEF CommandsInv, CommandsShape, Commands!Outcomes
<1>3. Answers' /\ Acted'
  BY Zenon DEF CommandsInv, Answers, Acted
<1>4. Counted' /\ Heard' /\ Sent' /\ OverTheSocket'
  BY DEF CommandsInv, Counted, Heard, Sent, OverTheSocket
<1>5. NeedsConsent' /\ Unstarted' /\ ExitsWell(cAsk', cWs', cExit')
  BY DEF NeedsConsent, Unstarted, ExitsWell, Commands!Running, SocketCommands
<1>6. QED
  BY <1>2, <1>3, <1>4, <1>5 DEF CommandsInv

(* The daemon answers one call, and has done what it accepted.             *)
LEMMA OneDone ==
  ASSUME NEW calls \in Nat, NEW did \in Nat, calls + did <= 2, calls > 0,
         NEW now, now = calls - 1, NEW done, done \in {did, did + 1}
  PROVE  /\ now \in Nat /\ done \in Nat /\ now + done <= 2
         /\ (did > 0 => done > 0) /\ (done = did + 1 => done > 0)
OBVIOUS

LEMMA StepCommandsInv ==
  ASSUME CommandsInv, Commands!Next \/ UNCHANGED Commands!vars
  PROVE  CommandsInv'
<1>0. "identity" \in Commands!Routes /\ Counted /\ CommandsShape /\ NeedsConsent /\ OverTheSocket
  BY RepliesTold DEF CommandsInv
<1>1. CASE Commands!Next /\ Commands!Decides
  <2>0. cExit = Commands!Running
    BY <1>1 DEF Commands!Next
  <2>1. CASE Commands!UsageRefused
    BY <2>1, CommandExits DEF Commands!UsageRefused, ExitsWell
  <2>2. CASE Commands!Reprints
    <3>1. PICK code \in {0, 1} : Commands!Exits(code)
      BY <2>2 DEF Commands!Reprints
    <3>2. ExitsWell(cAsk, cWs, code)
      BY <2>2 DEF Commands!Reprints, Commands!AskIs, ExitsWell
    <3>3. QED
      BY <3>1, <3>2, CommandExits
  <2>3. CASE Commands!TargetUnresolved
    BY <2>3, CommandExits DEF Commands!TargetUnresolved, ExitsWell
  <2>4. CASE Commands!Plans
    <3>1. ExitsWell(cAsk, cWs, 0)
      BY <2>4 DEF Commands!Plans, Commands!AskIs, ExitsWell
    <3>2. QED
      BY <2>4, <3>1, CommandExits DEF Commands!Plans
  <2>5. CASE Commands!Connects
    <3>1. /\ cWs' \in {"connecting", "refused"} /\ cWs' # "data"
          /\ cAsk.command = "pair" => cAsk.remote /\ cAsk.yes
          /\ UNCHANGED <<cAsk, cHttp, cCalls, cDid, cFrames, cLocal, cExit>>
      BY <2>5 DEF Commands!Connects, Commands!Consented, Commands!Resolvable, Commands!AskIs
    <3>2. cCalls' \in Nat /\ cCalls' + cDid <= 2
      BY <1>0, <3>1 DEF Counted
    <3>3. QED
      BY <2>0, <3>1, <3>2, CallMoves
  <2>6. CASE Commands!AsksIdentity
    <3>1. /\ cHttp' = [cHttp EXCEPT !["identity"] = Commands!Asked]
          /\ cAsk.command \notin SocketCommands
          /\ UNCHANGED <<cAsk, cWs, cCalls, cDid, cFrames, cLocal, cExit>>
      BY <2>6 DEF Commands!AsksIdentity, Commands!AskIs, SocketCommands
    <3>2. cHttp'["identity"] # Commands!Unasked
          /\ cHttp' \in [Commands!Routes ->
                       Commands!Replies \cup {Commands!Unasked, Commands!Asked, Commands!Lost}]
      BY <1>0, <3>1, RepliesTold DEF CommandsShape
    <3>3. Commands!Started'
      BY <3>2 DEF Commands!Started
    <3>4. QED
      BY <2>0, <3>1, <3>2, <3>3, QuestionMoves
  <2>7. QED
    BY <1>1, <2>1, <2>2, <2>3, <2>4, <2>5, <2>6 DEF Commands!Decides
<1>2. CASE Commands!Next /\ Commands!SocketGoes
  <2>0. cExit = Commands!Running
    BY <1>2 DEF Commands!Next
  <2>1. PICK outcome \in {"authing", "waiting", "data", "refused"} :
          /\ Commands!Settle(outcome) /\ cFrames' = cFrames
          /\ outcome = "data" => TRUE \in cFrames
          /\ cWs # "unasked"
          /\ cCalls' = cCalls \/ (cCalls + cDid < 2 /\ cCalls' = cCalls + 1)
    <3>1. CASE Commands!Opened
      BY <3>1, Zenon DEF Commands!Opened
    <3>2. CASE Commands!AuthAccepted
      BY <3>2, Zenon DEF Commands!AuthAccepted
    <3>3. CASE Commands!AuthRefused
      BY <3>3, Zenon DEF Commands!AuthRefused
    <3>4. CASE Commands!Response
      <4>1. PICK frame \in BOOLEAN :
              frame \in cFrames /\ Commands!Settle(IF frame THEN "data" ELSE "refused")
        BY <3>4 DEF Commands!Response, Commands!MyResponse
      <4>2. cWs = "waiting" /\ UNCHANGED <<cCalls, cFrames>>
        BY <3>4 DEF Commands!Response
      <4>3. CASE frame = TRUE
        BY <4>1, <4>2, <4>3, Zenon
      <4>4. CASE frame = FALSE
        BY <4>1, <4>2, <4>4, Zenon
      <4>5. QED
        BY <4>3, <4>4
    <3>5. CASE Commands!Breaks \/ Commands!TimesOut
      BY <3>5, Zenon DEF Commands!Breaks, Commands!TimesOut, Commands!Pending
    <3>6. QED
      BY <1>2, <3>1, <3>2, <3>3, <3>4, <3>5 DEF Commands!SocketGoes
  <2>2. cWs' = outcome /\ UNCHANGED <<cAsk, cHttp, cDid, cLocal, cExit>>
    BY <2>1 DEF Commands!Settle
  <2>3. cCalls' \in Nat /\ cCalls' + cDid <= 2
    BY <1>0, <2>1 DEF Counted
  <2>4. cAsk.command = "pair" => cAsk.remote /\ cAsk.yes
    BY <1>0, <2>1 DEF NeedsConsent, Commands!Started
  <2>5. cWs' = "data" => TRUE \in cFrames
    BY <2>1, <2>2, Zenon
  <2>6. cWs' \in {"connecting", "authing", "waiting", "data", "refused"}
    BY <2>1, <2>2
  <2>7. QED
    BY <2>0, <2>1, <2>2, <2>3, <2>4, <2>5, <2>6, CallMoves
<1>3. CASE Commands!Next /\ Commands!DaemonActs
  <2>1. PICK accepts \in BOOLEAN : /\ cDid' = (IF accepts THEN cDid + 1 ELSE cDid)
                                   /\ cFrames' = cFrames \cup {accepts}
    BY <1>3 DEF Commands!DaemonActs
  <2>2. cCalls > 0 /\ cCalls' = cCalls - 1 /\ UNCHANGED <<cAsk, cHttp, cWs, cLocal, cExit>>
    BY <1>3 DEF Commands!DaemonActs
  <2>3. cDid' \in {cDid, cDid + 1}
    BY <2>1, Zenon
  <2>c. accepts => cDid' = cDid + 1
    BY <2>1, Zenon
  <2>4. Commands!Started /\ (Commands!Started <=> Commands!Started')
    BY <1>0, <2>2 DEF CommandsInv, Counted, Sent, Commands!Started
  <2>d. cCalls \in Nat /\ cDid \in Nat /\ cCalls + cDid <= 2
    BY <1>0 DEF Counted
  <2>e. cCalls' = cCalls - 1 /\ cCalls > 0
    BY <2>2
  <2>f. /\ cCalls' \in Nat /\ cDid' \in Nat /\ cCalls' + cDid' <= 2
        /\ (cDid > 0 => cDid' > 0) /\ (cDid' = cDid + 1 => cDid' > 0)
    BY <2>3, <2>d, <2>e, OneDone
  <2>5. Counted' /\ (cDid > 0 => cDid' > 0) /\ (cDid' = cDid + 1 => cDid' > 0)
    BY <2>f DEF Counted
  <2>a. Heard'
    BY <2>2, <2>5 DEF CommandsInv, Heard
  <2>b. accepts => cDid' > 0
    BY <2>c, <2>5, Zenon
  <2>6. Answers' /\ Acted'
    BY <2>1, <2>5, <2>b, Zenon DEF CommandsInv, Answers, Acted
  <2>7. CommandsShape' /\ OverTheSocket'
    BY <1>0, <2>2 DEF CommandsShape, OverTheSocket
  <2>8. (Sent /\ NeedsConsent /\ Unstarted)' /\ ExitsWell(cAsk', cWs', cExit')
    BY <2>2, <2>4 DEF CommandsInv, Sent, NeedsConsent, Unstarted
  <2>9. QED
    BY <2>5, <2>6, <2>7, <2>8, <2>a DEF CommandsInv
<1>4. CASE Commands!Next /\ Commands!CallEnds
  <2>1. PICK code \in {0, 1} : Commands!Exits(code) /\ (code = 0 => cWs = "data")
    BY <1>4 DEF Commands!CallEnds
  <2>2. ExitsWell(cAsk, cWs, code)
    BY <2>1 DEF ExitsWell
  <2>3. QED
    BY <2>1, <2>2, CommandExits
<1>5. ASSUME Commands!Next, NEW route \in Commands!Routes, Commands!Answered(route) PROVE CommandsInv'
  <2>1. PICK reply \in Commands!Replies \cup {Commands!Lost} :
          cHttp' = [cHttp EXCEPT ![route] = reply]
    BY <1>5 DEF Commands!Answered
  <2>2. /\ cHttp[route] = Commands!Asked /\ cExit = Commands!Running
        /\ UNCHANGED <<cAsk, cWs, cCalls, cDid, cFrames, cLocal, cExit>>
    BY <1>5 DEF Commands!Answered, Commands!Next
  <2>3. cAsk.command \notin SocketCommands
    BY <1>0, <2>2, RepliesTold DEF OverTheSocket
  <2>4. cHttp' \in [Commands!Routes ->
                       Commands!Replies \cup {Commands!Unasked, Commands!Asked, Commands!Lost}]
    BY <1>0, <2>1 DEF CommandsShape
  <2>5. Commands!Started => Commands!Started'
    BY <1>0, <2>1, <2>2, RepliesTold DEF CommandsShape, Commands!Started
  <2>6. QED
    BY <2>2, <2>3, <2>4, <2>5, QuestionMoves
<1>6. CASE Commands!Next /\ Commands!IdentityRefused
  BY <1>6, CommandExits DEF Commands!IdentityRefused, ExitsWell
<1>7. CASE Commands!Next /\ Commands!AsksTheRest
  <2>1. /\ cHttp' = [r \in Commands!Routes |-> IF r = "identity" THEN cHttp[r] ELSE Commands!Asked]
        /\ cWs' \in {"connecting", "refused"} /\ cAsk.command \notin SocketCommands
        /\ UNCHANGED <<cAsk, cCalls, cDid, cFrames, cLocal, cExit>>
        /\ cExit = Commands!Running
    BY <1>7 DEF Commands!AsksTheRest, Commands!AskIs, Commands!Next, SocketCommands
  <2>2. cHttp["identity"] # Commands!Unasked
    BY <1>0, <1>7, RepliesTold DEF Commands!AsksTheRest, Commands!Tells
  <2>3. /\ cHttp' \in [Commands!Routes -> Commands!Replies
                         \cup {Commands!Unasked, Commands!Asked, Commands!Lost}]
        /\ cHttp'["identity"] # Commands!Unasked
    BY <1>0, <2>1, <2>2 DEF CommandsShape
  <2>4. Commands!Started'
    BY <2>3 DEF Commands!Started
  <2>5. QED
    BY <2>1, <2>3, <2>4, QuestionMoves
<1>8. CASE Commands!Next /\ Commands!Reports
  <2>1. cAsk.command \notin SocketCommands
    BY <1>0, <1>8, RepliesTold DEF Commands!Reports, Commands!Tells, OverTheSocket
  <2>2. cExit' = 0 /\ UNCHANGED <<cAsk, cHttp, cWs, cCalls, cDid, cFrames>>
        /\ cLocal' \in {"nothing", "unavailable", "uptime", "clean shutdown", "not recorded"}
    BY <1>8 DEF Commands!Reports, Commands!LocalState
  <2>3. CommandsShape' /\ Counted' /\ Heard' /\ OverTheSocket'
    BY <1>0, <2>2 DEF CommandsInv, CommandsShape, Counted, Heard, OverTheSocket
  <2>4. Answers' /\ Acted'
    BY <2>2, Zenon DEF CommandsInv, Answers, Acted
  <2>a. Commands!Started <=> Commands!Started'
    BY <2>2 DEF Commands!Started
  <2>b. Sent' /\ NeedsConsent'
    BY <2>2, <2>a DEF CommandsInv, Sent, NeedsConsent
  <2>e. cExit' = 0
    BY <2>2
  <2>c. Unstarted'
    BY <2>e DEF Unstarted
  <2>d. ExitsWell(cAsk', cWs', cExit')
    BY <2>1, <2>2 DEF ExitsWell, SocketCommands
  <2>6. QED
    BY <2>3, <2>4, <2>b, <2>c, <2>d DEF CommandsInv
<1>9. CASE UNCHANGED Commands!vars
  <2>1. UNCHANGED <<cAsk, cHttp, cWs, cCalls, cDid, cFrames, cLocal, cExit>>
    BY <1>9 DEF Commands!vars
  <2>2. CommandsShape' /\ Counted' /\ Heard' /\ OverTheSocket'
    BY <2>1 DEF CommandsInv, CommandsShape, Counted, Heard, OverTheSocket
  <2>3. Answers' /\ Acted'
    BY <2>1, Zenon DEF CommandsInv, Answers, Acted
  <2>4. (Sent /\ NeedsConsent /\ Unstarted)' /\ ExitsWell(cAsk', cWs', cExit')
    BY <2>1 DEF CommandsInv, Sent, NeedsConsent, Unstarted, Commands!Started
  <2>5. QED
    BY <2>2, <2>3, <2>4 DEF CommandsInv
<1>10. QED
  BY <1>1, <1>2, <1>3, <1>4, <1>5, <1>6, <1>7, <1>8, <1>9 DEF Commands!Next

(* What a command reports, by exit code or on a line, is what happened and *)
(* what was answered, whatever questions it asks                           *)
(* (daemon/status-command.ts, pair-command.ts, sessions-command.ts,        *)
(* cluster/).                                                              *)
THEOREM CommandsReportTheTruth == Spec => []CommandsTellTheTruth
<1>1. Init => CommandsInv
  BY InitCommandsInv DEF Init
<1>2. CommandsInv /\ [Next]_vars => CommandsInv'
  BY EachFamilySteps, StepCommandsInv
<1>3. ASSUME CommandsInv PROVE CommandsTellTheTruth
  <2>1. Commands!ExitSaysWhatWasDone
    <3>1. Counted /\ Heard /\ Sent /\ NeedsConsent /\ Unstarted /\ ExitsWell(cAsk, cWs, cExit)
      BY <1>3 DEF CommandsInv
    <3>2. QED
      BY <3>1 DEF Commands!ExitSaysWhatWasDone, Commands!AskIs, Counted, Heard, Sent,
                  NeedsConsent, Unstarted, ExitsWell
  <2>2. Commands!ReportedIsAnswered
    <3> SUFFICES ASSUME NEW r \in Commands!Routes, Commands!Tells(r)
                 PROVE  /\ cHttp[r].status \in {200, 502} /\ cHttp[r].body # "junk"
                        /\ IF Commands!Envelope(r) = "raw" THEN cHttp[r].status = 200
                           ELSE cHttp[r].body = "wrapped"
      BY DEF Commands!ReportedIsAnswered
    <3>1. cHttp[r] \in Commands!Replies
      BY <1>3 DEF CommandsInv, CommandsShape, Commands!Tells, Commands!Read
    <3>2. CASE Commands!Envelope(r) = "raw"
      BY <3>1, <3>2 DEF Commands!Tells, Commands!Read, Commands!SharedReader, Commands!Restated,
                        Commands!Replies
    <3>3. CASE Commands!Envelope(r) # "raw"
      BY <3>1, <3>3 DEF Commands!Tells, Commands!Read, Commands!SharedReader, Commands!Replies
    <3>4. QED
      BY <3>2, <3>3
  <2>3. QED
    BY <2>1, <2>2 DEF CommandsTellTheTruth
<1>4. QED
  BY <1>1, <1>2, <1>3, PTL DEF Spec

-----------------------------------------------------------------------------
(* The trust of a workspace.  What is on file, and what a manager holds,   *)
(* somebody said.                                                          *)
DecisionsSaid == {tFile} \cup {tLevel[g] : g \in Gates} \subseteq tSaid \cup {"none"}

(* Whoever got past the gate to write, a trusted workspace let past.       *)
PastTheGate ==
  \A a \in Asks : tAsk[a].step \in {"raised", "granted"} /\ ~tAsk[a].reads => "trusted" \in tSaid

(* An ask that is being decided, its manager has read the file for.        *)
ReadFirst == \A a \in Asks : tAsk[a].step = "loaded" => tAsk[a].gate \in tLoaded

(* A decision on file when the process started is in every manager that    *)
(* has read the file since, and nobody is asked.                           *)
Inherited ==
  tInherited => /\ tFile # "none" /\ \A g \in tLoaded : tLevel[g] # "none"
                /\ \A a \in Asks : tAsk[a].step # "asking"

TrustInv == Trust!TypeOK /\ DecisionsSaid /\ PastTheGate /\ ReadFirst /\ Inherited

LEMMA NotAskedIsAnAsk ==
  /\ Trust!NotAsked \in [gate : Gates, reads : BOOLEAN, step : Trust!Steps]
  /\ Trust!NotAsked.step = "unasked"
<1>1. (CHOOSE g \in Gates : TRUE) \in Gates
  BY RuntimeAssumption
<1>2. QED
  BY <1>1 DEF Trust!NotAsked, Trust!Steps

LEMMA InitTrustInv == Trust!Init => TrustInv
<1> SUFFICES ASSUME Trust!Init PROVE TrustInv
  OBVIOUS
<1>1. Trust!TypeOK
  BY NotAskedIsAnAsk DEF Trust!Init, Trust!TypeOK, Trust!Levels
<1>2. \A a \in Asks : tAsk[a].step = "unasked"
  BY NotAskedIsAnAsk DEF Trust!Init
<1>3. DecisionsSaid
  BY DEF Trust!Init, DecisionsSaid
<1>4. PastTheGate /\ ReadFirst
  BY <1>2 DEF PastTheGate, ReadFirst
<1>5. Inherited
  BY DEF Trust!Init, Inherited
<1>6. QED
  BY <1>1, <1>3, <1>4, <1>5 DEF TrustInv

(* One ask moves on and nothing else does.                                 *)
LEMMA OneAskMoves ==
  ASSUME TrustInv, NEW a \in Asks, NEW step \in Trust!Steps, Trust!Moves(a, step),
         UNCHANGED <<tFile, tLevel, tLoaded, tSaid, tInherited>>,
         step # "loaded", step = "asking" => ~tInherited,
         step \in {"raised", "granted"} /\ ~tAsk[a].reads => "trusted" \in tSaid
  PROVE  TrustInv'
<1>1. tAsk \in [Asks -> [gate : Gates, reads : BOOLEAN, step : Trust!Steps]]
  BY DEF TrustInv, Trust!TypeOK
<1>2. /\ tAsk' \in [Asks -> [gate : Gates, reads : BOOLEAN, step : Trust!Steps]]
      /\ tAsk'[a].step = step /\ tAsk'[a].reads = tAsk[a].reads
      /\ \A b \in Asks : b # a => tAsk'[b] = tAsk[b]
  BY <1>1 DEF Trust!Moves
<1>3. Trust!TypeOK'
  BY <1>2 DEF TrustInv, Trust!TypeOK
<1>4. DecisionsSaid'
  BY DEF TrustInv, DecisionsSaid
<1>5. PastTheGate'
  BY <1>2, Zenon DEF TrustInv, PastTheGate
<1>6. ReadFirst'
  BY <1>2, Zenon DEF TrustInv, ReadFirst
<1>7. Inherited'
  BY <1>2, Zenon DEF TrustInv, Inherited
<1>8. QED
  BY <1>3, <1>4, <1>5, <1>6, <1>7 DEF TrustInv

LEMMA StepTrustInv == TrustInv /\ (Trust!Next \/ UNCHANGED Trust!vars) => TrustInv'
<1> SUFFICES ASSUME TrustInv, Trust!Next \/ UNCHANGED Trust!vars PROVE TrustInv'
  OBVIOUS
<1>0. /\ tAsk \in [Asks -> [gate : Gates, reads : BOOLEAN, step : Trust!Steps]]
      /\ tLevel \in [Gates -> Trust!Levels] /\ tFile \in Trust!Levels /\ tLoaded \subseteq Gates
      /\ tSaid \subseteq Trust!Levels \ {"none"} /\ tInherited \in BOOLEAN
  BY DEF TrustInv, Trust!TypeOK
<1>a. Trust!Steps = {"unasked", "loading", "loaded", "asking", "raised", "granted", "refused"}
  BY DEF Trust!Steps
<1>1. ASSUME NEW a \in Asks, Trust!Asked(a) PROVE TrustInv'
  <2>1. PICK g \in Gates : \E reads \in BOOLEAN :
          tAsk' = [tAsk EXCEPT ![a] = [gate |-> g, reads |-> reads, step |-> "loading"]]
    BY <1>1 DEF Trust!Asked, Trust!AtFirst
  <2>2. PICK reads \in BOOLEAN :
          tAsk' = [tAsk EXCEPT ![a] = [gate |-> g, reads |-> reads, step |-> "loading"]]
    BY <2>1
  <2>3. UNCHANGED <<tFile, tLevel, tLoaded, tSaid, tInherited>>
    BY <1>1 DEF Trust!Asked
  <2>4. /\ tAsk' \in [Asks -> [gate : Gates, reads : BOOLEAN, step : Trust!Steps]]
        /\ tAsk'[a].step = "loading" /\ \A b \in Asks : b # a => tAsk'[b] = tAsk[b]
    BY <1>0, <1>a, <2>2
  <2>5. Trust!TypeOK'
    BY <2>3, <2>4 DEF TrustInv, Trust!TypeOK
  <2>6. PastTheGate' /\ ReadFirst' /\ Inherited'
    BY <2>3, <2>4, Zenon DEF TrustInv, PastTheGate, ReadFirst, Inherited
  <2>7. DecisionsSaid'
    BY <2>3 DEF TrustInv, DecisionsSaid
  <2>8. QED
    BY <2>5, <2>6, <2>7 DEF TrustInv
<1>2. ASSUME NEW a \in Asks, Trust!Load(a) PROVE TrustInv'
  <2> DEFINE g == tAsk[a].gate
             read == IF g \in tLoaded THEN tLevel[g] ELSE tFile
  <2>1. g \in Gates /\ read \in Trust!Levels
    BY <1>0
  <2>2. /\ tLevel' = [tLevel EXCEPT ![g] = read] /\ tLoaded' = tLoaded \cup {g}
        /\ UNCHANGED <<tFile, tSaid, tInherited>>
    BY <1>2 DEF Trust!Load, Trust!Gate
  <2>3. /\ tAsk' \in [Asks -> [gate : Gates, reads : BOOLEAN, step : Trust!Steps]]
        /\ tAsk'[a].step = "loaded" /\ tAsk'[a].gate = g
        /\ \A b \in Asks : b # a => tAsk'[b] = tAsk[b]
    BY <1>0, <1>2, <1>a DEF Trust!Load, Trust!Moves
  <2>4. read \in tSaid \cup {"none"}
    BY <2>1 DEF TrustInv, DecisionsSaid
  <2>5. tInherited => read # "none"
    BY DEF TrustInv, Inherited
  <2>6. /\ tLevel' \in [Gates -> Trust!Levels] /\ tLevel'[g] = read
        /\ \A h \in Gates : h # g => tLevel'[h] = tLevel[h]
    BY <1>0, <2>1, <2>2
  <2> HIDE DEF g, read
  <2>7. Trust!TypeOK'
    BY <1>0, <2>1, <2>2, <2>3, <2>6 DEF Trust!TypeOK
  <2>8. DecisionsSaid'
    BY <2>1, <2>2, <2>4, <2>6 DEF TrustInv, DecisionsSaid
  <2>9. PastTheGate'
    BY <2>2, <2>3, Zenon DEF TrustInv, PastTheGate
  <2>10. ReadFirst'
    <3> SUFFICES ASSUME NEW b \in Asks, tAsk'[b].step = "loaded" PROVE tAsk'[b].gate \in tLoaded'
      BY Zenon DEF ReadFirst
    <3>1. CASE b = a
      BY <2>2, <2>3, <3>1
    <3>2. CASE b # a
      BY <2>2, <2>3, <3>2 DEF TrustInv, ReadFirst
    <3>3. QED
      BY <3>1, <3>2
  <2>11. Inherited'
    BY <1>0, <2>1, <2>2, <2>3, <2>5, <2>6 DEF TrustInv, Inherited
  <2>12. QED
    BY <2>7, <2>8, <2>9, <2>10, <2>11 DEF TrustInv
<1>3. ASSUME NEW a \in Asks, Trust!Consults(a) PROVE TrustInv'
  <2> DEFINE g == tAsk[a].gate
             step == IF tAsk[a].reads \/ tLevel[g] = "trusted" THEN "raised"
                     ELSE IF tLevel[g] = "restricted" THEN "refused" ELSE "asking"
  <2>1. g \in tLoaded /\ g \in Gates /\ tLevel[g] \in Trust!Levels
    BY <1>0, <1>3 DEF TrustInv, ReadFirst, Trust!Consults
  <2>2. step \in Trust!Steps /\ step # "loaded" /\ step # "granted"
    BY <1>a
  <2>3. step = "asking" => ~tInherited
    BY <2>1 DEF TrustInv, Inherited, Trust!Levels
  <2>4. step \in {"raised", "granted"} /\ ~tAsk[a].reads => "trusted" \in tSaid
    BY <2>1, <2>2 DEF TrustInv, DecisionsSaid
  <2>5. Trust!Moves(a, step) /\ UNCHANGED <<tFile, tLevel, tLoaded, tSaid, tInherited>>
    BY <1>3 DEF Trust!Consults, Trust!Gate
  <2> HIDE DEF step
  <2>6. QED
    BY <2>2, <2>3, <2>4, <2>5, OneAskMoves
<1>4. ASSUME NEW a \in Asks, Trust!Decided(a) PROVE TrustInv'
  <2> DEFINE g == tAsk[a].gate
  <2>1. PICK decision \in {"trusted", "restricted"} :
          /\ tLevel' = [tLevel EXCEPT ![g] = decision]
          /\ tFile' = decision /\ tSaid' = tSaid \cup {decision}
          /\ Trust!Moves(a, IF decision = "trusted" THEN "raised" ELSE "refused")
    BY <1>4 DEF Trust!Decided, Trust!Gate
  <2>2. tLoaded' = tLoaded /\ tInherited' = tInherited
    BY <1>4 DEF Trust!Decided
  <2>3. ~tInherited
    BY <1>4, Zenon DEF TrustInv, Inherited, Trust!Decided
  <2>4. g \in Gates
    BY <1>0
  <2>5. /\ tAsk' \in [Asks -> [gate : Gates, reads : BOOLEAN, step : Trust!Steps]]
        /\ tAsk'[a].step = (IF decision = "trusted" THEN "raised" ELSE "refused")
        /\ \A b \in Asks : b # a => tAsk'[b] = tAsk[b]
    BY <1>0, <2>1, <1>a DEF Trust!Moves
  <2> HIDE DEF g
  <2>6. Trust!TypeOK'
    BY <1>0, <2>1, <2>2, <2>4, <2>5 DEF Trust!TypeOK, Trust!Levels
  <2>7. DecisionsSaid'
    BY <1>0, <2>1, <2>4 DEF TrustInv, DecisionsSaid
  <2>8. PastTheGate'
    <3> SUFFICES ASSUME NEW b \in Asks, tAsk'[b].step \in {"raised", "granted"}, ~tAsk'[b].reads
                 PROVE  "trusted" \in tSaid'
      BY Zenon DEF PastTheGate
    <3>1. CASE b = a
      BY <2>1, <2>5, <3>1
    <3>2. CASE b # a
      BY <2>1, <2>5, <3>2 DEF TrustInv, PastTheGate
    <3>3. QED
      BY <3>1, <3>2
  <2>9. tAsk'[a].step # "loaded"
    BY <2>5
  <2>10. ReadFirst'
    BY <2>2, <2>5, <2>9, Zenon DEF TrustInv, ReadFirst
  <2>11. Inherited'
    BY <2>2, <2>3, Zenon DEF Inherited
  <2>12. QED
    BY <2>6, <2>7, <2>8, <2>10, <2>11 DEF TrustInv
<1>5. ASSUME NEW a \in Asks, Trust!Unanswered(a) PROVE TrustInv'
  BY <1>5, <1>a, OneAskMoves DEF Trust!Unanswered
<1>6. ASSUME NEW a \in Asks, Trust!Answered(a) PROVE TrustInv'
  <2>1. PICK verdict \in {"granted", "refused"} : Trust!Moves(a, verdict)
    BY <1>6 DEF Trust!Answered
  <2>2. tAsk[a].step = "raised" /\ UNCHANGED <<tFile, tLevel, tLoaded, tSaid, tInherited>>
    BY <1>6 DEF Trust!Answered
  <2>3. ~tAsk[a].reads => "trusted" \in tSaid
    BY <2>2, Zenon DEF TrustInv, PastTheGate
  <2>4. QED
    BY <1>a, <2>1, <2>2, <2>3, OneAskMoves
<1>7. CASE Trust!TerminalDecides
  <2>1. PICK decision \in Trust!Levels \ {"none"} : tFile' = decision /\ tSaid' = tSaid \cup {decision}
    BY <1>7 DEF Trust!TerminalDecides
  <2>2. UNCHANGED <<tLevel, tLoaded, tAsk, tInherited>>
    BY <1>7 DEF Trust!TerminalDecides
  <2>3. Trust!TypeOK'
    BY <1>0, <2>1, <2>2 DEF TrustInv, Trust!TypeOK
  <2>4. DecisionsSaid'
    BY <2>1, <2>2 DEF TrustInv, DecisionsSaid
  <2>5. PastTheGate'
    BY <2>1, <2>2 DEF TrustInv, PastTheGate
  <2>6. ReadFirst' /\ Inherited'
    BY <2>1, <2>2 DEF TrustInv, ReadFirst, Inherited
  <2>7. QED
    BY <2>3, <2>4, <2>5, <2>6 DEF TrustInv
<1>8. CASE Trust!Restart
  <2>1. /\ tLevel' = [g \in Gates |-> "none"] /\ tLoaded' = {}
        /\ tAsk' = [a \in Asks |-> Trust!NotAsked] /\ tInherited' = (tFile # "none")
        /\ UNCHANGED <<tFile, tSaid>>
    BY <1>8 DEF Trust!Restart
  <2>2. \A a \in Asks : tAsk'[a].step = "unasked"
    BY <2>1, NotAskedIsAnAsk
  <2>3. /\ tAsk' \in [Asks -> [gate : Gates, reads : BOOLEAN, step : Trust!Steps]]
        /\ tLevel' \in [Gates -> Trust!Levels] /\ tInherited' \in BOOLEAN
    BY <2>1, NotAskedIsAnAsk DEF Trust!Levels
  <2>4. Trust!TypeOK'
    BY <1>0, <2>1, <2>3 DEF Trust!TypeOK
  <2>5. DecisionsSaid'
    BY <2>1 DEF TrustInv, DecisionsSaid
  <2>6. PastTheGate' /\ ReadFirst'
    BY <2>2 DEF PastTheGate, ReadFirst
  <2>7. Inherited'
    BY <2>1, <2>2 DEF Inherited
  <2>8. QED
    BY <2>4, <2>5, <2>6, <2>7 DEF TrustInv
<1>9. CASE UNCHANGED Trust!vars
  <2>1. UNCHANGED <<tFile, tLevel, tLoaded, tAsk, tSaid, tInherited>>
    BY <1>9 DEF Trust!vars
  <2>2. Trust!TypeOK' /\ DecisionsSaid'
    BY <2>1 DEF TrustInv, Trust!TypeOK, DecisionsSaid
  <2>3. PastTheGate' /\ ReadFirst' /\ Inherited'
    BY <2>1 DEF TrustInv, PastTheGate, ReadFirst, Inherited
  <2>4. QED
    BY <2>2, <2>3 DEF TrustInv
<1>10. QED
  BY <1>1, <1>2, <1>3, <1>4, <1>5, <1>6, <1>7, <1>8, <1>9 DEF Trust!Next

-----------------------------------------------------------------------------
(* Workspace checkpoints.                                                  *)
LEMMA StepFiles ==
  ASSUME Files!TypeOK, Files!Next \/ UNCHANGED Files!vars
  PROVE  /\ Files!TypeOK'
         /\ \A c \in Calls : wCall[c] = "unasked" /\ wCall'[c] = "asked"
              => wRegistered = "eligible" \/ wGuarded
<1> USE DEF Files!TypeOK
<1>1. CASE Files!Reregistered
  BY <1>1 DEF Files!Reregistered
<1>2. CASE Files!ManagerInit
  BY <1>2 DEF Files!ManagerInit
<1>3. ASSUME NEW c \in Calls, NEW refusal \in {"null", "thrown"}, Files!Takes(c, refusal)
      PROVE  /\ Files!TypeOK'
             /\ \A d \in Calls : wCall[d] = "unasked" /\ wCall'[d] = "asked"
                  => wRegistered = "eligible" \/ wGuarded
  BY <1>3 DEF Files!Takes, Files!CurrentlyAllowed, Files!Covered
<1>4. ASSUME NEW c \in Calls, Files!Create(c)
      PROVE  /\ Files!TypeOK'
             /\ \A d \in Calls : wCall[d] = "unasked" /\ wCall'[d] = "asked"
                  => wRegistered = "eligible" \/ wGuarded
  BY <1>4 DEF Files!Create
<1>5. CASE UNCHANGED Files!vars
  BY <1>5 DEF Files!vars
<1>6. QED
  BY <1>1, <1>2, <1>3, <1>4, <1>5 DEF Files!Next, Files!Automatic, Files!Explicit

LEMMA InitFiles == Files!Init => Files!TypeOK
  BY DEF Files!Init, Files!TypeOK, Files!Records

(* Whatever the managers, the asks and the restarts, what a workspace is   *)
(* trusted for somebody decided, and a decision that was on file is never  *)
(* asked for again; and a checkpoint is taken only of a workspace that is  *)
(* on record for it then (runtime/trust,                                   *)
(* runtime/workspace-checkpointing.ts).                                    *)
THEOREM WorkspacesAreDecided == Spec => WorkspaceDecisionsStand
<1>1. Init => TrustInv /\ Files!TypeOK
  BY InitTrustInv, InitFiles DEF Init
<1>2. (TrustInv /\ Files!TypeOK) /\ [Next]_vars => (TrustInv /\ Files!TypeOK)'
  BY EachFamilySteps, StepTrustInv, StepFiles
<1>3. TrustInv => Trust!SomebodyDecided /\ Trust!NeverAskedAgain
  BY DEF TrustInv, DecisionsSaid, PastTheGate, Inherited, Trust!SomebodyDecided,
         Trust!NeverAskedAgain
<1>4. Files!TypeOK /\ [Next]_vars =>
        [\A c \in Calls : wCall[c] = "unasked" /\ wCall'[c] = "asked"
           => wRegistered = "eligible" \/ wGuarded]_(Files!vars)
  BY EachFamilySteps, StepFiles
<1>5. QED
  BY <1>1, <1>2, <1>3, <1>4, PTL DEF Spec, WorkspaceDecisionsStand, Files!TakenOnlyIfEligible

-----------------------------------------------------------------------------
(* The operator's commands.  What a key may hold.                          *)
Addresses == Channels \X {"enabled", "destination", "capabilities"}

LEMMA WebKeysHold ==
  /\ Operator!Values(Operator!Web("bundleDir")) = {"", "b1", "b2"}
  /\ Operator!Values(Operator!Web("serve")) = {"off", "on"}
  /\ Operator!Values(Operator!Web("enabled")) = {"off", "on"}
  /\ Operator!Values(Operator!Web("controlPlane")) = {"local", "network"}
  /\ Operator!Values(Operator!Web("web")) = {"local", "network"}
  /\ Operator!Values(Operator!Web("publicBaseUrl"))
       = {"shipped", "chosen", "this machine", "the network"}
BY DEF Operator!Values, Operator!Web, Operator!Origins

LEMMA ChannelKeysHold ==
  ASSUME NEW c \in Channels
  PROVE  /\ Operator!Values(<<c, "destination">>) = {"", "configured"}
         /\ Operator!Values(<<c, "enabled">>) = {"off", "on"}
         /\ Operator!Values(<<c, "capabilities">>) = {"off", "on"}
         /\ {<<c, "destination">>, <<c, "enabled">>, <<c, "capabilities">>} \subseteq Operator!Keys
BY DEF Operator!Values, Operator!Web, Operator!Keys

LEMMA KeysAre ==
  ASSUME NEW key \in Operator!Keys
  PROVE  \/ key \in Operator!WebKeys
         \/ \E c \in Channels : key \in {<<c, "destination">>, <<c, "enabled">>, <<c, "capabilities">>}
BY DEF Operator!Keys

LEMMA WebKeysShip ==
  /\ Operator!Shipped(Operator!Web("bundleDir")) = ""
  /\ Operator!Shipped(Operator!Web("serve")) = "off"
  /\ Operator!Shipped(Operator!Web("enabled")) = "off"
  /\ Operator!Shipped(Operator!Web("controlPlane")) = "local"
  /\ Operator!Shipped(Operator!Web("web")) = "local"
  /\ Operator!Shipped(Operator!Web("publicBaseUrl")) = "shipped"
BY DEF Operator!Shipped, Operator!Web

LEMMA ChannelKeysShip ==
  ASSUME NEW c \in Channels
  PROVE  /\ Operator!Shipped(<<c, "destination">>) = ""
         /\ Operator!Shipped(<<c, "enabled">>) = "off"
         /\ Operator!Shipped(<<c, "capabilities">>) = "on"
BY DEF Operator!Shipped, Operator!Web

LEMMA ShippedIsAllowed ==
  ASSUME NEW key \in Operator!Keys PROVE Operator!Shipped(key) \in Operator!Values(key)
<1>1. CASE key \in Operator!WebKeys
  <2>1. \/ key = Operator!Web("bundleDir") \/ key = Operator!Web("serve")
        \/ key = Operator!Web("enabled") \/ key = Operator!Web("controlPlane")
        \/ key = Operator!Web("web") \/ key = Operator!Web("publicBaseUrl")
    BY <1>1 DEF Operator!WebKeys
  <2>2. QED
    BY <2>1, WebKeysHold, WebKeysShip
<1>2. ASSUME NEW c \in Channels,
             key \in {<<c, "destination">>, <<c, "enabled">>, <<c, "capabilities">>}
      PROVE  Operator!Shipped(key) \in Operator!Values(key)
  <2>1. key = <<c, "destination">> \/ key = <<c, "enabled">> \/ key = <<c, "capabilities">>
    BY <1>2
  <2>2. QED
    BY <2>1, ChannelKeysHold, ChannelKeysShip
<1>3. QED
  BY <1>1, <1>2, KeysAre

LEMMA ValuesAreAny ==
  ASSUME NEW key \in Operator!Keys PROVE Operator!Values(key) \subseteq Operator!Any
BY DEF Operator!Any

-----------------------------------------------------------------------------
(* The writes of webui enable, in order.                                   *)
PlannedWrite(write) ==
  write \in Operator!Keys \X Operator!Any /\ write[2] \in Operator!Values(write[1])

(* So much of a sequence of writes is made, and the rest is the plan.      *)
Made(writes, plan, now, old) ==
  /\ Len(plan) <= Len(writes)
  /\ \A i \in 1..Len(plan) : plan[i] = writes[Len(writes) - Len(plan) + i]
  /\ \A i \in 1..Len(writes) :
       now[writes[i][1]] = IF i + Len(plan) <= Len(writes) THEN writes[i][2] ELSE old[writes[i][1]]
  /\ \A key \in Operator!Keys :
       (\A i \in 1..Len(writes) : writes[i][1] # key) /\ key # Operator!Web("publicBaseUrl")
         => now[key] = old[key]

LEMMA OneWriteMade ==
  ASSUME NEW writes \in Seq(Operator!Keys \X Operator!Any),
         NEW plan \in Seq(Operator!Keys \X Operator!Any), plan # <<>>,
         NEW now \in [Operator!Keys -> Operator!Any], NEW old,
         \A i, j \in 1..Len(writes) : i # j => writes[i][1] # writes[j][1],
         Made(writes, plan, now, old)
  PROVE  Made(writes, Tail(plan), [now EXCEPT ![Head(plan)[1]] = Head(plan)[2]], old)
<1> DEFINE k == Len(writes) - Len(plan) + 1
           next == [now EXCEPT ![Head(plan)[1]] = Head(plan)[2]]
<1>1. /\ Len(plan) \in Nat \ {0} /\ Len(writes) \in Nat
      /\ Len(Tail(plan)) = Len(plan) - 1 /\ Head(plan) = plan[1]
      /\ \A i \in 1..Len(Tail(plan)) : Tail(plan)[i] = plan[i + 1]
  OBVIOUS
<1>2. Len(plan) <= Len(writes) /\ \A i \in 1..Len(plan) : plan[i] = writes[Len(writes) - Len(plan) + i]
  BY DEF Made
<1>3. k \in 1..Len(writes) /\ plan[1] = writes[k]
  <2>1. \A m \in Nat, n \in Nat \ {0} : n <= m => m - n + 1 \in 1..m /\ 1 \in 1..n
    OBVIOUS
  <2>2. k \in 1..Len(writes) /\ 1 \in 1..Len(plan)
    BY <1>1, <1>2, <2>1
  <2>3. QED
    BY <1>2, <2>2
<1>4. \A i \in 1..Len(writes) : writes[i] \in Operator!Keys \X Operator!Any
  OBVIOUS
<1>5. /\ next[writes[k][1]] = writes[k][2]
      /\ \A key \in Operator!Keys : key # writes[k][1] => next[key] = now[key]
  BY <1>1, <1>3, <1>4
<1>6. \A i \in 1..Len(Tail(plan)) : Tail(plan)[i] = writes[Len(writes) - Len(Tail(plan)) + i]
  <2> SUFFICES ASSUME NEW i \in 1..Len(Tail(plan))
               PROVE  Tail(plan)[i] = writes[Len(writes) - Len(Tail(plan)) + i]
    OBVIOUS
  <2>1. i + 1 \in 1..Len(plan) /\ Tail(plan)[i] = plan[i + 1]
    BY <1>1
  <2>2. Len(writes) - Len(plan) + (i + 1) = Len(writes) - Len(Tail(plan)) + i
    BY <1>1
  <2>3. QED
    BY <1>2, <2>1, <2>2
<1> HIDE DEF next
<1>7. \A i \in 1..Len(writes) :
        next[writes[i][1]] = IF i + Len(Tail(plan)) <= Len(writes) THEN writes[i][2] ELSE old[writes[i][1]]
  <2> SUFFICES ASSUME NEW i \in 1..Len(writes)
               PROVE  next[writes[i][1]] = IF i + Len(Tail(plan)) <= Len(writes)
                                             THEN writes[i][2] ELSE old[writes[i][1]]
    OBVIOUS
  <2>1. CASE i = k
    <3>1. i + Len(Tail(plan)) <= Len(writes)
      BY <1>1, <2>1
    <3>2. QED
      BY <1>5, <2>1, <3>1
  <2>2. CASE i # k
    <3>1. next[writes[i][1]] = now[writes[i][1]]
      BY <1>3, <1>4, <1>5, <2>2
    <3>2. i + Len(Tail(plan)) <= Len(writes) <=> i + Len(plan) <= Len(writes)
      BY <1>1, <1>2, <2>2
    <3>3. QED
      BY <3>1, <3>2 DEF Made
  <2>3. QED
    BY <2>1, <2>2
<1>8. \A key \in Operator!Keys :
        (\A i \in 1..Len(writes) : writes[i][1] # key) /\ key # Operator!Web("publicBaseUrl")
          => next[key] = old[key]
  BY <1>3, <1>5 DEF Made
<1>9. Len(Tail(plan)) <= Len(writes)
  BY <1>1, <1>2
<1>10. QED
  BY <1>6, <1>7, <1>8, <1>9 DEF Made, next

(* Three writes, and two more.                                             *)
LEMMA ThreeThenTwo ==
  ASSUME NEW S, NEW a \in S, NEW b \in S, NEW c \in S, NEW d \in S, NEW e \in S,
         NEW five, five = <<a, b, c>> \o <<d, e>>
  PROVE  /\ five \in Seq(S) /\ Len(five) = 5
         /\ five[1] = a /\ five[2] = b /\ five[3] = c /\ five[4] = d /\ five[5] = e
<1> DEFINE front == <<a, b, c>>
           back == <<d, e>>
<1>1. /\ front \in Seq(S) /\ Len(front) = 3 /\ front[1] = a /\ front[2] = b /\ front[3] = c
      /\ back \in Seq(S) /\ Len(back) = 2 /\ back[1] = d /\ back[2] = e
  OBVIOUS
<1> HIDE DEF front, back
<1>2. /\ front \o back \in Seq(S) /\ Len(front \o back) = Len(front) + Len(back)
      /\ \A i \in 1..Len(front) + Len(back) :
           (front \o back)[i] = IF i <= Len(front) THEN front[i] ELSE back[i - Len(front)]
  <2>1. front \in Seq(S) /\ back \in Seq(S)
    BY <1>1
  <2>2. QED
    BY <2>1, ConcatProperties
<1>3. QED
  BY <1>1, <1>2 DEF front, back

LEMMA ThreeThenNone ==
  ASSUME NEW S, NEW a \in S, NEW b \in S, NEW c \in S, NEW three, three = <<a, b, c>> \o << >>
  PROVE  /\ three \in Seq(S) /\ Len(three) = 3
         /\ three[1] = a /\ three[2] = b /\ three[3] = c
<1> DEFINE front == <<a, b, c>>
<1>1. /\ front \in Seq(S) /\ Len(front) = 3 /\ front[1] = a /\ front[2] = b /\ front[3] = c
      /\ << >> \in Seq(S) /\ Len(<< >>) = 0
  OBVIOUS
<1> HIDE DEF front
<1>2. /\ front \o << >> \in Seq(S) /\ Len(front \o << >>) = 3
      /\ \A i \in 1..3 : (front \o << >>)[i] = IF i <= 3 THEN front[i] ELSE << >>[i - 3]
  BY <1>1, ConcatProperties
<1>3. QED
  BY <1>1, <1>2 DEF front

(* The writes of enable, at each posture.                                  *)
LEMMA WebKeysDiffer ==
  LET names == {"bundleDir", "serve", "enabled", "controlPlane", "web", "publicBaseUrl"} IN
  /\ \A m, n \in names : m # n => Operator!Web(m) # Operator!Web(n)
  /\ \A n \in names : Operator!Web(n) \in Operator!Keys
BY DEF Operator!Web, Operator!Keys, Operator!WebKeys

Postures == {"lan", "loopback", "unchanged"}
EnableFacts(writes, dir, posture) ==
  /\ writes \in Seq(Operator!Keys \X Operator!Any)
  /\ \A i \in 1..Len(writes) : PlannedWrite(writes[i])
  /\ \A i \in 1..Len(writes) : writes[i][1] # Operator!Web("publicBaseUrl")
  /\ \A i, j \in 1..Len(writes) : i # j => writes[i][1] # writes[j][1]
  /\ Len(writes) = IF posture = "unchanged" THEN 3 ELSE 5
  /\ writes[1] = <<Operator!Web("bundleDir"), dir>>
  /\ writes[2] = <<Operator!Web("serve"), "on">>
  /\ writes[3] = <<Operator!Web("enabled"), "on">>
  /\ posture = "unchanged" =>
       \A i \in 1..Len(writes) : writes[i][1] \notin {Operator!Web("controlPlane"), Operator!Web("web")}
  /\ posture = "lan" => /\ writes[4] = <<Operator!Web("controlPlane"), "network">>
                        /\ writes[5] = <<Operator!Web("web"), "network">>
  /\ posture = "loopback" => /\ writes[4] = <<Operator!Web("controlPlane"), "local">>
                             /\ writes[5] = <<Operator!Web("web"), "local">>

LEMMA EnableWritesFacts ==
  ASSUME NEW dir \in {"b1", "b2"}, NEW posture \in Postures
  PROVE  EnableFacts(Operator!EnableWrites(dir, posture), dir, posture)
<1> DEFINE bundleDir == Operator!Web("bundleDir")
           serve == Operator!Web("serve")
           enabled == Operator!Web("enabled")
           controlPlane == Operator!Web("controlPlane")
           web == Operator!Web("web")
           publicBaseUrl == Operator!Web("publicBaseUrl")
<1>1. /\ PlannedWrite(<<bundleDir, dir>>)
      /\ PlannedWrite(<<serve, "on">>) /\ PlannedWrite(<<enabled, "on">>)
      /\ \A v \in {"local", "network"} : PlannedWrite(<<controlPlane, v>>) /\ PlannedWrite(<<web, v>>)
  <2>1. {bundleDir, serve, enabled, controlPlane, web} \subseteq Operator!Keys
    BY WebKeysDiffer
  <2>2. ASSUME NEW key \in Operator!Keys, NEW v \in Operator!Values(key)
        PROVE  PlannedWrite(<<key, v>>)
    BY <2>2, ValuesAreAny DEF PlannedWrite
  <2>3. /\ dir \in Operator!Values(bundleDir) /\ "on" \in Operator!Values(serve)
        /\ "on" \in Operator!Values(enabled)
        /\ \A v \in {"local", "network"} : v \in Operator!Values(controlPlane) /\ v \in Operator!Values(web)
    BY WebKeysHold
  <2>4. QED
    BY <2>1, <2>2, <2>3
<1>2. /\ bundleDir # serve /\ bundleDir # enabled /\ bundleDir # controlPlane /\ bundleDir # web
      /\ serve # enabled /\ serve # controlPlane /\ serve # web
      /\ enabled # controlPlane /\ enabled # web /\ controlPlane # web
      /\ publicBaseUrl \notin {bundleDir, serve, enabled, controlPlane, web}
  BY WebKeysDiffer
<1> DEFINE writes == Operator!EnableWrites(dir, posture)
<1>3. CASE posture = "unchanged"
  <2>1. writes = << <<bundleDir, dir>>, <<serve, "on">>, <<enabled, "on">> >> \o << >>
    BY <1>3 DEF Operator!EnableWrites, Operator!PostureWrites
  <2>a. {<<bundleDir, dir>>, <<serve, "on">>, <<enabled, "on">>} \subseteq Operator!Keys \X Operator!Any
    BY <1>1 DEF PlannedWrite
  <2> HIDE DEF writes, bundleDir, serve, enabled, controlPlane, web, publicBaseUrl
  <2>b. /\ writes \in Seq(Operator!Keys \X Operator!Any)
        /\ Len(writes) = 3 /\ writes[1] = <<bundleDir, dir>> /\ writes[2] = <<serve, "on">>
        /\ writes[3] = <<enabled, "on">>
    BY <2>1, <2>a, ThreeThenNone
  <2>2. /\ Len(writes) = 3 /\ writes[1] = <<bundleDir, dir>> /\ writes[2] = <<serve, "on">>
        /\ writes[3] = <<enabled, "on">> /\ 1..Len(writes) = {1, 2, 3}
    BY <2>b
  <2>3. writes \in Seq(Operator!Keys \X Operator!Any)
    BY <2>b
  <2>4. \A i \in 1..Len(writes) : PlannedWrite(writes[i])
    BY <1>1, <2>2
  <2>5. /\ \A i \in 1..Len(writes) : writes[i][1] # publicBaseUrl
        /\ \A i, j \in 1..Len(writes) : i # j => writes[i][1] # writes[j][1]
        /\ \A i \in 1..Len(writes) : writes[i][1] \notin {controlPlane, web}
    BY <1>2, <2>2
  <2>6. QED
    BY <1>3, <2>2, <2>3, <2>4, <2>5 DEF EnableFacts, writes, bundleDir, serve, enabled, controlPlane, web, publicBaseUrl
<1>4. ASSUME posture # "unchanged" PROVE EnableFacts(writes, dir, posture)
  <2> DEFINE v == IF posture = "lan" THEN "network" ELSE "local"
  <2>0. v \in {"local", "network"} /\ posture \in {"lan", "loopback"}
    BY <1>4 DEF Postures
  <2>1. writes = << <<bundleDir, dir>>, <<serve, "on">>, <<enabled, "on">> >>
                   \o << <<controlPlane, v>>, <<web, v>> >>
    BY <2>0 DEF Operator!EnableWrites, Operator!PostureWrites
  <2>a. {<<bundleDir, dir>>, <<serve, "on">>, <<enabled, "on">>, <<controlPlane, v>>, <<web, v>>}
          \subseteq Operator!Keys \X Operator!Any
    BY <1>1, <2>0 DEF PlannedWrite
  <2> HIDE DEF writes, bundleDir, serve, enabled, controlPlane, web, publicBaseUrl
  <2>b. /\ writes \in Seq(Operator!Keys \X Operator!Any)
        /\ Len(writes) = 5 /\ writes[1] = <<bundleDir, dir>> /\ writes[2] = <<serve, "on">>
        /\ writes[3] = <<enabled, "on">> /\ writes[4] = <<controlPlane, v>> /\ writes[5] = <<web, v>>
    BY <2>1, <2>a, ThreeThenTwo
  <2>2. /\ Len(writes) = 5 /\ writes[1] = <<bundleDir, dir>> /\ writes[2] = <<serve, "on">>
        /\ writes[3] = <<enabled, "on">> /\ writes[4] = <<controlPlane, v>> /\ writes[5] = <<web, v>>
        /\ 1..Len(writes) = {1, 2, 3, 4, 5}
    BY <2>b
  <2>3. writes \in Seq(Operator!Keys \X Operator!Any)
    BY <2>b
  <2>4. \A i \in 1..Len(writes) : PlannedWrite(writes[i])
    BY <1>1, <2>0, <2>2
  <2>5. /\ \A i \in 1..Len(writes) : writes[i][1] # publicBaseUrl
        /\ \A i, j \in 1..Len(writes) : i # j => writes[i][1] # writes[j][1]
    BY <1>2, <2>2
  <2>6. QED
    BY <1>4, <2>0, <2>2, <2>3, <2>4, <2>5 DEF EnableFacts, writes, bundleDir, serve, enabled, controlPlane, web, publicBaseUrl
<1>5. QED
  BY <1>3, <1>4

(* What the settings and the command hold, and what the plan may write.    *)
Holds(map) == map \in [Operator!Keys -> Operator!Any] /\ \A key \in Operator!Keys : map[key] \in Operator!Values(key)
SettingsHold == Holds(oSettings) /\ Holds(oBefore) /\ Holds(oRead)
Shells == [verb : {"none", "enable", "disable", "config", "show", "misused"}, dir : {"", "b1", "b2"},
           posture : Postures, exit : Operator!Exits]
ShellShape == oShell \in Shells /\ oBundles \subseteq {"b1", "b2"} /\ oRan \in 0..MaxCommands
PlanIsAllowed ==
  /\ oPlan \in Seq(Operator!Keys \X Operator!Any)
  /\ \A i \in 1..Len(oPlan) : PlannedWrite(oPlan[i])

(* webui enable refused its directory and wrote nothing, or is so far along *)
(* its writes over a directory it examined.                                *)
Enabling(shell, plan, now, old) ==
  shell.verb = "enable" =>
    \/ plan = << >> /\ now = old /\ shell.exit \in {"1", "2"}
    \/ /\ shell.dir \in oBundles
       /\ Made(Operator!EnableWrites(shell.dir, shell.posture), plan, now, old)
       /\ shell.exit = "0" => plan = << >>

ShellInv ==
  SettingsHold /\ ShellShape /\ PlanIsAllowed /\ Enabling(oShell, oPlan, oSettings, oBefore)

LEMMA OriginIsAnOrigin == Operator!Origin \in {"this machine", "the network"}
  BY DEF Operator!Origin

LEMMA OneKeySet ==
  ASSUME NEW map, Holds(map), NEW key \in Operator!Keys, NEW value \in Operator!Values(key)
  PROVE  Holds([map EXCEPT ![key] = value])
BY ValuesAreAny DEF Holds

LEMMA CommandStarts ==
  ASSUME ShellInv, NEW verb, NEW dir, NEW posture, NEW exit, NEW writes,
         Operator!Begins(verb, dir, posture, exit, writes),
         [verb |-> verb, dir |-> dir, posture |-> posture, exit |-> exit] \in Shells,
         writes \in Seq(Operator!Keys \X Operator!Any),
         \A i \in 1..Len(writes) : PlannedWrite(writes[i]),
         Enabling([verb |-> verb, dir |-> dir, posture |-> posture, exit |-> exit],
                  writes, oSettings, oSettings)
  PROVE  ShellInv'
<1>1. /\ oShell' = [verb |-> verb, dir |-> dir, posture |-> posture, exit |-> exit]
      /\ oPlan' = writes /\ oBefore' = oSettings /\ oRan' = oRan + 1 /\ oRan < MaxCommands
      /\ UNCHANGED <<oSettings, oBundles, oRead>>
  BY DEF Operator!Begins, Operator!SendUnchanged
<1>2. SettingsHold'
  BY <1>1 DEF ShellInv, SettingsHold, Holds
<1>3. oRan' \in 0..MaxCommands
  BY <1>1, RuntimeAssumption DEF ShellInv, ShellShape
<1>4. ShellShape'
  BY <1>1, <1>3 DEF ShellInv, ShellShape, Shells
<1>5. PlanIsAllowed'
  BY <1>1 DEF PlanIsAllowed, PlannedWrite
<1>6. Enabling(oShell', oPlan', oSettings', oBefore')
  BY <1>1, Zenon
<1>7. oBundles' = oBundles
  BY <1>1
<1>8. Enabling(oShell, oPlan, oSettings, oBefore)'
  BY <1>6, <1>7 DEF Enabling
<1>9. QED
  BY <1>2, <1>4, <1>5, <1>8 DEF ShellInv

LEMMA InitShellInv == Operator!Init => ShellInv
<1> SUFFICES ASSUME Operator!Init PROVE ShellInv
  OBVIOUS
<1>1. PICK configured \in SUBSET Channels : \E on \in SUBSET Channels :
       oSettings = [key \in Operator!Keys |->
         CASE key[2] = "destination" /\ key[1] \in configured -> "configured"
           [] key[2] = "enabled" /\ key[1] \in on -> "on"
           [] OTHER -> Operator!Shipped(key)]
  BY DEF Operator!Init
<1>2. PICK on \in SUBSET Channels :
       oSettings = [key \in Operator!Keys |->
         CASE key[2] = "destination" /\ key[1] \in configured -> "configured"
           [] key[2] = "enabled" /\ key[1] \in on -> "on"
           [] OTHER -> Operator!Shipped(key)]
  BY <1>1
<1>3. ASSUME NEW key \in Operator!Keys
      PROVE  (CASE key[2] = "destination" /\ key[1] \in configured -> "configured"
                [] key[2] = "enabled" /\ key[1] \in on -> "on"
                [] OTHER -> Operator!Shipped(key)) \in Operator!Values(key)
  <2>1. Operator!Shipped(key) \in Operator!Values(key)
    BY ShippedIsAllowed
  <2>2. key[2] = "destination" => "configured" \in Operator!Values(key)
    <3>1. ASSUME key \in Operator!WebKeys PROVE key[2] # "destination"
      BY <3>1 DEF Operator!WebKeys, Operator!Web
    <3>2. ASSUME NEW c \in Channels,
                 key = <<c, "destination">> \/ key = <<c, "enabled">> \/ key = <<c, "capabilities">>,
                 key[2] = "destination"
          PROVE  "configured" \in Operator!Values(key)
      <4>1. key = <<c, "destination">>
        BY <3>2
      <4>2. QED
        BY <4>1, ChannelKeysHold
    <3>3. QED
      BY <3>1, <3>2, KeysAre
  <2>3. key[2] = "enabled" => "on" \in Operator!Values(key)
    <3>1. ASSUME key \in Operator!WebKeys, key[2] = "enabled" PROVE key = Operator!Web("enabled")
      BY <3>1 DEF Operator!WebKeys, Operator!Web
    <3>2. ASSUME NEW c \in Channels,
                 key = <<c, "destination">> \/ key = <<c, "enabled">> \/ key = <<c, "capabilities">>,
                 key[2] = "enabled"
          PROVE  "on" \in Operator!Values(key)
      <4>1. key = <<c, "enabled">>
        BY <3>2
      <4>2. QED
        BY <4>1, ChannelKeysHold
    <3>3. QED
      BY <3>1, <3>2, KeysAre, WebKeysHold
  <2>4. QED
    BY <2>1, <2>2, <2>3
<1>4. Holds(oSettings)
  BY <1>2, <1>3, ValuesAreAny DEF Holds
<1>5. SettingsHold
  BY <1>4 DEF SettingsHold, Operator!Init
<1>a. oShell \in Shells /\ oBundles \subseteq {"b1", "b2"} /\ oRan = 0
  BY DEF Shells, Postures, Operator!Exits, Operator!Init, Operator!Idle
<1>b. oRan \in 0..MaxCommands
  BY <1>a, RuntimeAssumption
<1>6. ShellShape
  BY <1>a, <1>b DEF ShellShape
<1>7. PlanIsAllowed
  BY DEF PlanIsAllowed, Operator!Init
<1>8. Enabling(oShell, oPlan, oSettings, oBefore)
  BY DEF Enabling, Operator!Init, Operator!Idle
<1>9. QED
  BY <1>5, <1>6, <1>7, <1>8 DEF ShellInv

(* The plan of one write.                                                  *)
LEMMA OnePlannedWrite ==
  ASSUME NEW key \in Operator!Keys, NEW value \in Operator!Values(key), NEW writes,
         writes = << <<key, value>> >>
  PROVE  /\ writes \in Seq(Operator!Keys \X Operator!Any)
         /\ \A i \in 1..Len(writes) : PlannedWrite(writes[i])
<1>1. <<key, value>> \in Operator!Keys \X Operator!Any /\ PlannedWrite(<<key, value>>)
  BY ValuesAreAny DEF PlannedWrite
<1>2. QED
  BY <1>1

(* The whole of a plan made, nothing is: of a plan not begun.              *)
LEMMA NothingMade ==
  ASSUME NEW writes \in Seq(Operator!Keys \X Operator!Any), NEW now
  PROVE  Made(writes, writes, now, now)
<1>1. Len(writes) \in Nat
  OBVIOUS
<1>2. \A i \in 1..Len(writes) : ~(i + Len(writes) <= Len(writes)) /\ Len(writes) - Len(writes) + i = i
  BY <1>1
<1>3. QED
  BY <1>1, <1>2 DEF Made

(* webui enable begins.                                                    *)
LEMMA EnableBegins ==
  ASSUME ShellInv, Operator!Enables
  PROVE  ShellInv'
<1> DEFINE Whole(dir, posture) == Operator!EnableWrites(dir, posture)
<1>1. PICK asked \in Operator!Values(Operator!Web("bundleDir")) : \E posture \in Postures :
        LET dir == IF asked = "" THEN oSettings[Operator!Web("bundleDir")] ELSE asked IN
        IF dir = "" THEN Operator!Begins("enable", dir, posture, "2", << >>)
        ELSE IF dir \notin oBundles THEN Operator!Begins("enable", dir, posture, "1", << >>)
        ELSE Operator!Begins("enable", dir, posture, "none", Operator!EnableWrites(dir, posture))
  BY DEF Operator!Enables, Operator!Postures, Postures
<1> DEFINE dir == IF asked = "" THEN oSettings[Operator!Web("bundleDir")] ELSE asked
<1>2. PICK posture \in Postures :
        IF dir = "" THEN Operator!Begins("enable", dir, posture, "2", << >>)
        ELSE IF dir \notin oBundles THEN Operator!Begins("enable", dir, posture, "1", << >>)
        ELSE Operator!Begins("enable", dir, posture, "none", Operator!EnableWrites(dir, posture))
  BY <1>1
<1>3. dir \in {"", "b1", "b2"}
  BY WebKeysHold, WebKeysDiffer DEF ShellInv, SettingsHold, Holds
<1>4. oBundles \subseteq {"b1", "b2"}
  BY DEF ShellInv, ShellShape
<1> HIDE DEF dir
<1>5. ASSUME NEW exit \in {"1", "2"}, Operator!Begins("enable", dir, posture, exit, << >>)
      PROVE  ShellInv'
  <2> DEFINE shell == [verb |-> "enable", dir |-> dir, posture |-> posture, exit |-> exit]
  <2>1. shell \in Shells
    BY <1>3, <1>5 DEF Shells, Operator!Exits
  <2>2. Enabling(shell, << >>, oSettings, oSettings)
    BY <1>5 DEF Enabling
  <2>3. << >> \in Seq(Operator!Keys \X Operator!Any) /\ \A i \in 1..Len(<< >>) : PlannedWrite(<< >>[i])
    OBVIOUS
  <2>4. QED
    BY <1>5, <2>1, <2>2, <2>3, CommandStarts
<1>6. ASSUME dir \in oBundles,
             Operator!Begins("enable", dir, posture, "none", Operator!EnableWrites(dir, posture))
      PROVE  ShellInv'
  <2> DEFINE shell == [verb |-> "enable", dir |-> dir, posture |-> posture, exit |-> "none"]
             writes == Operator!EnableWrites(dir, posture)
  <2>1. shell \in Shells /\ shell.dir = dir /\ shell.posture = posture /\ shell.exit = "none"
    BY <1>3 DEF Shells, Operator!Exits
  <2>2. EnableFacts(writes, dir, posture)
    BY <1>4, <1>6, EnableWritesFacts
  <2>3. /\ writes \in Seq(Operator!Keys \X Operator!Any)
        /\ \A i \in 1..Len(writes) : PlannedWrite(writes[i])
    BY <2>2 DEF EnableFacts
  <2>4. Made(Operator!EnableWrites(shell.dir, shell.posture), writes, oSettings, oSettings)
    BY <2>1, <2>3, NothingMade
  <2>5. Enabling(shell, writes, oSettings, oSettings)
    BY <1>6, <2>1, <2>4 DEF Enabling
  <2>6. QED
    BY <1>6, <2>1, <2>3, <2>5, CommandStarts
<1>7. QED
  BY <1>2, <1>5, <1>6

(* The command exits as it is.                                             *)
LEMMA CommandEnds ==
  ASSUME ShellInv, NEW code \in {"0", "1", "killed"}, Operator!Running, Operator!Ends(code),
         oPlan' = oPlan, code = "0" => oPlan = << >>,
         Holds(oSettings'),
         \A key \in Operator!Keys : key # Operator!Web("publicBaseUrl") => oSettings'[key] = oSettings[key]
  PROVE  ShellInv'
<1>1. /\ oShell' = [oShell EXCEPT !.exit = code]
      /\ UNCHANGED <<oBundles, oBefore, oRan, oSend, oRead, oDelivered>>
  BY DEF Operator!Ends, Operator!SendUnchanged
<1>2. oShell \in Shells /\ oBundles \subseteq {"b1", "b2"}
  BY DEF ShellInv, ShellShape
<1>3. /\ oShell' \in Shells /\ oShell'.exit = code /\ oShell'.verb = oShell.verb
      /\ oShell'.dir = oShell.dir /\ oShell'.posture = oShell.posture
  BY <1>1, <1>2 DEF Shells, Operator!Exits
<1>4. SettingsHold'
  BY <1>1 DEF ShellInv, SettingsHold, Holds
<1>5. ShellShape'
  BY <1>1, <1>3 DEF ShellInv, ShellShape
<1>6. PlanIsAllowed'
  BY DEF ShellInv, PlanIsAllowed, PlannedWrite
<1>7. ASSUME oShell.verb = "enable"
      PROVE  /\ oShell'.dir \in oBundles'
             /\ Made(Operator!EnableWrites(oShell'.dir, oShell'.posture), oPlan', oSettings', oBefore')
  <2> DEFINE writes == Operator!EnableWrites(oShell.dir, oShell.posture)
  <2>1. oShell.exit = "none"
    BY DEF Operator!Running
  <2>2. oShell.dir \in oBundles /\ Made(writes, oPlan, oSettings, oBefore)
    BY <1>7, <2>1 DEF ShellInv, Enabling
  <2>3. EnableFacts(writes, oShell.dir, oShell.posture)
    BY <1>2, <2>2, EnableWritesFacts DEF Shells
  <2>4. \A i \in 1..Len(writes) :
          writes[i][1] \in Operator!Keys /\ writes[i][1] # Operator!Web("publicBaseUrl")
    BY <2>3 DEF EnableFacts, PlannedWrite
  <2> HIDE DEF writes
  <2>5. Made(writes, oPlan, oSettings', oBefore)
    BY <2>2, <2>4 DEF Made
  <2>6. QED
    BY <1>1, <1>3, <2>2, <2>5 DEF writes
<1>8. Enabling(oShell', oPlan', oSettings', oBefore')
  BY <1>1, <1>3, <1>7 DEF Enabling
<1>9. Enabling(oShell, oPlan, oSettings, oBefore)'
  BY <1>1, <1>3, <1>7 DEF Enabling
<1>10. QED
  BY <1>4, <1>5, <1>6, <1>9 DEF ShellInv

LEMMA CommandWrites == ASSUME ShellInv, Operator!Writes PROVE ShellInv'
<1>1. /\ Operator!Running /\ oPlan # << >> /\ oPlan' = Tail(oPlan)
      /\ oSettings' = [oSettings EXCEPT ![Head(oPlan)[1]] = Head(oPlan)[2]]
      /\ UNCHANGED <<oBundles, oShell, oBefore, oRan, oRead>>
  BY DEF Operator!Writes, Operator!SendUnchanged
<1>2. oPlan \in Seq(Operator!Keys \X Operator!Any) /\ \A i \in 1..Len(oPlan) : PlannedWrite(oPlan[i])
  BY DEF ShellInv, PlanIsAllowed
<1>3. /\ Len(oPlan) \in Nat \ {0} /\ Head(oPlan) = oPlan[1] /\ Len(Tail(oPlan)) = Len(oPlan) - 1
      /\ Tail(oPlan) \in Seq(Operator!Keys \X Operator!Any)
      /\ \A i \in 1..Len(Tail(oPlan)) : Tail(oPlan)[i] = oPlan[i + 1]
  BY <1>1, <1>2
<1>4. PlannedWrite(Head(oPlan)) /\ Head(oPlan)[1] \in Operator!Keys
      /\ Head(oPlan)[2] \in Operator!Values(Head(oPlan)[1])
  BY <1>2, <1>3 DEF PlannedWrite
<1>5. SettingsHold'
  <2>1. Holds(oSettings')
    BY <1>1, <1>4, OneKeySet DEF ShellInv, SettingsHold
  <2>2. QED
    BY <1>1, <2>1 DEF ShellInv, SettingsHold, Holds
<1>6. PlanIsAllowed'
  <2>1. \A i \in 1..Len(Tail(oPlan)) : PlannedWrite(Tail(oPlan)[i])
    BY <1>2, <1>3
  <2>2. QED
    BY <1>1, <1>3, <2>1 DEF PlanIsAllowed, PlannedWrite
<1>7. ASSUME oShell.verb = "enable"
      PROVE  /\ oShell.dir \in oBundles
             /\ Made(Operator!EnableWrites(oShell.dir, oShell.posture), oPlan', oSettings', oBefore)
  <2> DEFINE writes == Operator!EnableWrites(oShell.dir, oShell.posture)
  <2>1. oShell.dir \in oBundles /\ Made(writes, oPlan, oSettings, oBefore)
    BY <1>1, <1>7 DEF ShellInv, Enabling
  <2>2. EnableFacts(writes, oShell.dir, oShell.posture)
    BY <2>1, EnableWritesFacts DEF ShellInv, ShellShape, Shells
  <2>3. /\ writes \in Seq(Operator!Keys \X Operator!Any)
        /\ \A i, j \in 1..Len(writes) : i # j => writes[i][1] # writes[j][1]
    BY <2>2 DEF EnableFacts
  <2>4. oSettings \in [Operator!Keys -> Operator!Any]
    BY DEF ShellInv, SettingsHold, Holds
  <2> HIDE DEF writes
  <2>5. Made(writes, oPlan', oSettings', oBefore)
    BY <1>1, <1>2, <2>1, <2>3, <2>4, OneWriteMade
  <2>6. QED
    BY <2>1, <2>5 DEF writes
<1>8. oShell.exit # "0"
  BY <1>1 DEF Operator!Running
<1>9. Enabling(oShell, oPlan, oSettings, oBefore)'
  BY <1>1, <1>7, <1>8 DEF Enabling
<1>10. ShellShape'
  BY <1>1 DEF ShellInv, ShellShape
<1>11. QED
  BY <1>5, <1>6, <1>9, <1>10 DEF ShellInv

(* Nothing of the settings command changes.                                *)
LEMMA ShellStays ==
  ASSUME ShellInv, Operator!ShellUnchanged, oRead' \in {oRead, oSettings} PROVE ShellInv'
<1>1. UNCHANGED <<oSettings, oBundles, oShell, oPlan, oBefore, oRan>>
  BY DEF Operator!ShellUnchanged
<1>2. SettingsHold'
  BY <1>1 DEF ShellInv, SettingsHold, Holds
<1>3. ShellShape'
  BY <1>1 DEF ShellInv, ShellShape
<1>4. PlanIsAllowed'
  BY <1>1 DEF ShellInv, PlanIsAllowed, PlannedWrite
<1>5. Enabling(oShell, oPlan, oSettings, oBefore)'
  BY <1>1 DEF ShellInv, Enabling, Made
<1>6. QED
  BY <1>2, <1>3, <1>4, <1>5 DEF ShellInv

LEMMA StepShellInv == ShellInv /\ (Operator!Next \/ UNCHANGED Operator!vars) => ShellInv'
<1> SUFFICES ASSUME ShellInv, Operator!Next \/ UNCHANGED Operator!vars PROVE ShellInv'
  OBVIOUS
<1>0. Holds(oSettings) /\ << >> \in Seq(Operator!Keys \X Operator!Any)
      /\ \A i \in 1..Len(<< >>) : PlannedWrite(<< >>[i])
  BY DEF ShellInv, SettingsHold
<1>a. ASSUME NEW verb \in {"disable", "config", "show", "misused"}, NEW exit \in Operator!Exits,
             NEW writes \in Seq(Operator!Keys \X Operator!Any),
             \A i \in 1..Len(writes) : PlannedWrite(writes[i]),
             Operator!Begins(verb, "", "unchanged", exit, writes)
      PROVE  ShellInv'
  <2>1. [verb |-> verb, dir |-> "", posture |-> "unchanged", exit |-> exit] \in Shells
    BY DEF Shells, Postures
  <2>2. Enabling([verb |-> verb, dir |-> "", posture |-> "unchanged", exit |-> exit],
                 writes, oSettings, oSettings)
    BY DEF Enabling
  <2>3. QED
    BY <1>a, <2>1, <2>2, CommandStarts
<1>b. {"none", "0", "1", "2"} \subseteq Operator!Exits
  BY DEF Operator!Exits
<1>1. CASE Operator!Misused
  BY <1>0, <1>1, <1>a, <1>b DEF Operator!Misused
<1>2. CASE Operator!Shows
  BY <1>0, <1>2, <1>a, <1>b DEF Operator!Shows
<1>3. CASE Operator!Configures
  <2>1. PICK key \in Edits : \E value \in Operator!Values(key) :
          Operator!Begins("config", "", "unchanged", "none", << <<key, value>> >>)
    BY <1>3 DEF Operator!Configures
  <2>2. PICK value \in Operator!Values(key) :
          Operator!Begins("config", "", "unchanged", "none", << <<key, value>> >>)
    BY <2>1
  <2>3. key \in Operator!Keys
    BY RuntimeAssumption
  <2>4. /\ << <<key, value>> >> \in Seq(Operator!Keys \X Operator!Any)
        /\ \A i \in 1..Len(<< <<key, value>> >>) : PlannedWrite(<< <<key, value>> >>[i])
    BY <2>3, OnePlannedWrite
  <2>5. QED
    BY <1>a, <1>b, <2>2, <2>4
<1>4. CASE Operator!Disables
  <2>1. Operator!Web("serve") \in Operator!Keys /\ "off" \in Operator!Values(Operator!Web("serve"))
    BY WebKeysDiffer, WebKeysHold
  <2> DEFINE writes == << <<Operator!Web("serve"), "off">> >>
  <2>2. /\ writes \in Seq(Operator!Keys \X Operator!Any)
        /\ \A i \in 1..Len(writes) : PlannedWrite(writes[i])
    BY <2>1, OnePlannedWrite
  <2>3. Operator!Begins("disable", "", "unchanged", "none", writes)
    BY <1>4 DEF Operator!Disables
  <2> HIDE DEF writes
  <2>4. QED
    BY <1>a, <1>b, <2>2, <2>3
<1>5. CASE Operator!WriteRefused
  BY <1>0, <1>5, CommandEnds DEF Operator!WriteRefused
<1>6. CASE Operator!Concludes
  <2>1. /\ Operator!Running /\ oPlan = << >> /\ oPlan' = oPlan /\ Operator!Ends("0")
        /\ \/ oSettings' = oSettings
           \/ oSettings' = [oSettings EXCEPT ![Operator!Web("publicBaseUrl")] = Operator!Origin]
    BY <1>6 DEF Operator!Concludes
  <2>2. /\ Operator!Web("publicBaseUrl") \in Operator!Keys
        /\ Operator!Origin \in Operator!Values(Operator!Web("publicBaseUrl"))
    BY WebKeysDiffer, WebKeysHold, OriginIsAnOrigin
  <2>3. Holds(oSettings')
    <3>1. CASE oSettings' = oSettings
      BY <1>0, <3>1 DEF Holds
    <3>2. CASE oSettings' = [oSettings EXCEPT ![Operator!Web("publicBaseUrl")] = Operator!Origin]
      BY <1>0, <2>2, <3>2, OneKeySet
    <3>3. QED
      BY <2>1, <3>1, <3>2
  <2>4. \A key \in Operator!Keys :
          key # Operator!Web("publicBaseUrl") => oSettings'[key] = oSettings[key]
    BY <1>0, <2>1 DEF Holds
  <2>5. QED
    BY <2>1, <2>3, <2>4, CommandEnds
<1>7. CASE Operator!Killed
  BY <1>0, <1>7, CommandEnds DEF Operator!Killed
<1>8. CASE Operator!SendStarts \/ Operator!NotASend \/ Operator!EmptyMessage
           \/ Operator!ChecksUsable \/ Operator!Delivers \/ Operator!DeliveryFails
           \/ Operator!SendKilled
  <2>1. Operator!ShellUnchanged
    BY <1>8 DEF Operator!SendStarts, Operator!NotASend, Operator!EmptyMessage,
         Operator!ChecksUsable, Operator!Delivers, Operator!DeliveryFails, Operator!SendKilled,
         Operator!SendEnds
  <2>2. oRead' \in {oRead, oSettings}
    BY <1>8 DEF Operator!SendStarts, Operator!NotASend, Operator!EmptyMessage,
         Operator!ChecksUsable, Operator!Delivers, Operator!DeliveryFails, Operator!SendKilled,
         Operator!SendEnds
  <2>3. QED
    BY <2>1, <2>2, ShellStays
<1>9. CASE UNCHANGED Operator!vars
  BY <1>9, ShellStays DEF Operator!vars, Operator!ShellUnchanged
<1>10. QED
  BY <1>1, <1>2, <1>3, <1>4, <1>5, <1>6, <1>7, <1>8, <1>9, EnableBegins, CommandWrites
     DEF Operator!Next

(* How far enable got, told by its keys.                                   *)
LEMMA ShellOrdered == ShellInv => Operator!EnableIsOrdered
<1> SUFFICES ASSUME ShellInv, oShell.verb = "enable"
             PROVE
    /\ oSettings[Operator!Web("serve")] = "on" /\ oBefore[Operator!Web("serve")] = "off"
         => oSettings[Operator!Web("bundleDir")] = oShell.dir /\ oShell.dir \in oBundles
    /\ \A key \in {Operator!Web("controlPlane"), Operator!Web("web")} :
         oSettings[key] = "network" /\ oBefore[key] = "local" => oSettings[Operator!Web("serve")] = "on"
    /\ oShell.exit = "0" =>
         /\ oSettings[Operator!Web("bundleDir")] = oShell.dir
         /\ oSettings[Operator!Web("serve")] = "on" /\ oSettings[Operator!Web("enabled")] = "on"
         /\ oShell.posture = "lan" => /\ oSettings[Operator!Web("controlPlane")] = "network"
                                      /\ oSettings[Operator!Web("web")] = "network"
         /\ oShell.posture = "loopback" => /\ oSettings[Operator!Web("controlPlane")] = "local"
                                           /\ oSettings[Operator!Web("web")] = "local"
  BY DEF Operator!EnableIsOrdered
<1>1. CASE oSettings = oBefore /\ oShell.exit # "0"
  BY <1>1
<1>2. ASSUME oShell.dir \in oBundles, oShell.exit = "0" => oPlan = << >>,
             Made(Operator!EnableWrites(oShell.dir, oShell.posture), oPlan, oSettings, oBefore)
      PROVE
    /\ oSettings[Operator!Web("serve")] = "on" /\ oBefore[Operator!Web("serve")] = "off"
         => oSettings[Operator!Web("bundleDir")] = oShell.dir /\ oShell.dir \in oBundles
    /\ \A key \in {Operator!Web("controlPlane"), Operator!Web("web")} :
         oSettings[key] = "network" /\ oBefore[key] = "local" => oSettings[Operator!Web("serve")] = "on"
    /\ oShell.exit = "0" =>
         /\ oSettings[Operator!Web("bundleDir")] = oShell.dir
         /\ oSettings[Operator!Web("serve")] = "on" /\ oSettings[Operator!Web("enabled")] = "on"
         /\ oShell.posture = "lan" => /\ oSettings[Operator!Web("controlPlane")] = "network"
                                      /\ oSettings[Operator!Web("web")] = "network"
         /\ oShell.posture = "loopback" => /\ oSettings[Operator!Web("controlPlane")] = "local"
                                           /\ oSettings[Operator!Web("web")] = "local"
  <2> DEFINE writes == Operator!EnableWrites(oShell.dir, oShell.posture)
             n == Len(oPlan)
  <2>1. EnableFacts(writes, oShell.dir, oShell.posture) /\ oShell.posture \in Postures
    BY <1>2, EnableWritesFacts DEF ShellInv, ShellShape, Shells
  <2>2. n \in Nat /\ (oShell.exit = "0" => n = 0)
    BY <1>2 DEF ShellInv, PlanIsAllowed
  <2> DEFINE total == IF oShell.posture = "unchanged" THEN 3 ELSE 5
  <2>3. \A i \in 1..total :
          oSettings[writes[i][1]] = IF i + n <= total THEN writes[i][2] ELSE oBefore[writes[i][1]]
    BY <1>2, <2>1 DEF Made, EnableFacts
  <2>4. /\ writes[1] = <<Operator!Web("bundleDir"), oShell.dir>>
        /\ writes[2] = <<Operator!Web("serve"), "on">>
        /\ writes[3] = <<Operator!Web("enabled"), "on">>
        /\ oShell.posture = "lan" => /\ writes[4] = <<Operator!Web("controlPlane"), "network">>
                                     /\ writes[5] = <<Operator!Web("web"), "network">>
        /\ oShell.posture = "loopback" => /\ writes[4] = <<Operator!Web("controlPlane"), "local">>
                                          /\ writes[5] = <<Operator!Web("web"), "local">>
    BY <2>1 DEF EnableFacts
  <2>5. oShell.posture = "unchanged" =>
          \A key \in {Operator!Web("controlPlane"), Operator!Web("web")} : oSettings[key] = oBefore[key]
    <3> SUFFICES ASSUME oShell.posture = "unchanged",
                        NEW key \in {Operator!Web("controlPlane"), Operator!Web("web")}
                 PROVE  oSettings[key] = oBefore[key]
      OBVIOUS
    <3>1. \A i \in 1..Len(writes) : writes[i][1] # key
      BY <2>1 DEF EnableFacts
    <3>2. key \in Operator!Keys /\ key # Operator!Web("publicBaseUrl")
      BY WebKeysDiffer
    <3> HIDE DEF writes
    <3>3. QED
      BY <1>2, <3>1, <3>2 DEF Made, writes
  <2>6. /\ oSettings[Operator!Web("bundleDir")] =
             IF 1 + n <= total THEN oShell.dir ELSE oBefore[Operator!Web("bundleDir")]
        /\ oSettings[Operator!Web("serve")] =
             IF 2 + n <= total THEN "on" ELSE oBefore[Operator!Web("serve")]
        /\ oSettings[Operator!Web("enabled")] =
             IF 3 + n <= total THEN "on" ELSE oBefore[Operator!Web("enabled")]
    <3>1. 1 \in 1..total /\ 2 \in 1..total /\ 3 \in 1..total
      OBVIOUS
    <3> HIDE DEF writes, total, n
    <3>2. QED
      BY <2>3, <2>4, <3>1
  <2>7. oShell.posture = "lan" =>
          /\ oSettings[Operator!Web("controlPlane")] =
               IF 4 + n <= total THEN "network" ELSE oBefore[Operator!Web("controlPlane")]
          /\ oSettings[Operator!Web("web")] =
               IF 5 + n <= total THEN "network" ELSE oBefore[Operator!Web("web")]
    <3>1. oShell.posture = "lan" => 4 \in 1..total /\ 5 \in 1..total
      OBVIOUS
    <3> HIDE DEF writes, total, n
    <3>2. QED
      BY <2>3, <2>4, <3>1
  <2>8. oShell.posture = "loopback" =>
          /\ oSettings[Operator!Web("controlPlane")] =
               IF 4 + n <= total THEN "local" ELSE oBefore[Operator!Web("controlPlane")]
          /\ oSettings[Operator!Web("web")] =
               IF 5 + n <= total THEN "local" ELSE oBefore[Operator!Web("web")]
    <3>1. oShell.posture = "loopback" => 4 \in 1..total /\ 5 \in 1..total
      OBVIOUS
    <3> HIDE DEF writes, total, n
    <3>2. QED
      BY <2>3, <2>4, <3>1
  <2>9. /\ 2 + n <= total => 1 + n <= total
        /\ 4 + n <= total => 2 + n <= total
        /\ 5 + n <= total => 2 + n <= total
        /\ oShell.exit = "0" => 1 + n <= total /\ 2 + n <= total /\ 3 + n <= total
        /\ oShell.exit = "0" /\ oShell.posture # "unchanged" => 4 + n <= total /\ 5 + n <= total
    BY <2>2
  <2> HIDE DEF writes, total, n
  <2>10. oSettings[Operator!Web("serve")] = "on" /\ oBefore[Operator!Web("serve")] = "off"
           => oSettings[Operator!Web("bundleDir")] = oShell.dir /\ oShell.dir \in oBundles
    BY <1>2, <2>6, <2>9
  <2>11. ASSUME NEW key \in {Operator!Web("controlPlane"), Operator!Web("web")},
                oSettings[key] = "network", oBefore[key] = "local"
         PROVE  oSettings[Operator!Web("serve")] = "on"
    <3>1. oShell.posture = "lan" /\ (4 + n <= total \/ 5 + n <= total)
      BY <2>1, <2>11, <2>5, <2>7, <2>8 DEF Postures
    <3>2. QED
      BY <2>6, <2>9, <3>1
  <2>12. oShell.exit = "0" =>
         /\ oSettings[Operator!Web("bundleDir")] = oShell.dir
         /\ oSettings[Operator!Web("serve")] = "on" /\ oSettings[Operator!Web("enabled")] = "on"
         /\ oShell.posture = "lan" => /\ oSettings[Operator!Web("controlPlane")] = "network"
                                      /\ oSettings[Operator!Web("web")] = "network"
         /\ oShell.posture = "loopback" => /\ oSettings[Operator!Web("controlPlane")] = "local"
                                           /\ oSettings[Operator!Web("web")] = "local"
    BY <2>6, <2>7, <2>8, <2>9
  <2>13. QED
    BY <2>10, <2>11, <2>12
<1>3. QED
  BY <1>1, <1>2 DEF ShellInv, Enabling

(* One message.  The channel it is settled on is the one named, or the     *)
(* only one that qualified when the settings were read.                    *)
SendShape ==
  oSend \in [phase : {"none", "resolved", "checked", "over"}, named : Channels \cup {"", "unknown"},
             to : {"", "address"}, channel : Channels \cup {""}, exit : Operator!Exits]
DeliveredShape ==
  oDelivered \subseteq [channel : Channels, address : {"", "configured", "address"},
                        text : {"literal", "escaped"}]
Undelivered == oSend.phase # "over" => oDelivered = {}
Only(c) == \A d \in Operator!SendChannels \ {c} :
             oRead[<<d, "enabled">>] = "off" \/ oRead[<<d, "destination">>] = ""
Settled ==
  oSend.phase \in {"resolved", "checked"} =>
    /\ oSend.channel \in Operator!SendChannels
    /\ oSend.named \in {"", oSend.channel} /\ (oSend.named = "" => Only(oSend.channel))
Checked == oSend.phase = "checked" => Operator!Usable(oSend.channel)
SendInv ==
  SendShape /\ DeliveredShape /\ Undelivered /\ Settled /\ Checked /\ Operator!SentWhereMeant

LEMMA SendChannelsAre == Operator!SendChannels = Channels \ {"sms"}
  BY DEF Operator!SendChannels, Operator!Transform

LEMMA InitSendInv == Operator!Init => SendInv
<1> SUFFICES ASSUME Operator!Init PROVE SendInv
  OBVIOUS
<1>1. oSend = Operator!NoSend /\ oDelivered = {}
  BY DEF Operator!Init
<1>2. SendShape /\ oSend.phase = "none"
  BY <1>1 DEF SendShape, Operator!NoSend, Operator!Exits
<1>3. DeliveredShape /\ Undelivered /\ Operator!SentWhereMeant
  BY <1>1 DEF DeliveredShape, Undelivered, Operator!SentWhereMeant
<1>4. Settled /\ Checked
  BY <1>2 DEF Settled, Checked
<1>5. QED
  BY <1>2, <1>3, <1>4 DEF SendInv

(* A send that has not begun, or is over, holds nothing that is not over.  *)
LEMMA SendStands ==
  ASSUME SendInv, UNCHANGED <<oSend, oRead, oDelivered>> PROVE SendInv'
<1>1. SendShape' /\ DeliveredShape' /\ Undelivered'
  BY DEF SendInv, SendShape, DeliveredShape, Undelivered
<1>2. Settled' /\ Checked'
  BY DEF SendInv, Settled, Checked, Only, Operator!Usable
<1>3. Operator!SentWhereMeant'
  BY DEF SendInv, Operator!SentWhereMeant
<1>4. QED
  BY <1>1, <1>2, <1>3 DEF SendInv

(* A send that has delivered nothing is over.                              *)
LEMMA SendOver ==
  ASSUME SendInv, NEW code \in {"0", "1", "2", "killed"}, oSend.phase # "over",
         oSend' = [oSend EXCEPT !.phase = "over", !.exit = code], oDelivered' = oDelivered
  PROVE  SendInv'
<1>1. SendShape /\ oDelivered = {}
  BY DEF SendInv, Undelivered
<1>2. SendShape' /\ oSend'.phase = "over"
  BY <1>1 DEF SendShape, Operator!Exits
<1>3. DeliveredShape' /\ Undelivered' /\ Operator!SentWhereMeant'
  BY <1>1, <1>2 DEF DeliveredShape, Undelivered, Operator!SentWhereMeant
<1>4. Settled' /\ Checked'
  BY <1>2 DEF Settled, Checked
<1>5. QED
  BY <1>2, <1>3, <1>4 DEF SendInv

LEMMA SendBegins == ASSUME ShellInv, SendInv, Operator!SendStarts PROVE SendInv'
<1>1. /\ oSend.phase = "none" /\ oRead' = oSettings /\ oDelivered' = oDelivered
      /\ UNCHANGED oSettings
  BY DEF Operator!SendStarts, Operator!ShellUnchanged
<1>2. PICK named \in Channels \cup {"", "unknown"} : \E to \in {"", "address"} :
        LET settled == IF named = "" THEN Operator!DefaultChannel
                       ELSE IF named \in Operator!SendChannels THEN {{named}} ELSE {} IN
        oSend' \in
          IF settled = {}
            THEN {[phase |-> "over", named |-> named, to |-> to, channel |-> "", exit |-> "2"]}
            ELSE {[phase |-> "resolved", named |-> named, to |-> to, channel |-> c, exit |-> "none"] :
                    c \in UNION settled}
  BY DEF Operator!SendStarts
<1> DEFINE settled == IF named = "" THEN Operator!DefaultChannel
                      ELSE IF named \in Operator!SendChannels THEN {{named}} ELSE {}
<1>3. PICK to \in {"", "address"} :
        oSend' \in
          IF settled = {}
            THEN {[phase |-> "over", named |-> named, to |-> to, channel |-> "", exit |-> "2"]}
            ELSE {[phase |-> "resolved", named |-> named, to |-> to, channel |-> c, exit |-> "none"] :
                    c \in UNION settled}
  BY <1>2
<1>4. oDelivered' = {}
  BY <1>1 DEF SendInv, Undelivered
<1>5. DeliveredShape' /\ Undelivered' /\ Operator!SentWhereMeant'
  BY <1>4 DEF DeliveredShape, Undelivered, Operator!SentWhereMeant
<1>6. CASE settled = {}
  <2>1. oSend' = [phase |-> "over", named |-> named, to |-> to, channel |-> "", exit |-> "2"]
    BY <1>3, <1>6
  <2>2. SendShape' /\ Settled' /\ Checked'
    BY <2>1 DEF SendShape, Settled, Checked, Operator!Exits
  <2>3. QED
    BY <1>5, <2>2 DEF SendInv
<1>7. CASE settled # {}
  <2> HIDE DEF settled
  <2>1. PICK c \in UNION settled :
          oSend' = [phase |-> "resolved", named |-> named, to |-> to, channel |-> c, exit |-> "none"]
    BY <1>3, <1>7
  <2>2. c \in Operator!SendChannels /\ named \in {"", c} /\ (named = "" => Operator!Qualifying = {c})
    BY DEF settled, Operator!DefaultChannel, Operator!Qualifying
  <2>3. named = "" => Only(c)'
    <3> SUFFICES ASSUME named = "", NEW d \in Operator!SendChannels \ {c}
                 PROVE  oSettings[<<d, "enabled">>] = "off" \/ oSettings[<<d, "destination">>] = ""
      BY <1>1 DEF Only, Operator!SendChannels, Operator!Transform
    <3>1. d \notin Operator!Qualifying
      BY <2>2
    <3>2. d \in Channels
      BY SendChannelsAre
    <3>3. oSettings[<<d, "enabled">>] \in {"off", "on"}
      BY <3>2, ChannelKeysHold DEF ShellInv, SettingsHold, Holds
    <3>4. QED
      BY <3>1, <3>3 DEF Operator!Qualifying
  <2>4. /\ oSend'.phase = "resolved" /\ oSend'.named = named /\ oSend'.channel = c
    BY <2>1
  <2>5. SendShape'
    BY <2>1, <2>2, SendChannelsAre DEF SendShape, Operator!Exits
  <2>6. Settled' /\ Checked'
    BY <2>2, <2>3, <2>4 DEF Settled, Checked, Only, Operator!SendChannels, Operator!Transform
  <2>7. QED
    BY <1>5, <2>5, <2>6 DEF SendInv
<1>8. QED
  BY <1>6, <1>7

LEMMA SendIsChecked == ASSUME SendInv, Operator!ChecksUsable PROVE SendInv'
<1>1. oSend.phase = "resolved" /\ oDelivered' = oDelivered
  BY DEF Operator!ChecksUsable
<1>2. CASE Operator!Usable(oSend.channel)
  <2>1. oSend' = [oSend EXCEPT !.phase = "checked"] /\ oRead' = oRead
    BY <1>2 DEF Operator!ChecksUsable
  <2>2. /\ SendShape' /\ oSend'.phase = "checked" /\ oSend'.named = oSend.named
        /\ oSend'.channel = oSend.channel
    BY <2>1 DEF SendInv, SendShape
  <2>3. oDelivered' = {}
    BY <1>1 DEF SendInv, Undelivered
  <2>4. DeliveredShape' /\ Undelivered' /\ Operator!SentWhereMeant'
    BY <2>3 DEF DeliveredShape, Undelivered, Operator!SentWhereMeant
  <2>5. Settled'
    BY <1>1, <2>1, <2>2 DEF SendInv, Settled, Only
  <2>6. Checked'
    BY <1>2, <2>1, <2>2 DEF Checked, Operator!Usable
  <2>7. QED
    BY <2>2, <2>4, <2>5, <2>6 DEF SendInv
<1>3. CASE ~Operator!Usable(oSend.channel)
  BY <1>1, <1>3, SendOver DEF Operator!ChecksUsable, Operator!SendEnds
<1>4. QED
  BY <1>2, <1>3

LEMMA SendDelivers == ASSUME ShellInv, SendInv, Operator!Delivers PROVE SendInv'
<1>1. /\ oSend.phase = "checked" /\ oDelivered' = oDelivered \cup {Operator!Message} /\ oRead' = oRead
  BY DEF Operator!Delivers, Operator!SendEnds
<1>2. PICK code \in {"0", "1"} : oSend' = [oSend EXCEPT !.phase = "over", !.exit = code]
  BY DEF Operator!Delivers, Operator!SendEnds
<1>3. oDelivered' = {Operator!Message}
  BY <1>1 DEF SendInv, Undelivered
<1>4. /\ SendShape' /\ oSend'.phase = "over" /\ oSend'.named = oSend.named
      /\ oSend'.channel = oSend.channel
  BY <1>2 DEF SendInv, SendShape, Operator!Exits
<1>5. /\ oSend.channel \in Operator!SendChannels /\ oSend.channel \in Channels
      /\ oSend.named \in {"", oSend.channel} /\ (oSend.named = "" => Only(oSend.channel))
      /\ Operator!Usable(oSend.channel)
  BY <1>1, SendChannelsAre DEF SendInv, Settled, Checked
<1>6. Operator!Message.channel = oSend.channel
  BY DEF Operator!Message
<1>7. Operator!Message \in [channel : Channels, address : {"", "configured", "address"},
                            text : {"literal", "escaped"}]
  <2>1. Operator!Address \in {"", "configured", "address"}
    <3>1. oRead[<<oSend.channel, "destination">>] \in {"", "configured"}
      BY <1>5, ChannelKeysHold DEF ShellInv, SettingsHold, Holds
    <3>2. oSend.to \in {"", "address"}
      BY DEF SendInv, SendShape
    <3>3. QED
      BY <3>1, <3>2 DEF Operator!Address
  <2>2. Operator!Transform[oSend.channel] \in {"literal", "escaped"}
    BY <1>5 DEF Operator!SendChannels, Operator!Transform
  <2>3. QED
    BY <1>5, <2>1, <2>2 DEF Operator!Message
<1>8. DeliveredShape'
  BY <1>3, <1>7 DEF DeliveredShape
<1>9. Undelivered' /\ Settled' /\ Checked'
  BY <1>4 DEF Undelivered, Settled, Checked
<1>10. Operator!SentWhereMeant'
  <2> DEFINE c == oSend.channel
  <2>1. oRead'[<<c, "enabled">>] = "on" /\ oRead'[<<c, "capabilities">>] = "on"
    BY <1>1, <1>5 DEF Operator!Usable
  <2>2. oSend'.named \in {"", c} /\
        (oSend'.named = "" => \A d \in Operator!SendChannels \ {c} :
           oRead'[<<d, "enabled">>] = "off" \/ oRead'[<<d, "destination">>] = "")
    BY <1>1, <1>4, <1>5 DEF Only
  <2>3. \A m \in oDelivered' : m.channel = c
    BY <1>3, <1>6
  <2>4. QED
    BY <2>1, <2>2, <2>3 DEF Operator!SentWhereMeant, Operator!SendChannels, Operator!Transform
<1>11. QED
  BY <1>4, <1>8, <1>9, <1>10 DEF SendInv

LEMMA StepSendInv == ShellInv /\ SendInv /\ (Operator!Next \/ UNCHANGED Operator!vars) => SendInv'
<1> SUFFICES ASSUME ShellInv, SendInv, Operator!Next \/ UNCHANGED Operator!vars PROVE SendInv'
  OBVIOUS
<1>1. CASE \/ Operator!Misused \/ Operator!Shows \/ Operator!Configures \/ Operator!Disables
           \/ Operator!Enables \/ Operator!Writes \/ Operator!WriteRefused \/ Operator!Concludes
           \/ Operator!Killed \/ UNCHANGED Operator!vars
  BY <1>1, SendStands DEF Operator!Misused, Operator!Shows, Operator!Configures, Operator!Disables,
     Operator!Enables, Operator!Writes, Operator!WriteRefused, Operator!Concludes, Operator!Killed,
     Operator!Begins, Operator!Ends, Operator!SendUnchanged, Operator!vars
<1>2. CASE Operator!NotASend
  BY <1>2, SendOver DEF Operator!NotASend
<1>3. CASE Operator!EmptyMessage \/ Operator!DeliveryFails \/ Operator!SendKilled
  BY <1>3, SendOver DEF Operator!EmptyMessage, Operator!DeliveryFails, Operator!SendKilled,
     Operator!SendEnds
<1>4. QED
  BY <1>1, <1>2, <1>3, SendBegins, SendIsChecked, SendDelivers DEF Operator!Next

(* However the operator's commands interleave, fail or are killed, webui   *)
(* enable has turned on no more than its order allows, and a message went  *)
(* only where it was meant (daemon/webui-command.ts, daemon/send).         *)
THEOREM SettingsAndSendsAreRight == Spec => []SettingsAndSends
<1>1. Init => ShellInv /\ SendInv
  BY InitShellInv, InitSendInv DEF Init
<1>2. ShellInv /\ SendInv /\ [Next]_vars => (ShellInv /\ SendInv)'
  BY EachFamilySteps, StepShellInv, StepSendInv
<1>3. ShellInv /\ SendInv => SettingsAndSends
  BY ShellOrdered DEF SendInv, SettingsAndSends
<1>4. QED
  BY <1>1, <1>2, <1>3, PTL DEF Spec

-----------------------------------------------------------------------------
LEMMA OperatorTyped == ShellInv /\ SendInv => Operator!TypeOK
<1> SUFFICES ASSUME ShellInv, SendInv PROVE Operator!TypeOK
  OBVIOUS
<1>1. /\ oSettings \in [Operator!Keys -> Operator!Any] /\ oBefore \in [Operator!Keys -> Operator!Any]
      /\ oRead \in [Operator!Keys -> Operator!Any]
      /\ \A key \in Operator!Keys : {oSettings[key], oBefore[key], oRead[key]} \subseteq Operator!Values(key)
  BY DEF ShellInv, SettingsHold, Holds
<1>2. /\ oBundles \subseteq {"b1", "b2"} /\ oRan \in 0..MaxCommands
      /\ oShell \in [verb : {"none", "enable", "disable", "config", "show", "misused"},
                     dir : {"", "b1", "b2"}, posture : Operator!Postures, exit : Operator!Exits]
  BY DEF ShellInv, ShellShape, Shells, Postures, Operator!Postures
<1>3. oPlan \in Seq(Operator!Keys \X Operator!Any)
  BY DEF ShellInv, PlanIsAllowed
<1>4. SendShape /\ DeliveredShape
  BY DEF SendInv
<1>5. QED
  BY <1>1, <1>2, <1>3, <1>4 DEF Operator!TypeOK, SendShape, DeliveredShape

-----------------------------------------------------------------------------
(* Types.                                                                  *)
LEMMA LifeTyped == LifeInv => Life!TypeOK
BY Zenon DEF LifeInv, Life!TypeOK

LEMMA CommandsTyped == CommandsInv => Commands!TypeOK
<1> SUFFICES ASSUME CommandsInv PROVE Commands!TypeOK
  OBVIOUS
<1>1. CommandsShape
  BY DEF CommandsInv
<1>2. cCalls \in 0..2 /\ cDid \in 0..2
  BY DEF CommandsInv, Counted
<1>3. cFrames \subseteq BOOLEAN
  BY Zenon DEF CommandsInv, Answers
<1>4. QED
  BY <1>1, <1>2, <1>3, Zenon DEF CommandsShape, Commands!TypeOK

LEMMA TalkTyped == TalkInv => Talk!TypeOK
BY DEF TalkInv, Snapshot, Talk!TypeOK

(* Every variable of every family keeps its type, whichever family runs    *)
(* and however long.                                                       *)
THEOREM EveryFamilyIsTyped == Spec => []TypesOK
<1> DEFINE AllInv == /\ LifeInv /\ CommandsInv /\ ShellInv /\ SendInv /\ TrustInv
                     /\ Files!TypeOK /\ TalkInv /\ ClusterInv
<1>1. Init => AllInv
  BY InitLifeInv, InitCommandsInv, InitShellInv, InitSendInv, InitTrustInv, InitFiles, InitTalkInv,
     InitClusterInv DEF Init
<1>2. AllInv /\ [Next]_vars => AllInv'
  BY EachFamilySteps, StepLifeInv, StepCommandsInv, StepShellInv, StepSendInv, StepTrustInv,
     StepFiles, StepTalkInv, StepClusterInv
<1>3. AllInv => TypesOK
  BY LifeTyped, CommandsTyped, OperatorTyped, TalkTyped DEF TrustInv, ClusterInv, TypesOK
<1> HIDE DEF AllInv
<1>4. QED
  BY <1>1, <1>2, <1>3, PTL DEF Spec
=============================================================================
