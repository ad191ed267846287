---------------------------- MODULE HostedTrust ----------------------------
(***************************************************************************)
(* How the daemon asks whether one workspace is trusted                    *)
(* (runtime/trust/trust-gated-approvals.ts) for the runs it hosts          *)
(* (runtime/hosted-session-composition.ts, runtime/services.ts).  The      *)
(* daemon's own permission manager and the floors of hosted sessions each  *)
(* hold a trust manager over the same file.                                *)
(*                                                                         *)
(* Taken from outside the repository: the manager, whose load reads the    *)
(* file once, and trustedGatedAsk, which lets a read through, refuses what *)
(* a restricted workspace may not do, and asks while there is no decision. *)
(***************************************************************************)
CONSTANTS Gates,  \* the trust managers of the process: the daemon's, the floors'
          Asks    \* tool asks of hosted runs

VARIABLES file,      \* the decision on disk
          level,     \* each manager's decision
          loaded,    \* the managers that have read the file
          ask,       \* each ask: its gate, category and step
          said,      \* the decisions somebody made
          inherited  \* a decision was on file when this process started

vars == <<file, level, loaded, ask, said, inherited>>

Levels == {"none", "trusted", "restricted"}
Steps == {"unasked", "loading", "loaded", "asking", "raised", "granted", "refused"}
NotAsked == [gate |-> CHOOSE g \in Gates : TRUE, reads |-> TRUE, step |-> "unasked"]

(* Type invariant.                                                         *)
TypeOK ==
  /\ file \in Levels /\ level \in [Gates -> Levels] /\ loaded \subseteq Gates
  /\ ask \in [Asks -> [gate : Gates, reads : BOOLEAN, step : Steps]]
  /\ said \subseteq Levels \ {"none"}
  /\ inherited \in BOOLEAN

Init ==
  /\ file = "none" /\ level = [g \in Gates |-> "none"] /\ loaded = {}
  /\ ask = [a \in Asks |-> NotAsked]
  /\ said = {} /\ inherited = FALSE

Moves(a, step) == ask' = [ask EXCEPT ![a] = [@ EXCEPT !.step = step]]
Gate(a) == ask[a].gate

(* A hosted run's tool wants something its permission manager would ask    *)
(* about: the raiser awaits load() on every ask.                           *)
AtFirst == "loading"
Asked(a) ==
  /\ ask[a].step = "unasked"
  /\ \E g \in Gates, reads \in BOOLEAN :
       ask' = [ask EXCEPT ![a] = [gate |-> g, reads |-> reads, step |-> AtFirst]]
  /\ UNCHANGED <<file, level, loaded, said, inherited>>

Load(a) ==
  /\ ask[a].step = "loading"
  /\ level' = [level EXCEPT ![Gate(a)] = IF Gate(a) \in loaded THEN @ ELSE file]
  /\ loaded' = loaded \cup {Gate(a)}
  /\ Moves(a, "loaded")
  /\ UNCHANGED <<file, said, inherited>>

(* The gate: through, refused, or first the question.                      *)
Consults(a) ==
  /\ ask[a].step = "loaded"
  /\ Moves(a, IF ask[a].reads \/ level[Gate(a)] = "trusted" THEN "raised"
              ELSE IF level[Gate(a)] = "restricted" THEN "refused" ELSE "asking")
  /\ UNCHANGED <<file, level, loaded, said, inherited>>

(* A surface answers the question: the decision is kept and decides this   *)
(* ask too.                                                                *)
Decided(a) ==
  /\ ask[a].step = "asking"
  /\ \E decision \in {"trusted", "restricted"} :
       /\ level' = [level EXCEPT ![Gate(a)] = decision]
       /\ file' = decision /\ said' = said \cup {decision}
       /\ Moves(a, IF decision = "trusted" THEN "raised" ELSE "refused")
  /\ UNCHANGED <<loaded, inherited>>

(* Nothing attached, the broker failed, or ten minutes passed: this run is *)
(* refused and the workspace stays undecided.                              *)
Unanswered(a) ==
  /\ ask[a].step = "asking"
  /\ Moves(a, "refused")
  /\ UNCHANGED <<file, level, loaded, said, inherited>>

(* The tool ask itself, which has no expiry.                               *)
Answered(a) ==
  /\ ask[a].step = "raised"
  /\ \E verdict \in {"granted", "refused"} : Moves(a, verdict)
  /\ UNCHANGED <<file, level, loaded, said, inherited>>

(* The terminal app records a decision in the same file.                   *)
TerminalDecides ==
  /\ \E decision \in Levels \ {"none"} : file' = decision /\ said' = said \cup {decision}
  /\ UNCHANGED <<level, loaded, ask, inherited>>

Restart ==
  /\ level' = [g \in Gates |-> "none"] /\ loaded' = {}
  /\ ask' = [a \in Asks |-> NotAsked]
  /\ inherited' = (file # "none")
  /\ UNCHANGED <<file, said>>

Next ==
  \/ \E a \in Asks : Asked(a) \/ Load(a) \/ Consults(a) \/ Decided(a) \/ Unanswered(a) \/ Answered(a)
  \/ TerminalDecides \/ Restart

Expires(a) == Unanswered(a)

Fairness == \A a \in Asks : WF_vars(Expires(a))
Spec == Init /\ [][Next]_vars /\ Fairness

-----------------------------------------------------------------------------
(* Nobody's silence is a decision: what is on file somebody said, and a    *)
(* run got past the gate to write or execute only in a workspace somebody  *)
(* had trusted.                                                            *)
SomebodyDecided ==
  /\ file = "none" \/ file \in said
  /\ \A a \in Asks : ask[a].step \in {"raised", "granted"} /\ ~ask[a].reads => "trusted" \in said

(* A workspace decided before this process started is never asked about    *)
(* again: not by the first run of any gate, whatever it races with.        *)
NeverAskedAgain == inherited => \A a \in Asks : ask[a].step # "asking"

(* An open question closes, answered or not, so a run nobody attends to    *)
(* is refused and not hung.                                                *)
Waits(a) == ask[a].step = "asking"
EveryQuestionCloses == \A a \in Asks : Waits(a) ~> ~Waits(a)

=============================================================================
