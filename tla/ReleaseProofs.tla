----------------------------- MODULE ReleaseProofs -----------------------------
(* Theorems about Release, for any number of commits, workflow runs, native
   bindings and failures: its types, the order of publication, and that the npm
   package is of one commit.  Each rests on an inductive invariant below.     *)
EXTENDS Release, TLAPS

Phase == {"check", "artifacts", "publish", "tag", "verify"}
Publishing == {"exists", "upload", "wait"}
Steps == Phase \cup Publishing
             \cup {"idle", "gates", "dispatch", "appear", "watch", "copy", "push", "release"}

(* TypeOK in two parts, with the types that it leaves open: where the script is
   and which package it is at, and what it has made of the world.            *)
ScriptTyped ==
    /\ todo \in Seq(Phase) /\ pc \in Steps
    /\ (pc = "idle") = (todo = <<>>)
    /\ pkg \in Packages \cup {"none"}
    /\ pc \in Publishing => pkg \in Packages

WorldTyped ==
    /\ main \in 1..MaxCommits /\ head \in 1..main
    /\ receipt \in 0..head /\ localTag \in 0..main /\ pushed \in 0..main
    /\ green \subseteq 1..main /\ latest \in 0..main /\ run \in 0..main
    /\ unlisted \in Seq(Nat) /\ \A i \in DOMAIN unlisted : unlisted[i] \in 1..main
    /\ bindings \in [Targets -> Nat]
    /\ uploaded \in [Packages -> [commit : Nat, bindings : [Targets -> Nat]]]
    /\ visible \subseteq Packages /\ \A p \in visible : uploaded[p] # NotUploaded
    /\ faults \in 0..MaxFaults

(* What the script has seen by the time it uploads a package or makes a tag. *)
Seen ==
    /\ pc \in Publishing /\ pkg = "ipd" => "ip-discovery" \in visible
    /\ pc \in Publishing /\ pkg = "npm" => {"ip-discovery", "ipd"} \subseteq visible
    /\ pc = "push" => visible = Packages

(* In a calm history: which run the script waits for, watches and copies from,
   and what a receipt that names HEAD stands for.                            *)
Traced ==
    calm =>
      /\ pc = "dispatch" => known /\ unlisted = <<>>
      /\ pc = "appear" => \/ known /\ unlisted = <<head>>
                          \/ ~known /\ unlisted = <<>> /\ latest = head
      /\ pc \in {"watch", "copy"} => run = head
      /\ pc = "copy" => \A t \in copied : bindings[t] = head
      /\ receipt = head => \A t \in Targets : bindings[t] = head
      /\ pc \in Publishing => receipt = head

TypeInv == ScriptTyped /\ WorldTyped
OrderInv == PublicationOrder /\ Seen
TraceInv == NpmIsOneCommit /\ Traced
-----------------------------------------------------------------------------
(* A command is a sequence of phases. *)
LEMMA CommandsArePhases ==
    ASSUME NEW command \in Commands
    PROVE  command \in Seq(Phase) /\ command # <<>> /\ command[1] \in Phase
<1>1. CASE command = Phases
  BY <1>1 DEF Phases, Phase
<1>2. ASSUME NEW i \in DOMAIN Phases, command = <<Phases[i]>>
      PROVE  command \in Seq(Phase) /\ command # <<>> /\ command[1] \in Phase
  <2>1. Phases \in Seq(Phase)
    BY DEF Phases, Phase
  <2>2. Phases[i] \in Phase
    BY <2>1
  <2> QED
    BY <1>2, <2>2
<1> QED
  BY <1>1, <1>2 DEF Commands

(* A phase that ends, well or not, leaves the script at the start of another
   phase or idle, and its locals forgotten.                                  *)
LEMMA PhaseEnds ==
    ASSUME ScriptTyped, pc # "idle", Die \/ PhaseDone
    PROVE  ScriptTyped' /\ run' = 0 /\ pc' \in Phase \cup {"idle"}
<1>1. CASE Die
  BY <1>1 DEF Die, Forget, Phase, ScriptTyped, Steps, Publishing
<1>2. CASE PhaseDone
  <2>1. todo \in Seq(Phase) /\ todo # <<>>
    BY DEF ScriptTyped
  <2>2. Tail(todo) \in Seq(Phase) /\ (Tail(todo) # <<>> => todo[2] \in Phase)
    BY <2>1
  <2>3. "idle" \notin Phase /\ Phase \cap Publishing = {}
    BY DEF Phase, Publishing
  <2> QED
    BY <1>2, <2>2, <2>3 DEF PhaseDone, Forget, ScriptTyped, Steps, Publishing
<1> QED
  BY <1>1, <1>2

(* A step within a phase. *)
LEMMA PhaseGoesOn ==
    ASSUME ScriptTyped, pc # "idle",
           \/ \E step \in Steps \ {"idle"} :
                 (step \in Publishing => pc \in Publishing) /\ GoTo(step)
           \/ \E p \in Packages : GoToPackage(p)
    PROVE  ScriptTyped' /\ run' = run
  BY DEF ScriptTyped, GoTo, GoToPackage, Steps, Publishing

(* After a package the script looks at the next one, or the phase is done. *)
LEMMA AfterGoesOn ==
    ASSUME NEW p \in Packages, After(p), ScriptTyped, pc # "idle"
    PROVE  ScriptTyped' /\ run' \in {0, run}
<1>1. PhaseDone \/ \E q \in Packages : GoToPackage(q)
  BY DEF After, Packages
<1> QED
  BY <1>1, PhaseEnds, PhaseGoesOn
-----------------------------------------------------------------------------
(* Types *)

LEMMA InitTyped == Init => TypeInv
<1> SUFFICES ASSUME Init PROVE TypeInv
  OBVIOUS
<1>1. NotUploaded \in [commit : Nat, bindings : [Targets -> Nat]]
  BY DEF NotUploaded
<1>2. bindings \in [Targets -> Nat]
  BY DEF Init, NotUploaded
<1>3. uploaded \in [Packages -> [commit : Nat, bindings : [Targets -> Nat]]]
  BY <1>1 DEF Init
<1>4. ScriptTyped
  BY DEF Init, ScriptTyped, Steps, Publishing
<1> QED
  BY <1>2, <1>3, <1>4, BoundsAssumption DEF Init, TypeInv, WorldTyped

(* TypeOK follows. *)
LEMMA TypeInvImpliesTypeOK == TypeInv => TypeOK
  BY BoundsAssumption DEF TypeInv, ScriptTyped, WorldTyped, TypeOK

(* The script is somewhere that it can be, and the run that it watches is one
   of a commit on main.                                                      *)
LEMMA ScriptStaysTyped ==
    ASSUME TypeInv, [Next]_vars
    PROVE  ScriptTyped' /\ run' \in 0..main
<1> USE DEF TypeInv
<1>0. run \in 0..main /\ 0 \in 0..main /\ latest \in 0..main
  BY BoundsAssumption DEF WorldTyped
<1>1. ASSUME NEW command \in Commands, Start(command) PROVE ScriptTyped' /\ run' \in 0..main
  BY <1>0, <1>1, CommandsArePhases DEF Start, ScriptTyped, Steps, Publishing, Phase
<1>2. CASE StepFails
  BY <1>0, <1>2, PhaseEnds DEF StepFails
<1>3. CASE Check
  BY <1>0, <1>3, PhaseEnds, PhaseGoesOn DEF Check, Steps, Publishing
<1>4. CASE ArtifactsStart
  BY <1>0, <1>4, PhaseEnds DEF ArtifactsStart, ScriptTyped, Steps, Publishing
<1>5. CASE Dispatch
  BY <1>0, <1>5, PhaseGoesOn DEF Dispatch, Steps, Publishing
<1>6. CASE WaitForNewRun
  BY <1>0, <1>6 DEF WaitForNewRun, ScriptTyped, Steps, Publishing
<1>7. CASE WatchRun
  BY <1>0, <1>7 DEF WatchRun, ScriptTyped, Steps, Publishing
<1>8. ASSUME NEW t \in Targets, CopyBinding(t) PROVE ScriptTyped' /\ run' \in 0..main
  BY <1>0, <1>8 DEF CopyBinding, ScriptTyped
<1>9. CASE WriteReceipt
  BY <1>0, <1>9, PhaseEnds DEF WriteReceipt
<1>10. CASE PublishStart
  BY <1>0, <1>10, PhaseEnds, PhaseGoesOn DEF PublishStart, Packages
<1>11. ASSUME NEW p \in Packages, Exists(p) PROVE ScriptTyped' /\ run' \in 0..main
  BY <1>0, <1>11, AfterGoesOn, PhaseGoesOn, PhaseEnds DEF Exists, Steps, Publishing
<1>12. ASSUME NEW p \in Packages, Upload(p) PROVE ScriptTyped' /\ run' \in 0..main
  BY <1>0, <1>12, AfterGoesOn, PhaseGoesOn, PhaseEnds DEF Upload, Steps, Publishing
<1>13. ASSUME NEW p \in Packages, WaitForCrate(p) PROVE ScriptTyped' /\ run' \in 0..main
  BY <1>0, <1>13, AfterGoesOn, PhaseGoesOn, PhaseEnds DEF WaitForCrate, Steps, Publishing
<1>14. CASE Tag
  BY <1>0, <1>14, PhaseEnds, PhaseGoesOn DEF Tag, Steps, Publishing
<1>15. CASE Push
  BY <1>0, <1>15, PhaseGoesOn DEF Push, Steps, Publishing
<1>16. CASE WatchRelease
  BY <1>0, <1>16, PhaseEnds DEF WatchRelease
<1>17. CASE Gates \/ Verify
  BY <1>0, <1>17, PhaseEnds DEF Gates, Verify
<1>18. CASE RunListed
  BY <1>0, <1>18 DEF RunListed, ScriptTyped
<1>19. CASE Pull \/ MainMoves \/ CiPasses \/ OthersDispatch
  BY <1>0, <1>19 DEF Pull, MainMoves, CiPasses, OthersDispatch,
       Here, script, ScriptTyped
<1>20. CASE PageMade \/ FormulaUpdated \/ ReleaseEnds
              \/ (\E p \in Packages : RegistryShows(p))
  BY <1>0, <1>20 DEF PageMade, FormulaUpdated, ReleaseEnds, RegistryShows,
       Here, script, ScriptTyped
<1>21. CASE UNCHANGED vars
  BY <1>0, <1>21 DEF vars, script, ScriptTyped
<1> QED
  BY <1>1, <1>2, <1>3, <1>4, <1>5, <1>6, <1>7, <1>8, <1>9, <1>10, <1>11, <1>12,
     <1>13, <1>14, <1>15, <1>16, <1>17, <1>18, <1>19, <1>20, <1>21
  DEF Next, ScriptStep

(* What the script makes of its clone, GitHub and the registries. *)
LEMMA WorldStaysTyped ==
    ASSUME TypeInv, [Next]_vars
    PROVE  WorldTyped'
<1> USE BoundsAssumption DEF clone, github, tagged, registries, Elsewhere, Here
<1>0. WorldTyped /\ ScriptTyped /\ run' \in 0..main
  BY ScriptStaysTyped DEF TypeInv
<1>1. CASE (\E command \in Commands : Start(command)) \/ Gates \/ WaitForNewRun
             \/ WatchRun \/ PublishStart \/ WatchRelease
  BY <1>0, <1>1 DEF Start, Gates, WaitForNewRun, WatchRun, PublishStart, WatchRelease,
       WorldTyped
<1>2. CASE Pull
  BY <1>0, <1>2 DEF Pull, script, WorldTyped
<1>3. CASE StepFails \/ ArtifactsStart
  <2>1. faults' \in 0..MaxFaults
    BY <1>0, <1>3 DEF StepFails, ArtifactsStart, WorldTyped
  <2>2. UNCHANGED <<clone, github, registries>>
    BY <1>3 DEF StepFails, ArtifactsStart
  <2> QED
    BY <1>0, <2>1, <2>2 DEF WorldTyped
<1>4. CASE Dispatch \/ OthersDispatch
  <2>1. unlisted' = Append(unlisted, main)
    BY <1>4 DEF Dispatch, OthersDispatch
  <2>2. unlisted' \in Seq(Nat) /\ \A i \in DOMAIN unlisted' : unlisted'[i] \in 1..main
    BY <1>0, <2>1 DEF WorldTyped
  <2> QED
    BY <1>0, <1>4, <2>2 DEF Dispatch, OthersDispatch, WorldTyped
<1>5. ASSUME NEW t \in Targets, CopyBinding(t) PROVE WorldTyped'
  BY <1>0, <1>5 DEF CopyBinding, WorldTyped
<1>6. CASE WriteReceipt
  BY <1>0, <1>6 DEF WriteReceipt, WorldTyped
<1>7. ASSUME NEW p \in Packages, Exists(p) \/ WaitForCrate(p) PROVE WorldTyped'
  <2>1. faults' \in 0..MaxFaults
    BY <1>0, <1>7 DEF Exists, WaitForCrate, WorldTyped
  <2>2. UNCHANGED <<clone, github, registries>>
    BY <1>7 DEF Exists, WaitForCrate
  <2> QED
    BY <1>0, <2>1, <2>2 DEF WorldTyped
<1>8. ASSUME NEW p \in Packages, Upload(p) PROVE WorldTyped'
  <2>1. CASE uploaded' = uploaded
    BY <1>0, <1>8, <2>1 DEF Upload, WorldTyped
  <2>2. CASE uploaded' = [uploaded EXCEPT ![p] = [commit |-> head, bindings |-> bindings]]
    <3>1. [commit |-> head, bindings |-> bindings]
            \in [commit : Nat, bindings : [Targets -> Nat]]
      BY <1>0 DEF WorldTyped
    <3>2. uploaded' \in [Packages -> [commit : Nat, bindings : [Targets -> Nat]]]
      BY <1>0, <2>2, <3>1 DEF WorldTyped
    <3>3. uploaded'[p] # NotUploaded
      BY <1>0, <2>2 DEF WorldTyped, NotUploaded
    <3>4. \A q \in visible : uploaded'[q] # NotUploaded
      BY <1>0, <2>2, <3>3 DEF WorldTyped
    <3> QED
      BY <1>0, <1>8, <3>2, <3>4 DEF Upload, WorldTyped
  <2> QED
    BY <1>8, <2>1, <2>2 DEF Upload
<1>9. CASE Tag \/ Push \/ Verify
  <2>1. localTag' \in 0..main /\ pushed' \in 0..main
    BY <1>0, <1>9 DEF Tag, Push, Verify, WorldTyped
  <2>2. UNCHANGED <<head, bindings, receipt, main, green, latest, unlisted, registries, faults>>
    BY <1>9 DEF Tag, Push, Verify
  <2> QED
    BY <1>0, <2>1, <2>2 DEF WorldTyped
<1>10. CASE MainMoves
  BY <1>0, <1>10 DEF MainMoves, clone, script, WorldTyped
<1>11. CASE CiPasses
  BY <1>0, <1>11 DEF CiPasses, script, WorldTyped
<1>12. CASE RunListed
  <2>1. unlisted # <<>> /\ unlisted \in Seq(Nat)
    BY <1>0, <1>12 DEF RunListed, WorldTyped
  <2>2. 1 \in DOMAIN unlisted /\ Head(unlisted) = unlisted[1]
    BY <2>1
  <2>3. Tail(unlisted) \in Seq(Nat) /\ \A i \in DOMAIN Tail(unlisted) :
          i + 1 \in DOMAIN unlisted /\ Tail(unlisted)[i] = unlisted[i + 1]
    BY <2>1
  <2> QED
    BY <1>0, <1>12, <2>2, <2>3 DEF RunListed, WorldTyped
<1>13. CASE PageMade \/ FormulaUpdated \/ ReleaseEnds
  <2>1. UNCHANGED <<clone, main, green, latest, unlisted, pushed, registries>>
    BY <1>13 DEF PageMade, FormulaUpdated, ReleaseEnds
  <2>2. faults' \in 0..MaxFaults
    BY <1>0, <1>13 DEF PageMade, FormulaUpdated, ReleaseEnds, WorldTyped
  <2> QED
    BY <1>0, <2>1, <2>2 DEF WorldTyped
<1>14. ASSUME NEW p \in Packages, RegistryShows(p) PROVE WorldTyped'
  BY <1>0, <1>14 DEF RegistryShows, script, WorldTyped
<1>15. CASE Check
  <2>1. head \in Nat /\ bindings \in [Targets -> Nat]
    BY <1>0 DEF WorldTyped
  <2>2. bindings' = bindings \/ bindings' = [bindings EXCEPT ![Host] = head]
    BY <1>15 DEF Check
  <2>3. bindings' \in [Targets -> Nat]
    BY <2>1, <2>2
  <2>4. UNCHANGED <<head, localTag, receipt, github, registries, faults>>
    BY <1>15 DEF Check
  <2> QED
    BY <1>0, <2>3, <2>4 DEF WorldTyped
<1>16. CASE UNCHANGED vars
  BY <1>0, <1>16 DEF vars, script, WorldTyped
<1> QED
  BY <1>1, <1>2, <1>3, <1>4, <1>5, <1>6, <1>7, <1>8, <1>9, <1>10, <1>11, <1>12,
     <1>13, <1>14, <1>15, <1>16
  DEF Next, ScriptStep

LEMMA TypeInvariance == Spec => []TypeInv
<1>1. TypeInv /\ [Next]_vars => TypeInv'
  BY ScriptStaysTyped, WorldStaysTyped DEF TypeInv
<1> QED
  BY InitTyped, <1>1, PTL DEF Spec

(* Every variable keeps its type: the clone, the tags and the workflow runs name
   commits that main has, and a registry shows nothing that was not uploaded,
   whatever fails and however often the phases of release.sh are run again.   *)
THEOREM TypeCorrect == Spec => []TypeOK
  BY TypeInvariance, TypeInvImpliesTypeOK, PTL
-----------------------------------------------------------------------------
(* The order of publication *)

LEMMA SeenOutsidePublish ==
    ASSUME pc' \notin Publishing \cup {"push"} PROVE Seen'
  BY DEF Seen

LEMMA SeenWhenPhaseEnds ==
    ASSUME ScriptTyped, pc # "idle", Die \/ PhaseDone PROVE Seen'
<1>1. pc' \in Phase \cup {"idle"}
  BY PhaseEnds
<1> QED
  BY <1>1, SeenOutsidePublish DEF Phase, Publishing

(* The script goes on after a package only when the registry shows it. *)
LEMMA SeenAfter ==
    ASSUME NEW p \in Packages, ScriptTyped, Seen, pc \in Publishing, pkg = p, p \in visible,
           After(p), visible' = visible
    PROVE  Seen'
<1>1. CASE PhaseDone
  BY <1>1, SeenWhenPhaseEnds DEF Publishing
<1>2. CASE p = "ip-discovery" /\ GoToPackage("ipd")
  BY <1>2 DEF Seen, GoToPackage, Publishing
<1>3. CASE p = "ipd" /\ GoToPackage("npm")
  BY <1>3 DEF Seen, GoToPackage, Publishing
<1> QED
  BY <1>1, <1>2, <1>3 DEF After, Packages

LEMMA OrderStep == TypeInv /\ OrderInv /\ [Next]_vars => OrderInv'
<1> SUFFICES ASSUME TypeInv, OrderInv, [Next]_vars PROVE OrderInv'
  OBVIOUS
<1> USE DEF OrderInv, clone, github, tagged, registries, Elsewhere, Here
<1>0. ScriptTyped /\ WorldTyped
  BY DEF TypeInv
<1>1. ASSUME UNCHANGED <<localTag, release, page, formula, registries>>
      PROVE  PublicationOrder'
  BY <1>1 DEF PublicationOrder
<1>2. CASE \E command \in Commands : Start(command)
  <2>1. PICK command \in Commands : Start(command)
    BY <1>2
  <2>2. pc' \in Phase
    BY <2>1, CommandsArePhases DEF Start
  <2> QED
    BY <1>1, <2>1, <2>2, SeenOutsidePublish DEF Start, Phase, Publishing
<1>3. CASE StepFails \/ Gates \/ WatchRelease \/ Verify \/ WriteReceipt
  <2>1. pc # "idle" /\ (Die \/ PhaseDone)
    BY <1>3 DEF StepFails, Gates, WatchRelease, Verify, WriteReceipt
  <2> QED
    BY <1>0, <1>1, <1>3, <2>1, SeenWhenPhaseEnds
    DEF StepFails, Gates, WatchRelease, Verify, WriteReceipt
<1>4. CASE ArtifactsStart
  <2>1. CASE Die
    BY <1>0, <1>1, <1>4, <2>1, SeenWhenPhaseEnds DEF ArtifactsStart
  <2>2. CASE pc' = "dispatch"
    BY <1>1, <1>4, <2>2, SeenOutsidePublish DEF ArtifactsStart, Publishing
  <2> QED
    BY <1>4, <2>1, <2>2 DEF ArtifactsStart
<1>5. CASE Dispatch \/ WaitForNewRun \/ WatchRun
  BY <1>1, <1>5, SeenOutsidePublish DEF Dispatch, WaitForNewRun, WatchRun, GoTo, Publishing
<1>6. ASSUME NEW t \in Targets, CopyBinding(t) PROVE OrderInv'
  BY <1>1, <1>6, SeenOutsidePublish DEF CopyBinding, Publishing
<1>7. CASE PublishStart
  <2>1. CASE Die
    BY <1>0, <1>1, <1>7, <2>1, SeenWhenPhaseEnds DEF PublishStart
  <2>2. CASE GoToPackage("ip-discovery")
    BY <1>1, <1>7, <2>2 DEF PublishStart, GoToPackage, Seen
  <2> QED
    BY <1>7, <2>1, <2>2 DEF PublishStart
<1>8. ASSUME NEW p \in Packages, Exists(p) PROVE OrderInv'
  <2>1. CASE p \in visible /\ After(p)
    BY <1>0, <1>1, <1>8, <2>1, SeenAfter DEF Exists, Publishing
  <2>2. CASE GoTo("upload")
    BY <1>1, <1>8, <2>2 DEF Exists, GoTo, Seen, Publishing
  <2> QED
    BY <1>8, <2>1, <2>2 DEF Exists
<1>9. ASSUME NEW p \in Packages, Upload(p) PROVE OrderInv'
  <2>1. CASE Die /\ UNCHANGED uploaded
    BY <1>0, <1>1, <1>9, <2>1, SeenWhenPhaseEnds DEF Upload
  <2>2. CASE uploaded' = [uploaded EXCEPT ![p] = [commit |-> head, bindings |-> bindings]]
    <3>1. p = pkg /\ pc = "upload" /\ UNCHANGED <<visible, localTag, release, page, formula>>
      BY <1>9 DEF Upload
    <3>2. \A q \in Packages : q # p => uploaded'[q] = uploaded[q]
      BY <1>0, <2>2 DEF WorldTyped
    <3>3. p = "ipd" => "ip-discovery" \in visible
      BY <3>1 DEF Seen, Publishing
    <3>4. p = "npm" => {"ip-discovery", "ipd"} \subseteq visible
      BY <3>1 DEF Seen, Publishing
    <3>5. uploaded'["ipd"] # NotUploaded => "ip-discovery" \in visible
      BY <3>2, <3>3 DEF PublicationOrder, Packages
    <3>6. uploaded'["npm"] # NotUploaded => {"ip-discovery", "ipd"} \subseteq visible
      BY <3>2, <3>4 DEF PublicationOrder, Packages
    <3>7. PublicationOrder'
      BY <3>1, <3>5, <3>6 DEF PublicationOrder
    <3>8. Seen'
      <4>1. CASE PhaseDone \/ Die
        BY <1>0, <3>1, <4>1, SeenWhenPhaseEnds
      <4>2. CASE GoTo("wait")
        BY <3>1, <4>2 DEF GoTo, Seen, Publishing
      <4> QED
        BY <1>9, <4>1, <4>2 DEF Upload, After
    <3> QED
      BY <3>7, <3>8
  <2> QED
    BY <1>9, <2>1, <2>2 DEF Upload
<1>10. ASSUME NEW p \in Packages, WaitForCrate(p) PROVE OrderInv'
  BY <1>0, <1>1, <1>10, SeenAfter DEF WaitForCrate, Publishing
<1>11. CASE Tag
  <2>1. CASE visible = Packages /\ GoTo("push")
    BY <1>11, <2>1 DEF Tag, GoTo, PublicationOrder, Seen, Publishing
  <2>2. CASE Die /\ UNCHANGED clone
    BY <1>0, <1>1, <1>11, <2>2, SeenWhenPhaseEnds DEF Tag
  <2>3. CASE GoTo("release") /\ UNCHANGED clone
    BY <1>1, <1>11, <2>3, SeenOutsidePublish DEF Tag, GoTo, Publishing
  <2> QED
    BY <1>11, <2>1, <2>2, <2>3 DEF Tag
<1>12. CASE Push
  BY <1>12, SeenOutsidePublish DEF Push, GoTo, Publishing, PublicationOrder, Seen
<1>13. CASE Pull \/ MainMoves \/ CiPasses \/ OthersDispatch \/ RunListed
  BY <1>1, <1>13 DEF Pull, MainMoves, CiPasses, OthersDispatch, RunListed, script, Seen
<1>14. CASE PageMade \/ FormulaUpdated \/ ReleaseEnds
  <2>1. visible = Packages
    BY <1>14 DEF PageMade, FormulaUpdated, ReleaseEnds, PublicationOrder
  <2>2. UNCHANGED <<script, localTag, registries>>
    BY <1>14 DEF PageMade, FormulaUpdated, ReleaseEnds
  <2> QED
    BY <2>1, <2>2 DEF script, Seen, PublicationOrder
<1>15. ASSUME NEW p \in Packages, RegistryShows(p) PROVE OrderInv'
  <2>1. visible \subseteq Packages /\ visible' = visible \cup {p}
    BY <1>0, <1>15 DEF RegistryShows, WorldTyped
  <2> QED
    BY <1>15, <2>1 DEF RegistryShows, script, Seen, PublicationOrder
<1>16. CASE Check
  <2>1. CASE Die
    BY <1>0, <1>1, <1>16, <2>1, SeenWhenPhaseEnds DEF Check
  <2>2. CASE GoTo("gates")
    BY <1>1, <1>16, <2>2, SeenOutsidePublish DEF Check, GoTo, Publishing
  <2> QED
    BY <1>16, <2>1, <2>2 DEF Check
<1>17. CASE UNCHANGED vars
  BY <1>1, <1>17 DEF vars, script, Seen
<1> QED
  BY <1>2, <1>3, <1>4, <1>5, <1>6, <1>7, <1>8, <1>9, <1>10, <1>11, <1>12,
     <1>13, <1>14, <1>15, <1>16, <1>17
  DEF Next, ScriptStep

(* phase_publish and phase_tag: ipd appears only after ip-discovery can be seen,
   the npm package after both, the tag, the GitHub release and the Homebrew
   formula after all three; for any failures, repeated phases and commits in
   between.                                                                  *)
THEOREM PublicationInOrder == Spec => []PublicationOrder
<1>1. Init => OrderInv
  BY DEF Init, OrderInv, PublicationOrder, Seen, Publishing, Packages
<1>2. Spec => []OrderInv
  BY <1>1, TypeInvariance, OrderStep, PTL DEF Spec
<1> QED
  BY <1>2, PTL DEF OrderInv
-----------------------------------------------------------------------------
(* The commit of the npm package *)

(* A step that leaves HEAD, the receipt, the bindings and the workflow runs alone,
   and that leaves the script where Traced asks nothing of it.               *)
LEMMA TracedQuietly ==
    ASSUME Traced, calm' => calm, UNCHANGED <<head, receipt, bindings>>,
           pc' \notin Publishing \cup {"dispatch", "appear", "watch", "copy"}
    PROVE  Traced'
  BY DEF Traced, Publishing

LEMMA TracedWhenPhaseEnds ==
    ASSUME ScriptTyped, pc # "idle", Die \/ PhaseDone,
           Traced, calm' => calm, UNCHANGED <<head, receipt, bindings>>
    PROVE  Traced'
<1>1. pc' \in Phase \cup {"idle"}
  BY PhaseEnds
<1> QED
  BY <1>1, TracedQuietly DEF Phase, Publishing

LEMMA TracedWhilePublishing ==
    ASSUME Traced, calm' => calm, UNCHANGED <<head, receipt, bindings>>,
           receipt = head \/ pc \in Publishing, pc' \in Publishing
    PROVE  Traced'
  BY DEF Traced, Publishing

LEMMA TracedAfter ==
    ASSUME NEW p \in Packages, ScriptTyped, Traced, calm' => calm,
           UNCHANGED <<head, receipt, bindings>>, pc \in Publishing, After(p)
    PROVE  Traced'
<1>1. CASE PhaseDone
  BY <1>1, TracedWhenPhaseEnds DEF Publishing
<1>2. CASE \E q \in Packages : GoToPackage(q)
  BY <1>2, TracedWhilePublishing DEF GoToPackage, Publishing
<1> QED
  BY <1>1, <1>2 DEF After, Packages

(* What was uploaded to npm stays; the steps of npm's own upload are below. *)
LEMMA NpmStays ==
    ASSUME NpmIsOneCommit, calm' => calm, uploaded'["npm"] = uploaded["npm"]
    PROVE  NpmIsOneCommit'
  BY DEF NpmIsOneCommit, NotUploaded

LEMMA TraceStep == TypeInv /\ TraceInv /\ [Next]_vars => TraceInv'
<1> SUFFICES ASSUME TypeInv, TraceInv, [Next]_vars PROVE TraceInv'
  OBVIOUS
<1> USE DEF TraceInv, clone, github, tagged, registries, Elsewhere, Here
<1>0. ScriptTyped /\ WorldTyped
  BY DEF TypeInv
<1>1. ASSUME UNCHANGED <<calm, uploaded>> PROVE NpmIsOneCommit' /\ (calm' => calm)
  BY <1>1, NpmStays
<1>2. CASE \E command \in Commands : Start(command)
  <2>1. PICK command \in Commands : Start(command)
    BY <1>2
  <2>2. pc' \in Phase
    BY <2>1, CommandsArePhases DEF Start
  <2> QED
    BY <1>1, <2>1, <2>2, TracedQuietly DEF Start, Phase, Publishing
<1>3. CASE Pull
  <2>1. pc = "idle" /\ pc' = "idle" /\ receipt' = receipt /\ receipt' # head'
    BY <1>0, <1>3, BoundsAssumption DEF Pull, script, WorldTyped
  <2>2. Traced'
    BY <2>1 DEF Traced, Publishing
  <2> QED
    BY <1>1, <1>3, <2>2 DEF Pull
<1>4. CASE StepFails \/ Gates \/ WatchRelease \/ Verify
  <2>1. pc # "idle" /\ (Die \/ PhaseDone)
    BY <1>4 DEF StepFails, Gates, WatchRelease, Verify
  <2> QED
    BY <1>0, <1>1, <1>4, <2>1, TracedWhenPhaseEnds DEF StepFails, Gates, WatchRelease, Verify
<1>5. CASE ArtifactsStart
  <2>1. UNCHANGED <<clone, github, registries>>
    BY <1>5 DEF ArtifactsStart
  <2>2. CASE Die /\ UNCHANGED calm
    BY <1>0, <1>1, <1>5, <2>1, <2>2, TracedWhenPhaseEnds DEF ArtifactsStart
  <2>3. CASE pc' = "dispatch" /\ calm' = (calm /\ known' /\ unlisted = <<>>)
    <3>1. calm' => calm /\ known' /\ unlisted' = <<>>
      BY <2>1, <2>3
    <3> QED
      BY <2>1, <2>3, <3>1, NpmStays DEF Traced, Publishing
  <2> QED
    BY <1>5, <2>2, <2>3 DEF ArtifactsStart
<1>6. CASE Dispatch
  <2>1. calm' => calm /\ main = head
    BY <1>6 DEF Dispatch
  <2>2. calm => known /\ unlisted = <<>>
    BY <1>6 DEF Dispatch, Traced
  <2>3. known' = known /\ head' = head /\ unlisted' = Append(unlisted, main)
    BY <1>6 DEF Dispatch, GoTo
  <2>4. Append(<<>>, head) = <<head>>
    OBVIOUS
  <2>5. calm' => known' /\ unlisted' = <<head'>>
    BY <2>1, <2>2, <2>3, <2>4
  <2> QED
    BY <1>6, <2>1, <2>5, NpmStays DEF Dispatch, GoTo, Traced, Publishing
<1>7. CASE WaitForNewRun
  BY <1>1, <1>7 DEF WaitForNewRun, Traced, Publishing
<1>8. CASE WatchRun
  BY <1>1, <1>8 DEF WatchRun, Traced, Publishing
<1>9. ASSUME NEW t \in Targets, CopyBinding(t) PROVE TraceInv'
  <2>1. bindings' = [bindings EXCEPT ![t] = run] /\ bindings \in [Targets -> Nat]
    BY <1>0, <1>9 DEF CopyBinding, WorldTyped
  <2>2. calm => run = head
    BY <1>9 DEF CopyBinding, Traced
  <2>3. calm' => \A u \in copied' : bindings'[u] = head
    BY <1>9, <2>1, <2>2 DEF CopyBinding, Traced
  <2>4. calm' /\ receipt = head => \A u \in Targets : bindings'[u] = head
    BY <1>9, <2>1, <2>2 DEF CopyBinding, Traced
  <2> QED
    BY <1>1, <1>9, <2>2, <2>3, <2>4 DEF CopyBinding, Traced, Publishing
<1>10. CASE WriteReceipt
  <2>1. calm => \A t \in Targets : bindings[t] = head
    BY <1>10 DEF WriteReceipt, Traced
  <2>2. pc' \in Phase \cup {"idle"}
    BY <1>0, <1>10, PhaseEnds DEF WriteReceipt
  <2>3. Traced'
    BY <1>10, <2>1, <2>2 DEF WriteReceipt, Traced, Phase, Publishing
  <2> QED
    BY <1>1, <1>10, <2>3 DEF WriteReceipt
<1>11. CASE PublishStart
  <2>1. CASE Die
    BY <1>0, <1>1, <1>11, <2>1, TracedWhenPhaseEnds DEF PublishStart
  <2>2. CASE receipt = head /\ GoToPackage("ip-discovery")
    BY <1>1, <1>11, <2>2, TracedWhilePublishing DEF PublishStart, GoToPackage, Publishing
  <2> QED
    BY <1>11, <2>1, <2>2 DEF PublishStart
<1>12. ASSUME NEW p \in Packages, Exists(p) \/ WaitForCrate(p) PROVE TraceInv'
  <2>1. UNCHANGED <<clone, registries, calm>> /\ pc \in Publishing
    BY <1>12 DEF Exists, WaitForCrate, Publishing
  <2>2. After(p) \/ GoTo("upload")
    BY <1>12 DEF Exists, WaitForCrate
  <2>3. CASE After(p)
    BY <1>0, <1>1, <2>1, <2>3, TracedAfter
  <2>4. CASE GoTo("upload")
    BY <1>1, <2>1, <2>4, TracedWhilePublishing DEF GoTo, Publishing
  <2> QED
    BY <2>2, <2>3, <2>4
<1>13. ASSUME NEW p \in Packages, Upload(p) PROVE TraceInv'
  <2>1. UNCHANGED <<clone, calm>> /\ pc = "upload" /\ pc \in Publishing
    BY <1>13 DEF Upload, Publishing
  <2>2. Traced'
    <3>1. CASE Die
      BY <1>0, <2>1, <3>1, TracedWhenPhaseEnds
    <3>2. CASE After(p)
      BY <1>0, <2>1, <3>2, TracedAfter
    <3>3. CASE GoTo("wait")
      BY <2>1, <3>3, TracedWhilePublishing DEF GoTo, Publishing
    <3> QED
      BY <1>13, <3>1, <3>2, <3>3 DEF Upload
  <2>3. NpmIsOneCommit'
    <3>1. CASE uploaded' = uploaded
      BY <1>1, <2>1, <3>1
    <3>2. CASE uploaded' = [uploaded EXCEPT ![p] = [commit |-> head, bindings |-> bindings]]
      <4>1. uploaded'[p] = [commit |-> head, bindings |-> bindings]
        BY <1>0, <3>2 DEF WorldTyped
      <4>2. calm => \A t \in Targets : bindings[t] = head
        BY <2>1 DEF Traced
      <4>3. CASE p = "npm"
        BY <2>1, <4>1, <4>2, <4>3 DEF NpmIsOneCommit
      <4>4. CASE p # "npm"
        <5>1. uploaded'["npm"] = uploaded["npm"]
          BY <1>0, <3>2, <4>4 DEF WorldTyped
        <5> QED
          BY <2>1, <5>1, NpmStays
      <4> QED
        BY <4>3, <4>4
    <3> QED
      BY <1>13, <3>1, <3>2 DEF Upload
  <2> QED
    BY <2>2, <2>3
<1>14. CASE Tag
  <2>1. UNCHANGED <<head, receipt, bindings, registries, calm>>
    BY <1>14 DEF Tag
  <2>2. CASE Die
    BY <1>0, <1>1, <1>14, <2>1, <2>2, TracedWhenPhaseEnds DEF Tag
  <2>3. CASE GoTo("release") \/ GoTo("push")
    BY <1>1, <2>1, <2>3, TracedQuietly DEF GoTo, Publishing
  <2> QED
    BY <1>14, <2>2, <2>3 DEF Tag
<1>15. CASE Push
  BY <1>1, <1>15, TracedQuietly DEF Push, GoTo, Publishing
<1>16. CASE MainMoves \/ CiPasses
  BY <1>1, <1>16 DEF MainMoves, CiPasses, script, Traced
<1>17. CASE OthersDispatch
  BY <1>17 DEF OthersDispatch, NpmIsOneCommit, Traced
<1>18. CASE RunListed
  <2>1. calm /\ pc = "appear" => unlisted = <<head>>
    BY <1>18 DEF RunListed, Traced
  <2>2. calm => pc # "dispatch"
    BY <1>18 DEF RunListed, Traced
  <2>3. Head(<<head>>) = head /\ Tail(<<head>>) = <<>>
    OBVIOUS
  <2>4. latest' = Head(unlisted) /\ unlisted' = Tail(unlisted) /\ known' = FALSE
    BY <1>18 DEF RunListed
  <2>5. calm /\ pc = "appear" => ~known' /\ unlisted' = <<>> /\ latest' = head
    BY <2>1, <2>3, <2>4
  <2> QED
    BY <1>1, <1>18, <2>2, <2>5 DEF RunListed, Traced
<1>19. CASE PageMade \/ FormulaUpdated \/ ReleaseEnds
              \/ (\E p \in Packages : RegistryShows(p))
  <2>1. UNCHANGED <<clone, script, unlisted, latest, calm>> /\ uploaded' = uploaded
    BY <1>19 DEF PageMade, FormulaUpdated, ReleaseEnds, RegistryShows
  <2> QED
    BY <1>1, <2>1 DEF script, Traced
<1>20. CASE Check
  <2>1. CASE Die /\ UNCHANGED bindings
    BY <1>0, <1>1, <1>20, <2>1, TracedWhenPhaseEnds DEF Check
  <2>2. CASE bindings' = [bindings EXCEPT ![Host] = head] /\ GoTo("gates")
    <3>1. \A t \in Targets : bindings[t] = head => bindings'[t] = head
      BY <1>0, <2>2 DEF WorldTyped
    <3> QED
      BY <1>1, <1>20, <2>2, <3>1 DEF Check, GoTo, Traced, Publishing
  <2> QED
    BY <1>20, <2>1, <2>2 DEF Check
<1>21. CASE UNCHANGED vars
  BY <1>1, <1>21 DEF vars, script, Traced
<1> QED
  BY <1>2, <1>3, <1>4, <1>5, <1>6, <1>7, <1>8, <1>9, <1>10, <1>11, <1>12,
     <1>13, <1>14, <1>15, <1>16, <1>17, <1>18, <1>19, <1>20, <1>21
  DEF Next, ScriptStep

(* phase_artifacts and phase_publish: while nobody else starts publish.yml and its
   runs can be listed, npm gets bindings that were all built from the commit it
   is published from, whatever fails and however often a phase is run again.   *)
THEOREM NpmOfOneCommit == Spec => []NpmIsOneCommit
<1>1. Init => TraceInv
  BY DEF Init, TraceInv, NpmIsOneCommit, Traced, Publishing, Packages
<1>2. Spec => []TraceInv
  BY <1>1, TypeInvariance, TraceStep, PTL DEF Spec
<1> QED
  BY <1>2, PTL DEF TraceInv
=============================================================================
