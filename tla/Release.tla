-------------------------------- MODULE Release --------------------------------
(* scripts/release.sh: the phases of one version's release, run together or one
   by one and again after a failure, against GitHub and the registries.  Every
   step may fail; main may move and others may start workflows meanwhile.  A
   commit is its number on main, 0 is none.  The --dry-run mode is left out.  *)
EXTENDS Integers, Sequences, FiniteSets

CONSTANTS
    Targets,        \* EXPECTED_BINDINGS
    Host,           \* the platform of the maintainer's machine
    MaxCommits,     \* bounds of the model: commits on main,
    MaxUnlisted,    \* workflow runs that GitHub does not list yet,
    MaxFaults       \* and failures of steps of the script

ASSUME BoundsAssumption ==
    MaxCommits \in Nat \ {0} /\ MaxUnlisted \in Nat \ {0} /\ MaxFaults \in Nat

(* On another machine phase_check leaves a fifth binding in node/, and
   validate_bindings_dir dies ever after.                                    *)
ASSUME HostAssumption == Host \in Targets

VARIABLES
    head, localTag, bindings, receipt,          \* the maintainer's clone
    todo, pc, pkg, known, run, copied,          \* the script: phases to come, locals
    main, green, latest, unlisted,              \* GitHub: commits, and runs of publish.yml
    pushed, release, page, formula,             \* GitHub: the tag, its workflow, what it makes
    uploaded, visible,                          \* crates.io and npm
    verified,                                   \* did verify pass?
    faults,                                     \* failures so far
    calm                                        \* history: see ArtifactsStart

clone == <<head, localTag, bindings, receipt>>
script == <<todo, pc, pkg, known, run, copied>>
tagged == <<pushed, release, page, formula>>
github == <<main, green, latest, unlisted, tagged>>
registries == <<uploaded, visible>>
vars == <<clone, script, github, registries, verified, faults, calm>>

Packages == {"ip-discovery", "ipd", "npm"}
Phases == <<"check", "artifacts", "publish", "tag", "verify">>
Commands == {Phases} \cup {<<Phases[i]>> : i \in DOMAIN Phases}

NotUploaded == [commit |-> 0, bindings |-> [t \in Targets |-> 0]]
-----------------------------------------------------------------------------
Elsewhere == UNCHANGED <<github, registries, verified, calm>>
Here == UNCHANGED <<clone, script, verified, faults>>

(* The locals end with the script, and with each phase. *)
Forget == pkg' = "none" /\ known' = FALSE /\ run' = 0 /\ copied' = {}

(* Mutation: the phases to come stay scheduled. *)
DieKeepsTodo == pc' = "idle" /\ Forget /\ UNCHANGED todo

(* die, an error under set -e, or the end of the terminal *)
Die == todo' = <<>> /\ pc' = "idle" /\ Forget

GoTo(step) == pc' = step /\ UNCHANGED <<todo, pkg, known, run, copied>>

GoToPackage(p) == pc' = "exists" /\ pkg' = p /\ UNCHANGED <<todo, known, run, copied>>

PhaseDone ==
    /\ todo' = Tail(todo)
    /\ pc' = IF Tail(todo) = <<>> THEN "idle" ELSE todo[2]
    /\ Forget

(* The maintainer starts a command, or first brings the clone up to date. *)
Start(command) ==
    /\ pc = "idle" /\ ~verified
    /\ todo' = command /\ pc' = command[1]
    /\ UNCHANGED <<clone, pkg, known, run, copied, faults>> /\ Elsewhere

Pull ==
    /\ pc = "idle" /\ head # main
    /\ head' = main
    /\ UNCHANGED <<localTag, bindings, receipt, script, faults>> /\ Elsewhere

(* A command of the script fails, is interrupted, or its polls run out. *)
StepFails ==
    /\ pc # "idle" /\ faults < MaxFaults
    /\ faults' = faults + 1
    /\ Die
    /\ UNCHANGED clone /\ Elsewhere
-----------------------------------------------------------------------------
(* assert_clean_main *)
CleanMain == head = main

(* phase_check up to the build of the host's binding, and the gates after it. *)
Check ==
    /\ pc = "check"
    /\ IF CleanMain /\ head \in green
         THEN bindings' = [bindings EXCEPT ![Host] = head] /\ GoTo("gates")
         ELSE Die /\ UNCHANGED bindings
    /\ UNCHANGED <<head, localTag, receipt, faults>> /\ Elsewhere

Gates ==
    /\ pc = "gates"
    /\ PhaseDone
    /\ UNCHANGED <<clone, faults>> /\ Elsewhere

(* phase_artifacts.  A run of publish.yml is the commit that it builds.  The script
   remembers the latest run that is listed; when that query fails, no run is
   known.  A history is calm as long as the query succeeds and shows every run,
   the workflow starts at HEAD, and nobody else starts one.                  *)
ArtifactsStart ==
    /\ pc = "artifacts"
    /\ IF ~CleanMain THEN Die /\ UNCHANGED <<faults, calm>>
       ELSE /\ \/ known' = TRUE /\ UNCHANGED faults
               \/ known' = FALSE /\ faults < MaxFaults /\ faults' = faults + 1
            /\ calm' = (calm /\ known' /\ unlisted = <<>>)
            /\ pc' = "dispatch" /\ UNCHANGED <<todo, pkg, run, copied>>
    /\ UNCHANGED <<clone, github, registries, verified>>

Dispatch ==
    /\ pc = "dispatch" /\ Len(unlisted) < MaxUnlisted
    /\ unlisted' = Append(unlisted, main)
    /\ calm' = (calm /\ main = head)
    /\ GoTo("appear")
    /\ UNCHANGED <<clone, main, green, latest, tagged, registries, verified, faults>>

(* Mutation: any run that is listed counts as the new one. *)
WaitForNewRunAny ==
    /\ pc = "appear" /\ latest # 0
    /\ run' = latest
    /\ pc' = "watch" /\ UNCHANGED <<todo, pkg, known, copied>>
    /\ UNCHANGED <<clone, faults>> /\ Elsewhere

WaitForNewRun ==
    /\ pc = "appear" /\ latest # 0 /\ ~known
    /\ run' = latest
    /\ pc' = "watch" /\ UNCHANGED <<todo, pkg, known, copied>>
    /\ UNCHANGED <<clone, faults>> /\ Elsewhere

(* The run ends well; one that fails is a step that fails. *)
WatchRun ==
    /\ pc = "watch"
    /\ pc' = "copy" /\ copied' = {} /\ UNCHANGED <<todo, pkg, known, run>>
    /\ UNCHANGED <<clone, faults>> /\ Elsewhere

CopyBinding(t) ==
    /\ pc = "copy" /\ t \notin copied
    /\ bindings' = [bindings EXCEPT ![t] = run]
    /\ copied' = copied \cup {t}
    /\ UNCHANGED <<head, localTag, receipt, todo, pc, pkg, known, run, faults>> /\ Elsewhere

WriteReceipt ==
    /\ pc = "copy" /\ copied = Targets
    /\ receipt' = head
    /\ PhaseDone
    /\ UNCHANGED <<head, localTag, bindings, faults>> /\ Elsewhere
-----------------------------------------------------------------------------
(* phase_publish: the receipt names the version and HEAD, the bindings are there. *)
PublishStart ==
    /\ pc = "publish"
    /\ IF CleanMain /\ receipt = head /\ \A t \in Targets : bindings[t] # 0
         THEN GoToPackage("ip-discovery") ELSE Die
    /\ UNCHANGED <<clone, faults>> /\ Elsewhere

After(p) == IF p = "ip-discovery" THEN GoToPackage("ipd")
            ELSE IF p = "ipd" THEN GoToPackage("npm") ELSE PhaseDone

(* Mutation: what exists already is not skipped. *)
ExistsUnasked(p) ==
    /\ pc = "exists" /\ pkg = p
    /\ GoTo("upload")
    /\ UNCHANGED <<clone, faults>> /\ Elsewhere

(* crate_exists, npm_exists: skip what exists; a query that fails says that it
   does not.                                                                 *)
Exists(p) ==
    /\ pc = "exists" /\ pkg = p
    /\ \/ p \in visible /\ After(p) /\ UNCHANGED faults
       \/ p \notin visible /\ GoTo("upload") /\ UNCHANGED faults
       \/ /\ p \in visible /\ faults < MaxFaults
          /\ faults' = faults + 1 /\ GoTo("upload")
    /\ UNCHANGED clone /\ Elsewhere

(* Mutation: the script does not wait for a crate to be visible. *)
UploadUnawaited(p) ==
    /\ pc = "upload" /\ pkg = p
    /\ IF uploaded[p] # NotUploaded THEN Die /\ UNCHANGED uploaded
       ELSE /\ uploaded' = [uploaded EXCEPT ![p] = [commit |-> head, bindings |-> bindings]]
            /\ After(p)
    /\ UNCHANGED <<clone, github, visible, verified, faults, calm>>

(* cargo publish, npm publish; a registry refuses a version it has already. *)
Upload(p) ==
    /\ pc = "upload" /\ pkg = p
    /\ IF uploaded[p] # NotUploaded THEN Die /\ UNCHANGED uploaded
       ELSE /\ uploaded' = [uploaded EXCEPT ![p] = [commit |-> head, bindings |-> bindings]]
            /\ IF p = "npm" THEN After(p) ELSE GoTo("wait")
    /\ UNCHANGED <<clone, github, visible, verified, faults, calm>>

WaitForCrate(p) ==
    /\ pc = "wait" /\ pkg = p /\ p \in visible
    /\ After(p)
    /\ UNCHANGED <<clone, faults>> /\ Elsewhere
-----------------------------------------------------------------------------
(* phase_tag.  A tag on origin is left alone, one in the clone must be at HEAD;
   else a tag is made there.  A tag has no release run before it is pushed.  *)
Tag ==
    /\ pc = "tag"
    /\ IF ~CleanMain \/ visible # Packages THEN Die /\ UNCHANGED clone
       ELSE IF pushed # 0 THEN GoTo("release") /\ UNCHANGED clone
       ELSE IF localTag \notin {0, head} THEN Die /\ UNCHANGED clone
       ELSE /\ localTag' = head
            /\ GoTo("push") /\ UNCHANGED <<head, bindings, receipt>>
    /\ UNCHANGED faults /\ Elsewhere

Push ==
    /\ pc = "push"
    /\ pushed' = localTag /\ release' = "waiting"
    /\ GoTo("release")
    /\ UNCHANGED <<clone, main, green, latest, unlisted, page, formula, registries, verified,
                   faults, calm>>

WatchRelease ==
    /\ pc = "release" /\ release \in {"success", "failure"}
    /\ IF release = "success" THEN PhaseDone ELSE Die
    /\ UNCHANGED <<clone, faults>> /\ Elsewhere

(* phase_verify.  A formula of an earlier version is refused, one that is missing
   or cannot be read is let pass.                                            *)
Verify ==
    /\ pc = "verify"
    /\ \/ verified' = (visible = Packages /\ page)
       \/ ~formula /\ verified' = FALSE
    /\ IF verified' THEN PhaseDone ELSE Die
    /\ UNCHANGED <<clone, github, registries, faults, calm>>

ScriptStep ==
    \/ Check \/ Gates
    \/ ArtifactsStart \/ Dispatch \/ WaitForNewRun \/ WatchRun
    \/ (\E t \in Targets : CopyBinding(t)) \/ WriteReceipt
    \/ PublishStart \/ \E p \in Packages : Exists(p) \/ Upload(p)
    \/ \E p \in Packages \ {"npm"} : WaitForCrate(p)
    \/ Tag \/ Push \/ WatchRelease
    \/ Verify
-----------------------------------------------------------------------------
(* GitHub, the registries and other people *)
MainMoves ==
    /\ main < MaxCommits
    /\ main' = main + 1
    /\ UNCHANGED <<green, latest, unlisted, tagged, registries, calm>> /\ Here

CiPasses ==
    /\ main \notin green
    /\ green' = green \cup {main}
    /\ UNCHANGED <<main, latest, unlisted, tagged, registries, calm>> /\ Here

(* Somebody else starts publish.yml on main; the bound leaves the script room. *)
OthersDispatch ==
    /\ Len(unlisted) + 1 < MaxUnlisted
    /\ unlisted' = Append(unlisted, main)
    /\ calm' = FALSE
    /\ UNCHANGED <<main, green, latest, tagged, registries>> /\ Here

RunListed ==
    /\ unlisted # <<>>
    /\ latest' = Head(unlisted) /\ unlisted' = Tail(unlisted)
    /\ known' = FALSE
    /\ UNCHANGED <<clone, todo, pc, pkg, run, copied, main, green, tagged, registries,
                   verified, faults, calm>>

(* The release workflow of cargo-dist, which the tag starts: it makes the GitHub
   release, then the Homebrew formula of this (final) version, and
   may fail before, between or after them.                                   *)
PageMade ==
    /\ release = "waiting" /\ ~page
    /\ page' = TRUE
    /\ UNCHANGED <<main, green, latest, unlisted, pushed, release, formula, registries, calm>>
    /\ Here

FormulaUpdated ==
    /\ release = "waiting" /\ page /\ ~formula
    /\ formula' = TRUE
    /\ UNCHANGED <<main, green, latest, unlisted, pushed, release, page, registries, calm>>
    /\ Here

ReleaseEnds ==
    /\ release = "waiting"
    /\ \/ release' = "success" /\ formula /\ UNCHANGED faults
       \/ release' = "failure" /\ faults < MaxFaults /\ faults' = faults + 1
    /\ UNCHANGED <<clone, script, main, green, latest, unlisted, pushed, page, formula,
                   registries, verified, calm>>

RegistryShows(p) ==
    /\ uploaded[p] # NotUploaded /\ p \notin visible
    /\ visible' = visible \cup {p}
    /\ UNCHANGED <<github, uploaded, calm>> /\ Here

Init ==
    /\ head = 1 /\ localTag = 0 /\ receipt = 0
    /\ bindings = NotUploaded.bindings
    /\ todo = <<>> /\ pc = "idle" /\ pkg = "none" /\ known = FALSE /\ run = 0 /\ copied = {}
    /\ main = 1 /\ green = {} /\ latest = 0 /\ unlisted = <<>>
    /\ pushed = 0 /\ release = "none" /\ page = FALSE /\ formula = FALSE
    /\ uploaded = [p \in Packages |-> NotUploaded] /\ visible = {}
    /\ verified = FALSE /\ faults = 0 /\ calm = TRUE

Next ==
    \/ \E command \in Commands : Start(command)
    \/ Pull \/ StepFails \/ ScriptStep
    \/ MainMoves \/ CiPasses \/ OthersDispatch \/ RunListed
    \/ PageMade \/ FormulaUpdated \/ ReleaseEnds
    \/ \E p \in Packages : RegistryShows(p)

Spec == Init /\ [][Next]_vars

(* The script runs, GitHub and the registries do their part, and the maintainer
   keeps the clone up to date and runs everything again until it is verified. *)
FairSpec ==
    /\ Spec
    /\ WF_vars(ScriptStep) /\ SF_vars(Pull) /\ SF_vars(head = main /\ Start(Phases))
    /\ WF_vars(CiPasses) /\ WF_vars(RunListed)
    /\ WF_vars(PageMade) /\ WF_vars(FormulaUpdated) /\ WF_vars(ReleaseEnds)
    /\ \A p \in Packages : WF_vars(RegistryShows(p))
-----------------------------------------------------------------------------
(* Properties *)

TypeOK ==
    /\ {head, main} \subseteq 1..MaxCommits /\ head <= main
    /\ {localTag, receipt, pushed} \subseteq 0..main
    /\ green \subseteq 1..main
    /\ {latest, run} \subseteq 0..main /\ \A i \in DOMAIN unlisted : unlisted[i] \in 1..main
    /\ (pc = "idle") = (todo = <<>>) /\ pkg \in Packages \cup {"none"}
    /\ visible \subseteq {p \in Packages : uploaded[p] # NotUploaded}
    /\ faults \in 0..MaxFaults

(* Whatever fails and whatever phase is run again, at whatever commit: the
   command line tool appears only after the library can be seen, the npm package
   after both crates, the tag, its release and its formula after all three.  *)
PublicationOrder ==
    /\ uploaded["ipd"] # NotUploaded => "ip-discovery" \in visible
    /\ uploaded["npm"] # NotUploaded => {"ip-discovery", "ipd"} \subseteq visible
    /\ localTag # 0 => visible = Packages
    /\ release # "none" \/ page \/ formula => visible = Packages

(* In a calm history all native bindings in the npm package were built from the
   commit that the package was published from, although artifacts may have
   stopped after any of them, or have been run at an earlier commit.         *)
NpmIsOneCommit ==
    calm /\ uploaded["npm"] # NotUploaded =>
        \A t \in Targets : uploaded["npm"].bindings[t] = uploaded["npm"].commit

(* Running everything again after finitely many failures completes the release,
   unless the tag's workflow failed, or a tag that was made but not pushed was
   left behind by main.                                                      *)
Completes ==
    <>(\/ verified
       \/ release = "failure"
       \/ (pushed = 0 /\ localTag # 0 /\ localTag # main))
=============================================================================
