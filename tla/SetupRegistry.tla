---------------------------- MODULE SetupRegistry ----------------------------
(***************************************************************************)
(* The steps of setup.sh as data, and what the code decides from them: the *)
(* registry itself (setup/golfcart_setup/registry.py), the questions asked *)
(* about the machine (model.py), and the selection of an unattended run    *)
(* (main.py).  Labels, reasons and argument vectors are left out; `needs'  *)
(* is what the preflight fragments of a step's command test for before     *)
(* they let it run.                                                        *)
(***************************************************************************)
EXTENDS Naturals, Sequences, FiniteSets

PROFILES == <<"dev", "vehicle", "all", "none", "ci">>
DECLARED == {"dev", "vehicle", "ci"}

DEV     == {"dev", "vehicle"}
EVERY   == {"dev", "vehicle", "ci"}
VEHICLE == {"vehicle"}
OPT_IN  == {}

\* Requires: sudo, the architectures it is for (none: any), hardware, reboot.
Root   == [sudo |-> TRUE,  arch |-> {}, hardware |-> "any"]
NoRoot == [Root EXCEPT !.sudo = FALSE]
RootFor(hardware) == [Root EXCEPT !.hardware = hardware]
Jetson(hardware)  == [RootFor(hardware) EXCEPT !.arch = {"aarch64"}]

Step(id, after, profiles, requires) ==
    [id |-> id, after |-> after, profiles |-> profiles,
     requires |-> requires, needs |-> {}]
StepNeeding(needs, id, after, profiles, requires) ==
    [Step(id, after, profiles, requires) EXCEPT !.needs = needs]

Toolchain == <<
    Step("just",              {},                 EVERY, NoRoot),
    Step("ros2",              {},                 EVERY, Root),
    Step("ros2-dev-tools",    {"ros2"},           EVERY, Root),
    Step("colcon-cargo-ros2", {"ros2-dev-tools"}, EVERY, Root),
    Step("dev-tools",         {"ros2"},           DEV,   Root),
    Step("python-deps",       {},                 EVERY, NoRoot),
    Step("geographiclib",     {},                 EVERY, Root) >>

Autoware == <<
    Step("autoware-debian", {"ros2"},            DEV, Root),
    Step("autoware-data",   {"autoware-debian"}, DEV, NoRoot),
    StepNeeding({"ros2", "autoware-debian", "just"},
         "tensorrt-engines", {"autoware-data", "just"}, DEV,
         [NoRoot EXCEPT !.hardware = "cuda"]),
    Step("opencv",          {"autoware-debian"}, DEV, Root),
    StepNeeding({"ros2"},
         "ros-deps",        {"ros2-dev-tools"},  EVERY, Root),
    Step("cuvslam",         {},                  DEV, NoRoot) >>

KernelAndNetwork == <<
    Step("cyclonedds-sysctl", {}, DEV, Root),
    Step("multicast-lo",      {}, DEV, Root) >>

SystemConfig == <<
    Step("ublox-udev",         {},       VEHICLE, RootFor("ublox-gnss")),
    Step("tier4-camera",       {"ros2"}, VEHICLE, RootFor("tier4-camera")),
    Step("hardware-config",    {},       VEHICLE, RootFor("can")),
    Step("orin-can0",          {},       OPT_IN,  Jetson("can")),
    Step("isaac-h264-encoder", {"ros2"}, OPT_IN,  Jetson("any")),
    Step("otocam",             {},       OPT_IN,  Jetson("any")),
    Step("linuxptp",           {},       OPT_IN,  RootFor("ptp-nic")) >>

Optional == <<
    Step("turbovnc-virtualgl", {}, VEHICLE, Root),
    Step("chrony-master",      {}, OPT_IN,  Root),
    Step("chrony-orin",        {}, OPT_IN,  Root) >>

REGISTRY == Toolchain \o Autoware \o KernelAndNetwork \o SystemConfig \o Optional

-----------------------------------------------------------------------------
(* Operators on any sequence of steps with distinct ids.                   *)

IdsOf(steps) == {steps[i].id : i \in DOMAIN steps}
Rank(steps, id) == CHOOSE i \in DOMAIN steps : steps[i].id = id
ById(steps, id) == steps[Rank(steps, id)]

DefaultFor(step, profile) ==
    \/ profile = "all"
    \/ profile # "none" /\ profile \in step.profiles

\* ordered() refuses a selection in which a step comes before one it is after.
OrderedFails(steps, selected) ==
    \E i, j \in DOMAIN steps :
        /\ i <= j
        /\ {steps[i].id, steps[j].id} \subseteq selected
        /\ steps[j].id \in steps[i].after

Ordered(steps, selected) ==
    SelectSeq(steps, LAMBDA step : step.id \in selected)

\* _select: status is a function from ids to the words of State.status_of.
Select(steps, args, status) ==
    LET wanted == {s \in IdsOf(steps) :
            /\ args.all \/ DefaultFor(ById(steps, s), args.profile)
            /\ args.force \/ status[s] # "ok"}
    IN  (IF args.only # {} THEN args.only ELSE wanted) \ args.skip

\* Selection.apply, the menu's counterpart.
Preselect(steps, preset, status) ==
    {s \in IdsOf(steps) : /\ DefaultFor(ById(steps, s), preset)
                          /\ preset = "all" \/ status[s] # "ok"}

-----------------------------------------------------------------------------
(* The machine: what was detected, and what follows from it.               *)

\* id is the distribution, like the families it names itself after.
OsCheck(os) ==
    IF os.id = "ubuntu" /\ os.version = "22.04" THEN "ok"
    ELSE IF {"ubuntu", "debian"} \cap ({os.id} \cup os.like) # {} THEN "warn"
    ELSE "error"

SuggestedProfile(machine) ==
    IF \/ {"can", "ublox-gnss", "tier4-camera"} \cap machine.hardware # {}
       \/ machine.role \in {"master", "orin"}
    THEN "vehicle" ELSE "dev"

Applicable(machine, step) ==
    /\ step.requires.arch = {} \/ machine.arch \in step.requires.arch
    /\ step.requires.hardware \in {"any"} \cup machine.hardware

=============================================================================
