-------------------------- MODULE CivilizationSponsor --------------------------
(***************************************************************************)
(* The player's influence on one citizen, between the live days            *)
(* (packages/civilization/src/sponsor.ts, the steps of                     *)
(* apps/web/src/generated-sponsor-runtime.ts and the two boundaries of     *)
(* packages/persistence/src/civilization-sponsor.ts).                      *)
(*                                                                         *)
(* A covenant is established once.  The player then abstains, or issues a  *)
(* counsel that the citizen resolves: she follows her plan, checks the     *)
(* stores or accuses a friend.  An abstention and a resolved counsel are   *)
(* each lived by a boundary: a day of the scheduler on which she alone     *)
(* has decided, with the policy the world began with.  Nobody originates   *)
(* projects on it, the expedition rests, no plan but hers changes, no      *)
(* account is closed and nobody talks.  A boundary that the code refuses   *)
(* is not recorded, and leaves the civilization as it was.                 *)
(*                                                                         *)
(* A command is one step here; how commands, days and other tabs           *)
(* interleave on the stream is CivilizationDays and WorldWriters.          *)
(***************************************************************************)
EXTENDS CivilizationDayRunner

CONSTANTS
    Focal,      \* the sponsored citizen, who also leads the works (Mara)
    Intents     \* what a counsel may ask for

\* Mara works on projects only.
ASSUME SponsorAssumption ==
    /\ Focal \in Citizens /\ None \notin Intents
    /\ \A j \in Jobs : Focal \notin JobInfo[j].participants
    /\ \A l \in Lanes : LaneInfo[l].carrier # Focal
    /\ \E i \in DOMAIN RelationOrder : RelationOrder[i][1] = Focal

Responses == {"follow-plan", "verify-reserve", "accuse-publicly"}

VARIABLES
    bond,       \* covenant, counsel per intent, abstained, lived: the abstention's day was
    due,        \* the response this session has recorded and is yet to live, or None
    plan,       \* the citizen's plan: the step she is at, retries left, last day it holds
    refused     \* why the last boundary was not lived, or None

sponsorVars == <<bond, due, plan, refused>>

-----------------------------------------------------------------------------
(* Commands *)

\* A player acts on what a load shows, and a load has lived the first day.
Between == phase = "idle" /\ civ.time >= 1 /\ due = None

InBond == bond.covenant # None /\ Resident(civ, Focal, bond.covenant)
OpenCounsels == {i \in Intents : bond.counsel[i] = "open"}

\* The first of her own relationships, the only one her mind keeps.
Friend == FirstOf(RelationOrder, {r \in Range(RelationOrder) : r[1] = Focal})[2]
HasFriend == Resident(civ, Friend, civ.citizens[Focal].settlement)

Establish ==
    /\ Between /\ bond.covenant = None /\ Residence(civ, Focal) = "resident"
    /\ bond' = [bond EXCEPT !.covenant = civ.citizens[Focal].settlement]
    /\ UNCHANGED <<vars, due, plan>> /\ refused' = None

\* Only the first abstention is ever lived.
Abstain ==
    /\ Between /\ InBond /\ ~ bond.abstained
    /\ bond' = [bond EXCEPT !.abstained = TRUE]
    /\ UNCHANGED <<vars, due, plan>> /\ refused' = None

\* What the patron says is a claim she has heard, with no speaker she could meet.
Counsel == \E i \in Intents :
    /\ Between /\ InBond /\ ~ bond.abstained
    /\ bond.counsel[i] = None /\ OpenCounsels = {}
    /\ bond' = [bond EXCEPT !.counsel[i] = "open"]
    /\ minds' = [minds EXCEPT ![Focal].heard = IF @ = None THEN Focal ELSE @]
    /\ UNCHANGED <<civ, site, last, provider, phase, decided, race, open, expired, failure,
                   worked, due, plan>> /\ refused' = None

\* The brain may choose any response, if the friend it would concern is there.
Resolve == \E i \in OpenCounsels, response \in Responses :
    /\ Between /\ InBond /\ ~ bond.abstained
    /\ HasFriend /\ site[Friend] = site[Focal]
    /\ bond' = [bond EXCEPT !.counsel[i] = "resolved"]
    /\ due' = response
    /\ UNCHANGED <<vars, plan>> /\ refused' = None

-----------------------------------------------------------------------------
(* Her plan *)

FreshPlan(at) == [step |-> 1, retries |-> 1, expiry |-> at + 1]

\* A plan has two steps; the second done, the same plan begins again.
Continued(at) == IF plan.step = 1 THEN [plan EXCEPT !.step = 2] ELSE FreshPlan(at)

\* Interrupted, a plan is retried, or replanned for another day.
Interrupted(at) ==
    IF plan.retries > 0 THEN [plan EXCEPT !.retries = @ - 1]
    ELSE [plan EXCEPT !.expiry = at + 1]

PlanAfter(response, at) == IF response = "follow-plan" THEN Continued(at) ELSE Interrupted(at)

ReplansAfter(response) ==
    IF response = "follow-plan" THEN IF plan.step = 2 THEN 2 ELSE minds[Focal].replans
    ELSE minds[Focal].replans - (IF plan.retries > 0 THEN 0 ELSE 1)

-----------------------------------------------------------------------------
(* Boundaries *)

\* deriveCivilizationSchedulerPolicy: the policy of the world as it began.
\* Mutant: without its collective project.
BoundaryPolicy_Empty == {}

BoundaryPolicy == IF Eligible THEN {Kit} ELSE {}

Scheduler(routine) == AdvanceScheduler(civ, BoundaryPolicy, Focal :> routine)

Fed(d) == \E o \in d.civ.outcomes : o.citizen = Focal /\ o.at = d.civ.time

\* Why a boundary with this routine is refused, in the order of the code.
Refusal(routine) ==
    IF plan.expiry < civ.time THEN "expired"
    ELSE IF ~ LegalDecision(civ, site, BoundaryPolicy, Focal, routine[1], routine[2])
         THEN IF routine[1] = "construct" /\ routine[2] # Kit THEN "project" ELSE "decision"
    ELSE IF ~ Scheduler(routine).ok THEN "scheduler"
    ELSE IF ~ Audit(Scheduler(routine).civ) THEN "audit"
    ELSE IF ~ Fed(Scheduler(routine)) THEN "away"
    ELSE None

\* The routine the scheduler assigns her is the one she decided on: there was work
\* on the project, or nobody was there to meet.
Follows(d, routine) ==
    IF routine[1] = "construct" THEN <<"project-labor", routine[2]>> \in d.did
    ELSE Paired(d, Focal :> routine, site, last, d.civ.time, Cooldown)[Focal] = routine

Record(routine) ==
    /\ civ' = Scheduler(routine).civ
    /\ worked' = [given |-> AvailableLabor(civ), taken |-> Scheduler(routine).worked]
    /\ refused' = None
    /\ UNCHANGED <<site, last, provider, phase, decided, race, open, expired, failure>>

Refuse(why) == refused' = why /\ UNCHANGED <<vars, plan>>

\* Her own routine, or time for the friend.
CounselRoutine(response) ==
    IF response = "follow-plan" THEN minds[Focal].plan ELSE <<"social-maintenance", Friend>>

\* The stocks an inspection reports on.
HasReserve(c) == \E s \in DOMAIN c.stocks :
    StockInfo[s].owner = Owner("settlement", c.citizens[Focal].settlement)

\* That the friend is there is part of LegalDecision.
CounselRefusal(response) ==
    IF Refusal(CounselRoutine(response)) # None THEN Refusal(CounselRoutine(response))
    ELSE IF ReplansAfter(response) < 0 THEN "replan"
    ELSE IF response = "verify-reserve" /\ ~ HasReserve(civ) THEN "reserve"
    ELSE None

\* It is tried once: a later session finds the counsel resolved and goes no further.
CounselBoundary ==
    /\ phase = "idle" /\ due # None /\ civ.time < Horizon
    /\ due' = None /\ UNCHANGED bond
    /\ \/ /\ CounselRefusal(due) # None
          /\ Refuse(CounselRefusal(due))
       \/ /\ CounselRefusal(due) = None
          /\ Record(CounselRoutine(due))
          /\ plan' = PlanAfter(due, civ.time + 1)
          /\ minds' = [minds EXCEPT ![Focal].replans = ReplansAfter(due)]

\* The page goes away between the resolution and its boundary.
LoseBoundary ==
    /\ due # None /\ due' = None
    /\ UNCHANGED <<vars, bond, plan>> /\ refused' = "gone"

AbstentionRefusal(routine) ==
    IF Refusal(routine) # None THEN Refusal(routine)
    ELSE IF ~ Follows(Scheduler(routine), routine) THEN "met"
    ELSE None

AdvanceAbstention ==
    /\ Between /\ bond.abstained /\ ~ bond.lived /\ civ.time < Horizon
    /\ UNCHANGED due
    /\ \E routine \in {minds[Focal].plan} :
          \/ /\ AbstentionRefusal(routine) # None
             /\ Refuse(AbstentionRefusal(routine)) /\ UNCHANGED bond
          \/ /\ AbstentionRefusal(routine) = None
             /\ Record(routine) /\ bond' = [bond EXCEPT !.lived = TRUE]
             /\ UNCHANGED <<plan, minds>>

-----------------------------------------------------------------------------
(* Days and commands *)

\* A kept day renews every plan, from the second one on.
LiveDay ==
    /\ RunDay
    /\ plan' = IF failure' = None /\ civ'.time >= 2 THEN FreshPlan(civ'.time) ELSE plan
    /\ UNCHANGED <<bond, due>> /\ refused' = None

OfDay == (due = None /\ StartDay) \/ Ask \/ Answer \/ Expire \/ Decide \/ LoseDay

SponsoredInit ==
    /\ Init
    /\ bond = [covenant |-> None, counsel |-> [i \in Intents |-> None],
               abstained |-> FALSE, lived |-> FALSE]
    /\ due = None /\ refused = None
    /\ plan = [step |-> 1, retries |-> 1, expiry |-> 30]

SponsoredNext ==
    \/ Establish \/ Abstain \/ Counsel \/ Resolve
    \/ CounselBoundary \/ LoseBoundary \/ AdvanceAbstention
    \/ LiveDay
    \/ OfDay /\ UNCHANGED <<bond, due, plan>> /\ refused' = None

\* The player owes nothing, but a boundary that is due is lived or lost: days go on.
SponsoredSpec == SponsoredInit /\ [][SponsoredNext]_<<vars, sponsorVars>> /\ Fairness

-----------------------------------------------------------------------------
(* Properties *)

\* Her plan has run out: another boundary was lived, and no live day since.
RunOut == plan.expiry < civ.time

\* She leads a citizen's project, of which the policy of boundaries does not know.
LeadsAnother == minds[Focal].plan[1] = "construct" /\ minds[Focal].plan[2] # Kit

\* A resolved counsel is lived by a day of hers, or it never is: when the page
\* goes between the two appends (a retry stops at NO_UNRESOLVED_COUNSEL), when
\* her plan has run out, or when she would follow a plan the policy does not know.
CounselIsLived ==
    due # None /\ due' = None =>
        \/ civ'.time = civ.time + 1
        \/ refused' = "gone"
        \/ RunOut
        \/ due = "follow-plan" /\ LeadsAnother

\* The day of an abstention is refused in the same two states, and when she would
\* meet a neighbour or have no work on it ("met"); it stays owed.
AbstentionIsLived ==
    due = None /\ refused' # None =>
        /\ ~ bond'.lived
        /\ RunOut \/ LeadsAnother \/ refused' = "met"

\* What the player does is lived but in those four cases: the scheduler, the
\* audit, her replans and the reserves never stand against a boundary.  That is
\* less than docs/engineering/FRONTIER_V1.md:15 promises ("Influence is
\* re-validated against the current head; it is never silently discarded"): in
\* each case a recorded command has no effect, and a counsel is never tried again.
InfluenceIsLived ==
    [][CounselIsLived /\ AbstentionIsLived]_<<vars, sponsorVars>>
=============================================================================
