------------------------- MODULE CivilizationDayProofs -------------------------
(***************************************************************************)
(* The live day and the boundaries of the sponsor: for every catalogue,    *)
(* policy and party, and whatever brains choose and players ask for, the   *)
(* civilization between two steps is in order and its expedition whole.    *)
(*                                                                         *)
(* A day is a chain of the kernel's calls.  Each loop of it is first       *)
(* written as a run, step after step; then each call is shown to keep a    *)
(* day in the making in order (DayOK), from what the kernel's proofs say   *)
(* of that call, and each loop by induction over its run.  The expedition  *)
(* is followed state by state.  Together they give the invariant of the    *)
(* days (DayInv), from which the theorems at the end follow.               *)
(***************************************************************************)
EXTENDS CivilizationSponsor, CivilizationKernelProofs

-----------------------------------------------------------------------------
(* Sorted lists *)

\* The first of a set in a list that holds it is in the set.
LEMMA FirstIsAmong ==
    ASSUME NEW T, NEW order \in Seq(T), NEW S, S \subseteq Range(order), S # {}
    PROVE  FirstOf(order, S) \in S
<1>. DEFINE I == {i \in DOMAIN order : order[i] \in S}
<1>1. I \in SUBSET Nat /\ I # {}
  BY DEF Range
<1>2. PICK m \in I : \A k \in I : m =< k
  <2>. HIDE DEF I
  <2>. QED
    BY <1>1, LeastOf
<1>3. Min(I) \in I
  BY <1>2 DEF Min
<1>. QED
  BY <1>3 DEF FirstOf

-----------------------------------------------------------------------------
(* The gateway *)

\* How the questions of a day stand.
Questions == <<provider, phase, decided, race, open, expired>>

\* A question is raced for only while its citizen is undecided and there is a
\* provider; one that has run out of time is decided, or is being decided without
\* the provider.
Gateway ==
    /\ phase \in {"idle", "deciding"} /\ provider \in BOOLEAN
    /\ DOMAIN decided \subseteq Citizens
    /\ phase = "idle" => decided = <<>> /\ race = None
    /\ race \in {None, "open", "accepted", "rejected", "expired"}
    /\ race # None => provider /\ Undecided
    /\ open \subseteq Citizens
    /\ expired \subseteq DOMAIN decided \cup {p \in {Asked} : race = "expired"}
    /\ AnswersInTime

\* The citizen asked is one who waits.
LEMMA AskedWaits ==
    ASSUME Waiting # {}
    PROVE  Asked \in Waiting
BY FirstIsAmong, SchedulerAssumption DEF Asked, Waiting, OrderAssumption

\* What leaves the questions as they are keeps the gateway.
LEMMA GatewayStays ==
    ASSUME Gateway, UNCHANGED Questions
    PROVE  Gateway'
BY DEF Gateway, Questions, Undecided, Asked, Waiting, AnswersInTime

\* Each step of the gateway's keeps it.
LEMMA GatewaySteps ==
    ASSUME Gateway
    PROVE  /\ (StartDay \/ Ask \/ Answer \/ Expire) => Gateway'
           /\ (Decide \/ LoseDay \/ RunDay) => Gateway'
<1>. USE DEF Gateway
<1>0. None \notin {"open", "accepted", "rejected", "expired"}
  BY DayAssumption DEF DaysAccepted
<1>1. CASE StartDay
  BY <1>0, <1>1 DEF StartDay, Undecided, Asked, Waiting, AnswersInTime
<1>2. CASE Ask
  BY <1>0, <1>2, AskedWaits DEF Ask, Undecided, Asked, Waiting, AnswersInTime
<1>3. CASE Answer
  <2>1. /\ race' = race \/ (race = "open" /\ race' \in {"accepted", "rejected"})
        /\ open' \subseteq open
        /\ UNCHANGED <<provider, phase, decided, expired>>
    BY <1>3 DEF Answer, Settled
  <2>2. Asked' = Asked /\ Waiting' = Waiting
    BY <2>1 DEF Asked, Waiting
  <2>. HIDE DEF Asked, Waiting
  <2>3. UNCHANGED <<Undecided, AnswersInTime>>
    BY <2>1, <2>2 DEF Undecided, AnswersInTime
  <2>. QED
    BY <1>0, <2>1, <2>2, <2>3 DEF AnswersInTime, Undecided
<1>4. CASE Expire
  BY <1>0, <1>4, AskedWaits DEF Expire, Settled, Undecided, Asked, Waiting, AnswersInTime
<1>5. CASE Decide
  <2>1. Asked \in Citizens /\ Asked \notin DOMAIN decided /\ phase = "deciding"
    BY <1>5, AskedWaits DEF Decide, Undecided, Waiting
  <2>2. PICK option : Decision(Asked, option)
    BY <1>5 DEF Decide
  <2>3. race = "accepted" => Asked \notin expired /\ provider
    BY <1>0, <2>1
  <2>4. race' = None /\ provider' = provider
    BY <2>2 DEF Decision
  <2>5. CASE HasBudget(minds[Asked], option)
    <3>. DEFINE what == [action |-> option[1], routine |-> option[2],
                         source |-> IF race = "accepted" THEN "primary"
                                    ELSE "deterministic-fallback",
                         mind |-> Chosen(minds[Asked], option)]
    <3>1. decided' = With(decided, Asked, what) /\ open' = open \ {Asked}
          /\ phase' = phase /\ expired' = expired
      BY <2>2, <2>5 DEF Decision
    <3>2. DOMAIN decided' = DOMAIN decided \cup {Asked} /\ decided'[Asked] = what
          /\ \A p \in DOMAIN decided : decided'[p] = decided[p]
      BY <2>1, <3>1 DEF With
    <3>3. what.source = "primary" => race = "accepted"
      OBVIOUS
    <3>. HIDE DEF what
    <3>4. AnswersInTime'
      BY <2>3, <2>4, <3>1, <3>2, <3>3 DEF AnswersInTime
    <3>. QED
      BY <1>0, <2>1, <2>4, <3>1, <3>2, <3>4
  <2>6. CASE ~ HasBudget(minds[Asked], option)
    BY <2>2, <2>4, <2>6 DEF Decision, Over, AnswersInTime
  <2>. QED
    BY <2>5, <2>6
<1>6. CASE LoseDay
  BY <1>6 DEF LoseDay, Over, AnswersInTime
<1>7. CASE RunDay
  <2>1. race = None
    BY <1>0, <1>7 DEF RunDay, Undecided
  <2>. QED
    BY <1>7, <2>1 DEF RunDay, Over, AnswersInTime
<1>. QED
  BY <1>1, <1>2, <1>3, <1>4, <1>5, <1>6, <1>7

\* The commands and the boundaries leave the questions as they are.
LEMMA GatewayKeeps ==
    ASSUME Gateway, [SponsoredNext]_<<vars, sponsorVars>>
    PROVE  Gateway'
<1>1. CASE UNCHANGED <<vars, sponsorVars>>
  BY <1>1, GatewayStays DEF vars, Questions
<1>2. CASE Establish \/ Abstain \/ Counsel \/ Resolve \/ LoseBoundary
  BY <1>2, GatewayStays DEF Establish, Abstain, Counsel, Resolve, LoseBoundary, vars, Questions
<1>3. CASE CounselBoundary
  BY <1>3, GatewayStays DEF CounselBoundary, Refuse, Record, vars, Questions
<1>4. CASE AdvanceAbstention
  BY <1>4, GatewayStays DEF AdvanceAbstention, Refuse, Record, vars, Questions
<1>5. CASE LiveDay \/ OfDay
  BY <1>5, GatewaySteps DEF LiveDay, OfDay
<1>. QED
  BY <1>1, <1>2, <1>3, <1>4, <1>5 DEF SponsoredNext

\* However long the days and the commands go on, no decision of the day is the
\* provider's whose question had run out of time.
THEOREM AnswersCorrectness == SponsoredSpec => []AnswersInTime
<1>1. SponsoredInit => Gateway
  BY DEF SponsoredInit, Init, Gateway, AnswersInTime
<1>2. Gateway /\ [SponsoredNext]_<<vars, sponsorVars>> => Gateway'
  BY GatewayKeeps
<1>3. Gateway => AnswersInTime
  BY DEF Gateway
<1>. QED
  BY <1>1, <1>2, <1>3, PTL DEF SponsoredSpec

-----------------------------------------------------------------------------
(* The loops of a day, one step after the other *)

\* The steps of those whose bodies the model writes in place.
Sifted(u, x, K) == IF x \in K THEN Append(u, x) ELSE u
CompleteIf(d, u, j, t, at) == CompleteOne(u, <<j, t>>, IsDue(d.civ, <<j, t>>, j, at), at)
DeliverNext(e, w, g) == DeliverOne(e, w, g, Missing(e.d.civ, w.p, w.i, g))
ConsumeNext(e, w, g) == ConsumeOne(e, w, g, Unused(e.d.civ, w.p, w.i, g))
LaborNext(e, w, who) ==
    LaborOne(e, w, who, Min({Undone(e.d.civ, w.p, w.i), e.d.labor[who]}))
Proposers == {p \in Citizens : decided[p].action = "propose"}

\* What a loop comes to, step after step: the sorted list of a set.
LEMMA AmongRuns ==
    ASSUME NEW order, NEW K,
           Len(order) \in Nat
    PROVE  \E run : /\ Among(order, K) = run[Len(order)] /\ run[0] = <<>>
                    /\ \A i \in 1..Len(order) : run[i] = Sifted(run[i - 1], order[i], K)
<1>. DEFINE Base == <<>>
            One(u, x) == Sifted(u, x, K)
            Then(u, x) == CHOOSE v \in {One(y, x) : y \in {u}} : TRUE
            Runs(f, n) == f = [i \in 0..n |-> IF i = 0 THEN Base ELSE Then(f[i - 1], order[i])]
            N == Len(order)
            F == CHOOSE f : Runs(f, N)
            S == {n \in 0..N : \E f : Runs(f, n)}
<1>1. Among(order, K) = F[N]
  BY DEF Among, Chain, Sifted
<1>2. \A u, x : Then(u, x) = One(u, x)
  <2>. SUFFICES ASSUME NEW u, NEW x PROVE Then(u, x) = One(u, x)
    OBVIOUS
  <2>1. {One(y, x) : y \in {u}} = {One(u, x)}
    OBVIOUS
  <2>. QED
    BY <2>1
<1>3. N \in Nat
  OBVIOUS
<1>. HIDE DEF One, Then, N, Base
<1>4. 0 \in S
  <2>. DEFINE g == [i \in 0..0 |-> Base]
  <2>1. Runs(g, 0)
    OBVIOUS
  <2>. HIDE DEF g
  <2>. QED
    BY <1>3, <2>1
<1>5. ASSUME NEW n \in 1..N, n - 1 \in S
      PROVE  n \in S
  <2>1. PICK f : Runs(f, n - 1)
    BY <1>5
  <2>. DEFINE g == [i \in 0..n |-> IF i = n THEN Then(f[n - 1], order[n]) ELSE f[i]]
  <2>2. \A i \in 0..n : g[i] = IF i = 0 THEN Base ELSE Then(g[i - 1], order[i])
    BY <2>1
  <2>3. Runs(g, n)
    BY <2>2
  <2>. HIDE DEF g
  <2>. QED
    BY <2>3
<1>6. Runs(F, N)
  <2>1. 0..N \subseteq S
    <3>. HIDE DEF S, F, Runs
    <3>. QED
      BY <1>3, <1>4, <1>5, Induct
  <2>2. N \in S
    <3>. HIDE DEF S
    <3>. QED
      BY <1>3, <2>1
  <2>3. \E f : Runs(f, N)
    BY <2>2
  <2>. HIDE DEF Runs
  <2>. QED
    BY <2>3
<1>. HIDE DEF F
<1>7. \A i \in 0..N : F[i] = IF i = 0 THEN Base ELSE Then(F[i - 1], order[i])
  BY <1>6
<1>8. F[0] = Base
  BY <1>3, <1>7
<1>9. ASSUME NEW i \in 1..N PROVE F[i] = One(F[i - 1], order[i])
  <2>1. i \in 0..N /\ i # 0
    BY <1>3
  <2>2. F[i] = Then(F[i - 1], order[i])
    BY <1>7, <2>1
  <2>. QED
    BY <1>2, <2>2
<1>. QED
  BY <1>1, <1>8, <1>9 DEF N, One, Base

\* The jobs by scarcity.
LEMMA ScarcityRuns ==
    ASSUME NEW c,
           Len(JobOrder) \in Nat
    PROVE  \E run : /\ ByScarcity(c) = run[Len(JobOrder)] /\ run[0] = <<>>
                    /\ \A i \in 1..Len(JobOrder) : run[i] = Placed(c, run[i - 1], JobOrder[i])
<1>. DEFINE Base == <<>>
            One(u, x) == Placed(c, u, x)
            Then(u, x) == CHOOSE v \in {One(y, x) : y \in {u}} : TRUE
            Runs(f, n) == f =
                [i \in 0..n |-> IF i = 0 THEN Base ELSE Then(f[i - 1], JobOrder[i])]
            N == Len(JobOrder)
            F == CHOOSE f : Runs(f, N)
            S == {n \in 0..N : \E f : Runs(f, n)}
<1>1. ByScarcity(c) = F[N]
  BY DEF ByScarcity, Chain
<1>2. \A u, x : Then(u, x) = One(u, x)
  <2>. SUFFICES ASSUME NEW u, NEW x PROVE Then(u, x) = One(u, x)
    OBVIOUS
  <2>1. {One(y, x) : y \in {u}} = {One(u, x)}
    OBVIOUS
  <2>. QED
    BY <2>1
<1>3. N \in Nat
  OBVIOUS
<1>. HIDE DEF One, Then, N, Base
<1>4. 0 \in S
  <2>. DEFINE g == [i \in 0..0 |-> Base]
  <2>1. Runs(g, 0)
    OBVIOUS
  <2>. HIDE DEF g
  <2>. QED
    BY <1>3, <2>1
<1>5. ASSUME NEW n \in 1..N, n - 1 \in S
      PROVE  n \in S
  <2>1. PICK f : Runs(f, n - 1)
    BY <1>5
  <2>. DEFINE g == [i \in 0..n |-> IF i = n THEN Then(f[n - 1], JobOrder[n]) ELSE f[i]]
  <2>2. \A i \in 0..n : g[i] = IF i = 0 THEN Base ELSE Then(g[i - 1], JobOrder[i])
    BY <2>1
  <2>3. Runs(g, n)
    BY <2>2
  <2>. HIDE DEF g
  <2>. QED
    BY <2>3
<1>6. Runs(F, N)
  <2>1. 0..N \subseteq S
    <3>. HIDE DEF S, F, Runs
    <3>. QED
      BY <1>3, <1>4, <1>5, Induct
  <2>2. N \in S
    <3>. HIDE DEF S
    <3>. QED
      BY <1>3, <2>1
  <2>3. \E f : Runs(f, N)
    BY <2>2
  <2>. HIDE DEF Runs
  <2>. QED
    BY <2>3
<1>. HIDE DEF F
<1>7. \A i \in 0..N : F[i] = IF i = 0 THEN Base ELSE Then(F[i - 1], JobOrder[i])
  BY <1>6
<1>8. F[0] = Base
  BY <1>3, <1>7
<1>9. ASSUME NEW i \in 1..N PROVE F[i] = One(F[i - 1], JobOrder[i])
  <2>1. i \in 0..N /\ i # 0
    BY <1>3
  <2>2. F[i] = Then(F[i - 1], JobOrder[i])
    BY <1>7, <2>1
  <2>. QED
    BY <1>2, <2>2
<1>. QED
  BY <1>1, <1>8, <1>9 DEF N, One, Base

\* What is due of a job.
LEMMA DueRuns ==
    ASSUME NEW d, NEW j, NEW at,
           Len(StartTimes(at)) \in Nat
    PROVE  \E run : /\ CompleteDue(d, j, at) = run[Len(StartTimes(at))] /\ run[0] = d
                    /\ \A i \in 1..Len(StartTimes(at)) :
                          run[i] = CompleteIf(d, run[i - 1], j, StartTimes(at)[i], at)
<1>. DEFINE Q == StartTimes(at)
            One(u, x) == CompleteIf(d, u, j, x, at)
            Then(u, x) == CHOOSE v \in {One(y, x) : y \in {u}} : TRUE
            Runs(f, n) == f = [i \in 0..n |-> IF i = 0 THEN d ELSE Then(f[i - 1], Q[i])]
            N == Len(Q)
            F == CHOOSE f : Runs(f, N)
            S == {n \in 0..N : \E f : Runs(f, n)}
<1>1. CompleteDue(d, j, at) = F[N]
  BY DEF CompleteDue, Chain, CompleteIf
<1>2. \A u, x : Then(u, x) = One(u, x)
  <2>. SUFFICES ASSUME NEW u, NEW x PROVE Then(u, x) = One(u, x)
    OBVIOUS
  <2>1. {One(y, x) : y \in {u}} = {One(u, x)}
    OBVIOUS
  <2>. QED
    BY <2>1
<1>3. N \in Nat
  OBVIOUS
<1>. HIDE DEF One, Then, N, Q
<1>4. 0 \in S
  <2>. DEFINE g == [i \in 0..0 |-> d]
  <2>1. Runs(g, 0)
    OBVIOUS
  <2>. HIDE DEF g
  <2>. QED
    BY <1>3, <2>1
<1>5. ASSUME NEW n \in 1..N, n - 1 \in S
      PROVE  n \in S
  <2>1. PICK f : Runs(f, n - 1)
    BY <1>5
  <2>. DEFINE g == [i \in 0..n |-> IF i = n THEN Then(f[n - 1], Q[n]) ELSE f[i]]
  <2>2. \A i \in 0..n : g[i] = IF i = 0 THEN d ELSE Then(g[i - 1], Q[i])
    BY <2>1
  <2>3. Runs(g, n)
    BY <2>2
  <2>. HIDE DEF g
  <2>. QED
    BY <2>3
<1>6. Runs(F, N)
  <2>1. 0..N \subseteq S
    <3>. HIDE DEF S, F, Runs
    <3>. QED
      BY <1>3, <1>4, <1>5, Induct
  <2>2. N \in S
    <3>. HIDE DEF S
    <3>. QED
      BY <1>3, <2>1
  <2>3. \E f : Runs(f, N)
    BY <2>2
  <2>. HIDE DEF Runs
  <2>. QED
    BY <2>3
<1>. HIDE DEF F
<1>7. \A i \in 0..N : F[i] = IF i = 0 THEN d ELSE Then(F[i - 1], Q[i])
  BY <1>6
<1>8. F[0] = d
  BY <1>3, <1>7
<1>9. ASSUME NEW i \in 1..N PROVE F[i] = One(F[i - 1], Q[i])
  <2>1. i \in 0..N /\ i # 0
    BY <1>3
  <2>2. F[i] = Then(F[i - 1], Q[i])
    BY <1>7, <2>1
  <2>. QED
    BY <1>2, <2>2
<1>. QED
  BY <1>1, <1>8, <1>9 DEF N, One, Q

\* What is due of all jobs.
LEMMA FinishRuns ==
    ASSUME NEW d, NEW at,
           Len(JobOrder) \in Nat
    PROVE  \E run : /\ Finish(d, at) = run[Len(JobOrder)] /\ run[0] = d
                    /\ \A i \in 1..Len(JobOrder) :
                          run[i] = CompleteDue(run[i - 1], JobOrder[i], at)
<1>. DEFINE One(u, x) == CompleteDue(u, x, at)
            Then(u, x) == CHOOSE v \in {One(y, x) : y \in {u}} : TRUE
            Runs(f, n) == f = [i \in 0..n |-> IF i = 0 THEN d ELSE Then(f[i - 1], JobOrder[i])]
            N == Len(JobOrder)
            F == CHOOSE f : Runs(f, N)
            S == {n \in 0..N : \E f : Runs(f, n)}
<1>1. Finish(d, at) = F[N]
  BY DEF Finish, Chain
<1>2. \A u, x : Then(u, x) = One(u, x)
  <2>. SUFFICES ASSUME NEW u, NEW x PROVE Then(u, x) = One(u, x)
    OBVIOUS
  <2>1. {One(y, x) : y \in {u}} = {One(u, x)}
    OBVIOUS
  <2>. QED
    BY <2>1
<1>3. N \in Nat
  OBVIOUS
<1>. HIDE DEF One, Then, N
<1>4. 0 \in S
  <2>. DEFINE g == [i \in 0..0 |-> d]
  <2>1. Runs(g, 0)
    OBVIOUS
  <2>. HIDE DEF g
  <2>. QED
    BY <1>3, <2>1
<1>5. ASSUME NEW n \in 1..N, n - 1 \in S
      PROVE  n \in S
  <2>1. PICK f : Runs(f, n - 1)
    BY <1>5
  <2>. DEFINE g == [i \in 0..n |-> IF i = n THEN Then(f[n - 1], JobOrder[n]) ELSE f[i]]
  <2>2. \A i \in 0..n : g[i] = IF i = 0 THEN d ELSE Then(g[i - 1], JobOrder[i])
    BY <2>1
  <2>3. Runs(g, n)
    BY <2>2
  <2>. HIDE DEF g
  <2>. QED
    BY <2>3
<1>6. Runs(F, N)
  <2>1. 0..N \subseteq S
    <3>. HIDE DEF S, F, Runs
    <3>. QED
      BY <1>3, <1>4, <1>5, Induct
  <2>2. N \in S
    <3>. HIDE DEF S
    <3>. QED
      BY <1>3, <2>1
  <2>3. \E f : Runs(f, N)
    BY <2>2
  <2>. HIDE DEF Runs
  <2>. QED
    BY <2>3
<1>. HIDE DEF F
<1>7. \A i \in 0..N : F[i] = IF i = 0 THEN d ELSE Then(F[i - 1], JobOrder[i])
  BY <1>6
<1>8. F[0] = d
  BY <1>3, <1>7
<1>9. ASSUME NEW i \in 1..N PROVE F[i] = One(F[i - 1], JobOrder[i])
  <2>1. i \in 0..N /\ i # 0
    BY <1>3
  <2>2. F[i] = Then(F[i - 1], JobOrder[i])
    BY <1>7, <2>1
  <2>. QED
    BY <1>2, <2>2
<1>. QED
  BY <1>1, <1>8, <1>9 DEF N, One

\* The lanes of a job.
LEMMA HaulRuns ==
    ASSUME NEW d, NEW j, NEW decisions, NEW at,
           Len(Among(LaneOrder, JobInfo[j].lanes)) \in Nat
    PROVE  \E run : /\ Hauled(d, j, decisions, at) = run[Len(Among(LaneOrder, JobInfo[j].lanes))]
                    /\ run[0] = d
                    /\ \A i \in 1..Len(Among(LaneOrder, JobInfo[j].lanes)) :
                          run[i] =
                             Haul(run[i - 1], j, Among(LaneOrder, JobInfo[j].lanes)[i], decisions, at)
<1>. DEFINE Q == Among(LaneOrder, JobInfo[j].lanes)
            One(u, x) == Haul(u, j, x, decisions, at)
            Then(u, x) == CHOOSE v \in {One(y, x) : y \in {u}} : TRUE
            Runs(f, n) == f = [i \in 0..n |-> IF i = 0 THEN d ELSE Then(f[i - 1], Q[i])]
            N == Len(Q)
            F == CHOOSE f : Runs(f, N)
            S == {n \in 0..N : \E f : Runs(f, n)}
<1>1. Hauled(d, j, decisions, at) = F[N]
  BY DEF Hauled, Chain
<1>2. \A u, x : Then(u, x) = One(u, x)
  <2>. SUFFICES ASSUME NEW u, NEW x PROVE Then(u, x) = One(u, x)
    OBVIOUS
  <2>1. {One(y, x) : y \in {u}} = {One(u, x)}
    OBVIOUS
  <2>. QED
    BY <2>1
<1>3. N \in Nat
  OBVIOUS
<1>. HIDE DEF One, Then, N, Q
<1>4. 0 \in S
  <2>. DEFINE g == [i \in 0..0 |-> d]
  <2>1. Runs(g, 0)
    OBVIOUS
  <2>. HIDE DEF g
  <2>. QED
    BY <1>3, <2>1
<1>5. ASSUME NEW n \in 1..N, n - 1 \in S
      PROVE  n \in S
  <2>1. PICK f : Runs(f, n - 1)
    BY <1>5
  <2>. DEFINE g == [i \in 0..n |-> IF i = n THEN Then(f[n - 1], Q[n]) ELSE f[i]]
  <2>2. \A i \in 0..n : g[i] = IF i = 0 THEN d ELSE Then(g[i - 1], Q[i])
    BY <2>1
  <2>3. Runs(g, n)
    BY <2>2
  <2>. HIDE DEF g
  <2>. QED
    BY <2>3
<1>6. Runs(F, N)
  <2>1. 0..N \subseteq S
    <3>. HIDE DEF S, F, Runs
    <3>. QED
      BY <1>3, <1>4, <1>5, Induct
  <2>2. N \in S
    <3>. HIDE DEF S
    <3>. QED
      BY <1>3, <2>1
  <2>3. \E f : Runs(f, N)
    BY <2>2
  <2>. HIDE DEF Runs
  <2>. QED
    BY <2>3
<1>. HIDE DEF F
<1>7. \A i \in 0..N : F[i] = IF i = 0 THEN d ELSE Then(F[i - 1], Q[i])
  BY <1>6
<1>8. F[0] = d
  BY <1>3, <1>7
<1>9. ASSUME NEW i \in 1..N PROVE F[i] = One(F[i - 1], Q[i])
  <2>1. i \in 0..N /\ i # 0
    BY <1>3
  <2>2. F[i] = Then(F[i - 1], Q[i])
    BY <1>7, <2>1
  <2>. QED
    BY <1>2, <2>2
<1>. QED
  BY <1>1, <1>8, <1>9 DEF N, One, Q

\* The labor of a job, citizen after citizen.
LEMMA ReserveRuns ==
    ASSUME NEW d, NEW people, NEW required,
           Len(Among(CitizenOrder, people)) \in Nat
    PROVE  \E run : /\ Reserve(d, people, required) = run[Len(Among(CitizenOrder, people))].d
                    /\ run[0] = [d |-> d, left |-> required]
                    /\ \A i \in 1..Len(Among(CitizenOrder, people)) :
                          run[i] = ReserveOne(run[i - 1], Among(CitizenOrder, people)[i])
<1>. DEFINE Q == Among(CitizenOrder, people)
            One(u, x) == ReserveOne(u, x)
            Then(u, x) == CHOOSE v \in {One(y, x) : y \in {u}} : TRUE
            Runs(f, n) == f =
                [i \in 0..n |-> IF i = 0 THEN [d |-> d, left |-> required] ELSE Then(f[i - 1], Q[i])]
            N == Len(Q)
            F == CHOOSE f : Runs(f, N)
            S == {n \in 0..N : \E f : Runs(f, n)}
<1>1. Reserve(d, people, required) = F[N].d
  BY DEF Reserve, Chain
<1>2. \A u, x : Then(u, x) = One(u, x)
  <2>. SUFFICES ASSUME NEW u, NEW x PROVE Then(u, x) = One(u, x)
    OBVIOUS
  <2>1. {One(y, x) : y \in {u}} = {One(u, x)}
    OBVIOUS
  <2>. QED
    BY <2>1
<1>3. N \in Nat
  OBVIOUS
<1>. HIDE DEF One, Then, N, Q
<1>4. 0 \in S
  <2>. DEFINE g == [i \in 0..0 |-> [d |-> d, left |-> required]]
  <2>1. Runs(g, 0)
    OBVIOUS
  <2>. HIDE DEF g
  <2>. QED
    BY <1>3, <2>1
<1>5. ASSUME NEW n \in 1..N, n - 1 \in S
      PROVE  n \in S
  <2>1. PICK f : Runs(f, n - 1)
    BY <1>5
  <2>. DEFINE g == [i \in 0..n |-> IF i = n THEN Then(f[n - 1], Q[n]) ELSE f[i]]
  <2>2. \A i \in 0..n : g[i] = IF i = 0 THEN [d |-> d, left |-> required] ELSE Then(g[i - 1], Q[i])
    BY <2>1
  <2>3. Runs(g, n)
    BY <2>2
  <2>. HIDE DEF g
  <2>. QED
    BY <2>3
<1>6. Runs(F, N)
  <2>1. 0..N \subseteq S
    <3>. HIDE DEF S, F, Runs
    <3>. QED
      BY <1>3, <1>4, <1>5, Induct
  <2>2. N \in S
    <3>. HIDE DEF S
    <3>. QED
      BY <1>3, <2>1
  <2>3. \E f : Runs(f, N)
    BY <2>2
  <2>. HIDE DEF Runs
  <2>. QED
    BY <2>3
<1>. HIDE DEF F
<1>7. \A i \in 0..N : F[i] = IF i = 0 THEN [d |-> d, left |-> required] ELSE Then(F[i - 1], Q[i])
  BY <1>6
<1>8. F[0] = [d |-> d, left |-> required]
  <2>1. 0 \in 0..N
    BY <1>3
  <2>. QED
    BY <1>7, <2>1
<1>9. ASSUME NEW i \in 1..N PROVE F[i] = One(F[i - 1], Q[i])
  <2>1. i \in 0..N /\ i # 0
    BY <1>3
  <2>2. F[i] = Then(F[i - 1], Q[i])
    BY <1>7, <2>1
  <2>. QED
    BY <1>2, <2>2
<1>. QED
  BY <1>1, <1>8, <1>9 DEF N, One, Q

\* The jobs.
LEMMA ProduceRuns ==
    ASSUME NEW d, NEW decisions, NEW at,
           Len(ByScarcity(d.civ)) \in Nat
    PROVE  \E run : /\ Produce(d, decisions, at) = run[Len(ByScarcity(d.civ))] /\ run[0] = d
                    /\ \A i \in 1..Len(ByScarcity(d.civ)) :
                          run[i] = RunJob(run[i - 1], ByScarcity(d.civ)[i], decisions, at)
<1>. DEFINE Q == ByScarcity(d.civ)
            One(u, x) == RunJob(u, x, decisions, at)
            Then(u, x) == CHOOSE v \in {One(y, x) : y \in {u}} : TRUE
            Runs(f, n) == f = [i \in 0..n |-> IF i = 0 THEN d ELSE Then(f[i - 1], Q[i])]
            N == Len(Q)
            F == CHOOSE f : Runs(f, N)
            S == {n \in 0..N : \E f : Runs(f, n)}
<1>1. Produce(d, decisions, at) = F[N]
  BY DEF Produce, Chain
<1>2. \A u, x : Then(u, x) = One(u, x)
  <2>. SUFFICES ASSUME NEW u, NEW x PROVE Then(u, x) = One(u, x)
    OBVIOUS
  <2>1. {One(y, x) : y \in {u}} = {One(u, x)}
    OBVIOUS
  <2>. QED
    BY <2>1
<1>3. N \in Nat
  OBVIOUS
<1>. HIDE DEF One, Then, N, Q
<1>4. 0 \in S
  <2>. DEFINE g == [i \in 0..0 |-> d]
  <2>1. Runs(g, 0)
    OBVIOUS
  <2>. HIDE DEF g
  <2>. QED
    BY <1>3, <2>1
<1>5. ASSUME NEW n \in 1..N, n - 1 \in S
      PROVE  n \in S
  <2>1. PICK f : Runs(f, n - 1)
    BY <1>5
  <2>. DEFINE g == [i \in 0..n |-> IF i = n THEN Then(f[n - 1], Q[n]) ELSE f[i]]
  <2>2. \A i \in 0..n : g[i] = IF i = 0 THEN d ELSE Then(g[i - 1], Q[i])
    BY <2>1
  <2>3. Runs(g, n)
    BY <2>2
  <2>. HIDE DEF g
  <2>. QED
    BY <2>3
<1>6. Runs(F, N)
  <2>1. 0..N \subseteq S
    <3>. HIDE DEF S, F, Runs
    <3>. QED
      BY <1>3, <1>4, <1>5, Induct
  <2>2. N \in S
    <3>. HIDE DEF S
    <3>. QED
      BY <1>3, <2>1
  <2>3. \E f : Runs(f, N)
    BY <2>2
  <2>. HIDE DEF Runs
  <2>. QED
    BY <2>3
<1>. HIDE DEF F
<1>7. \A i \in 0..N : F[i] = IF i = 0 THEN d ELSE Then(F[i - 1], Q[i])
  BY <1>6
<1>8. F[0] = d
  BY <1>3, <1>7
<1>9. ASSUME NEW i \in 1..N PROVE F[i] = One(F[i - 1], Q[i])
  <2>1. i \in 0..N /\ i # 0
    BY <1>3
  <2>2. F[i] = Then(F[i - 1], Q[i])
    BY <1>7, <2>1
  <2>. QED
    BY <1>2, <2>2
<1>. QED
  BY <1>1, <1>8, <1>9 DEF N, One, Q

\* What is delivered to a milestone, resource after resource.
LEMMA ResourcedRuns ==
    ASSUME NEW e, NEW w,
           Len(ResourceOrder) \in Nat
    PROVE  \E run : /\ Resourced(e, w) = run[Len(ResourceOrder)] /\ run[0] = e
                    /\ \A i \in 1..Len(ResourceOrder) :
                          run[i] = DeliverNext(run[i - 1], w, ResourceOrder[i])
<1>. DEFINE One(u, x) == DeliverNext(u, w, x)
            Then(u, x) == CHOOSE v \in {One(y, x) : y \in {u}} : TRUE
            Runs(f, n) == f =
                [i \in 0..n |-> IF i = 0 THEN e ELSE Then(f[i - 1], ResourceOrder[i])]
            N == Len(ResourceOrder)
            F == CHOOSE f : Runs(f, N)
            S == {n \in 0..N : \E f : Runs(f, n)}
<1>1. Resourced(e, w) = F[N]
  BY DEF Resourced, Chain, DeliverNext
<1>2. \A u, x : Then(u, x) = One(u, x)
  <2>. SUFFICES ASSUME NEW u, NEW x PROVE Then(u, x) = One(u, x)
    OBVIOUS
  <2>1. {One(y, x) : y \in {u}} = {One(u, x)}
    OBVIOUS
  <2>. QED
    BY <2>1
<1>3. N \in Nat
  OBVIOUS
<1>. HIDE DEF One, Then, N
<1>4. 0 \in S
  <2>. DEFINE g == [i \in 0..0 |-> e]
  <2>1. Runs(g, 0)
    OBVIOUS
  <2>. HIDE DEF g
  <2>. QED
    BY <1>3, <2>1
<1>5. ASSUME NEW n \in 1..N, n - 1 \in S
      PROVE  n \in S
  <2>1. PICK f : Runs(f, n - 1)
    BY <1>5
  <2>. DEFINE g == [i \in 0..n |-> IF i = n THEN Then(f[n - 1], ResourceOrder[n]) ELSE f[i]]
  <2>2. \A i \in 0..n : g[i] = IF i = 0 THEN e ELSE Then(g[i - 1], ResourceOrder[i])
    BY <2>1
  <2>3. Runs(g, n)
    BY <2>2
  <2>. HIDE DEF g
  <2>. QED
    BY <2>3
<1>6. Runs(F, N)
  <2>1. 0..N \subseteq S
    <3>. HIDE DEF S, F, Runs
    <3>. QED
      BY <1>3, <1>4, <1>5, Induct
  <2>2. N \in S
    <3>. HIDE DEF S
    <3>. QED
      BY <1>3, <2>1
  <2>3. \E f : Runs(f, N)
    BY <2>2
  <2>. HIDE DEF Runs
  <2>. QED
    BY <2>3
<1>. HIDE DEF F
<1>7. \A i \in 0..N : F[i] = IF i = 0 THEN e ELSE Then(F[i - 1], ResourceOrder[i])
  BY <1>6
<1>8. F[0] = e
  BY <1>3, <1>7
<1>9. ASSUME NEW i \in 1..N PROVE F[i] = One(F[i - 1], ResourceOrder[i])
  <2>1. i \in 0..N /\ i # 0
    BY <1>3
  <2>2. F[i] = Then(F[i - 1], ResourceOrder[i])
    BY <1>7, <2>1
  <2>. QED
    BY <1>2, <2>2
<1>. QED
  BY <1>1, <1>8, <1>9 DEF N, One

\* What is used on it.
LEMMA UsedRuns ==
    ASSUME NEW e, NEW w,
           Len(ResourceOrder) \in Nat
    PROVE  \E run : /\ Used(e, w) = run[Len(ResourceOrder)] /\ run[0] = e
                    /\ \A i \in 1..Len(ResourceOrder) :
                          run[i] = ConsumeNext(run[i - 1], w, ResourceOrder[i])
<1>. DEFINE One(u, x) == ConsumeNext(u, w, x)
            Then(u, x) == CHOOSE v \in {One(y, x) : y \in {u}} : TRUE
            Runs(f, n) == f =
                [i \in 0..n |-> IF i = 0 THEN e ELSE Then(f[i - 1], ResourceOrder[i])]
            N == Len(ResourceOrder)
            F == CHOOSE f : Runs(f, N)
            S == {n \in 0..N : \E f : Runs(f, n)}
<1>1. Used(e, w) = F[N]
  BY DEF Used, Chain, ConsumeNext
<1>2. \A u, x : Then(u, x) = One(u, x)
  <2>. SUFFICES ASSUME NEW u, NEW x PROVE Then(u, x) = One(u, x)
    OBVIOUS
  <2>1. {One(y, x) : y \in {u}} = {One(u, x)}
    OBVIOUS
  <2>. QED
    BY <2>1
<1>3. N \in Nat
  OBVIOUS
<1>. HIDE DEF One, Then, N
<1>4. 0 \in S
  <2>. DEFINE g == [i \in 0..0 |-> e]
  <2>1. Runs(g, 0)
    OBVIOUS
  <2>. HIDE DEF g
  <2>. QED
    BY <1>3, <2>1
<1>5. ASSUME NEW n \in 1..N, n - 1 \in S
      PROVE  n \in S
  <2>1. PICK f : Runs(f, n - 1)
    BY <1>5
  <2>. DEFINE g == [i \in 0..n |-> IF i = n THEN Then(f[n - 1], ResourceOrder[n]) ELSE f[i]]
  <2>2. \A i \in 0..n : g[i] = IF i = 0 THEN e ELSE Then(g[i - 1], ResourceOrder[i])
    BY <2>1
  <2>3. Runs(g, n)
    BY <2>2
  <2>. HIDE DEF g
  <2>. QED
    BY <2>3
<1>6. Runs(F, N)
  <2>1. 0..N \subseteq S
    <3>. HIDE DEF S, F, Runs
    <3>. QED
      BY <1>3, <1>4, <1>5, Induct
  <2>2. N \in S
    <3>. HIDE DEF S
    <3>. QED
      BY <1>3, <2>1
  <2>3. \E f : Runs(f, N)
    BY <2>2
  <2>. HIDE DEF Runs
  <2>. QED
    BY <2>3
<1>. HIDE DEF F
<1>7. \A i \in 0..N : F[i] = IF i = 0 THEN e ELSE Then(F[i - 1], ResourceOrder[i])
  BY <1>6
<1>8. F[0] = e
  BY <1>3, <1>7
<1>9. ASSUME NEW i \in 1..N PROVE F[i] = One(F[i - 1], ResourceOrder[i])
  <2>1. i \in 0..N /\ i # 0
    BY <1>3
  <2>2. F[i] = Then(F[i - 1], ResourceOrder[i])
    BY <1>7, <2>1
  <2>. QED
    BY <1>2, <2>2
<1>. QED
  BY <1>1, <1>8, <1>9 DEF N, One

\* Who works on it.
LEMMA WorkedRuns ==
    ASSUME NEW e, NEW w,
           Len(Among(CitizenOrder, ProjectInfo[w.p].labourers)) \in Nat
    PROVE  \E run : /\ Worked(e, w) = run[Len(Among(CitizenOrder, ProjectInfo[w.p].labourers))]
                    /\ run[0] = e
                    /\ \A i \in 1..Len(Among(CitizenOrder, ProjectInfo[w.p].labourers)) :
                          run[i] =
                             LaborNext(run[i - 1], w, Among(CitizenOrder, ProjectInfo[w.p].labourers)[i])
<1>. DEFINE Q == Among(CitizenOrder, ProjectInfo[w.p].labourers)
            One(u, x) == LaborNext(u, w, x)
            Then(u, x) == CHOOSE v \in {One(y, x) : y \in {u}} : TRUE
            Runs(f, n) == f = [i \in 0..n |-> IF i = 0 THEN e ELSE Then(f[i - 1], Q[i])]
            N == Len(Q)
            F == CHOOSE f : Runs(f, N)
            S == {n \in 0..N : \E f : Runs(f, n)}
<1>1. Worked(e, w) = F[N]
  BY DEF Worked, Chain, LaborNext
<1>2. \A u, x : Then(u, x) = One(u, x)
  <2>. SUFFICES ASSUME NEW u, NEW x PROVE Then(u, x) = One(u, x)
    OBVIOUS
  <2>1. {One(y, x) : y \in {u}} = {One(u, x)}
    OBVIOUS
  <2>. QED
    BY <2>1
<1>3. N \in Nat
  OBVIOUS
<1>. HIDE DEF One, Then, N, Q
<1>4. 0 \in S
  <2>. DEFINE g == [i \in 0..0 |-> e]
  <2>1. Runs(g, 0)
    OBVIOUS
  <2>. HIDE DEF g
  <2>. QED
    BY <1>3, <2>1
<1>5. ASSUME NEW n \in 1..N, n - 1 \in S
      PROVE  n \in S
  <2>1. PICK f : Runs(f, n - 1)
    BY <1>5
  <2>. DEFINE g == [i \in 0..n |-> IF i = n THEN Then(f[n - 1], Q[n]) ELSE f[i]]
  <2>2. \A i \in 0..n : g[i] = IF i = 0 THEN e ELSE Then(g[i - 1], Q[i])
    BY <2>1
  <2>3. Runs(g, n)
    BY <2>2
  <2>. HIDE DEF g
  <2>. QED
    BY <2>3
<1>6. Runs(F, N)
  <2>1. 0..N \subseteq S
    <3>. HIDE DEF S, F, Runs
    <3>. QED
      BY <1>3, <1>4, <1>5, Induct
  <2>2. N \in S
    <3>. HIDE DEF S
    <3>. QED
      BY <1>3, <2>1
  <2>3. \E f : Runs(f, N)
    BY <2>2
  <2>. HIDE DEF Runs
  <2>. QED
    BY <2>3
<1>. HIDE DEF F
<1>7. \A i \in 0..N : F[i] = IF i = 0 THEN e ELSE Then(F[i - 1], Q[i])
  BY <1>6
<1>8. F[0] = e
  BY <1>3, <1>7
<1>9. ASSUME NEW i \in 1..N PROVE F[i] = One(F[i - 1], Q[i])
  <2>1. i \in 0..N /\ i # 0
    BY <1>3
  <2>2. F[i] = Then(F[i - 1], Q[i])
    BY <1>7, <2>1
  <2>. QED
    BY <1>2, <2>2
<1>. QED
  BY <1>1, <1>8, <1>9 DEF N, One, Q

\* The collective projects.
LEMMA BuildRuns ==
    ASSUME NEW d, NEW policy, NEW decisions, NEW at,
           Len(Among(ProjectOrder, policy)) \in Nat
    PROVE  \E run : /\ Build(d, policy, decisions, at) = run[Len(Among(ProjectOrder, policy))]
                    /\ run[0] = d
                    /\ \A i \in 1..Len(Among(ProjectOrder, policy)) :
                          run[i] =
                             RunCollective(run[i - 1], Among(ProjectOrder, policy)[i], decisions, at)
<1>. DEFINE Q == Among(ProjectOrder, policy)
            One(u, x) == RunCollective(u, x, decisions, at)
            Then(u, x) == CHOOSE v \in {One(y, x) : y \in {u}} : TRUE
            Runs(f, n) == f = [i \in 0..n |-> IF i = 0 THEN d ELSE Then(f[i - 1], Q[i])]
            N == Len(Q)
            F == CHOOSE f : Runs(f, N)
            S == {n \in 0..N : \E f : Runs(f, n)}
<1>1. Build(d, policy, decisions, at) = F[N]
  BY DEF Build, Chain
<1>2. \A u, x : Then(u, x) = One(u, x)
  <2>. SUFFICES ASSUME NEW u, NEW x PROVE Then(u, x) = One(u, x)
    OBVIOUS
  <2>1. {One(y, x) : y \in {u}} = {One(u, x)}
    OBVIOUS
  <2>. QED
    BY <2>1
<1>3. N \in Nat
  OBVIOUS
<1>. HIDE DEF One, Then, N, Q
<1>4. 0 \in S
  <2>. DEFINE g == [i \in 0..0 |-> d]
  <2>1. Runs(g, 0)
    OBVIOUS
  <2>. HIDE DEF g
  <2>. QED
    BY <1>3, <2>1
<1>5. ASSUME NEW n \in 1..N, n - 1 \in S
      PROVE  n \in S
  <2>1. PICK f : Runs(f, n - 1)
    BY <1>5
  <2>. DEFINE g == [i \in 0..n |-> IF i = n THEN Then(f[n - 1], Q[n]) ELSE f[i]]
  <2>2. \A i \in 0..n : g[i] = IF i = 0 THEN d ELSE Then(g[i - 1], Q[i])
    BY <2>1
  <2>3. Runs(g, n)
    BY <2>2
  <2>. HIDE DEF g
  <2>. QED
    BY <2>3
<1>6. Runs(F, N)
  <2>1. 0..N \subseteq S
    <3>. HIDE DEF S, F, Runs
    <3>. QED
      BY <1>3, <1>4, <1>5, Induct
  <2>2. N \in S
    <3>. HIDE DEF S
    <3>. QED
      BY <1>3, <2>1
  <2>3. \E f : Runs(f, N)
    BY <2>2
  <2>. HIDE DEF Runs
  <2>. QED
    BY <2>3
<1>. HIDE DEF F
<1>7. \A i \in 0..N : F[i] = IF i = 0 THEN d ELSE Then(F[i - 1], Q[i])
  BY <1>6
<1>8. F[0] = d
  BY <1>3, <1>7
<1>9. ASSUME NEW i \in 1..N PROVE F[i] = One(F[i - 1], Q[i])
  <2>1. i \in 0..N /\ i # 0
    BY <1>3
  <2>2. F[i] = Then(F[i - 1], Q[i])
    BY <1>7, <2>1
  <2>. QED
    BY <1>2, <2>2
<1>. QED
  BY <1>1, <1>8, <1>9 DEF N, One, Q

\* The projects citizens propose.
LEMMA OriginationRuns ==
    ASSUME NEW d,
           Len(Among(CitizenOrder, Proposers)) \in Nat
    PROVE  \E run : /\ Originations(d) = run[Len(Among(CitizenOrder, Proposers))]
                    /\ run[0] = d
                    /\ \A i \in 1..Len(Among(CitizenOrder, Proposers)) :
                          run[i] = OriginateOne(run[i - 1], Among(CitizenOrder, Proposers)[i])
<1>. DEFINE Q == Among(CitizenOrder, Proposers)
            One(u, x) == OriginateOne(u, x)
            Then(u, x) == CHOOSE v \in {One(y, x) : y \in {u}} : TRUE
            Runs(f, n) == f = [i \in 0..n |-> IF i = 0 THEN d ELSE Then(f[i - 1], Q[i])]
            N == Len(Q)
            F == CHOOSE f : Runs(f, N)
            S == {n \in 0..N : \E f : Runs(f, n)}
<1>1. Originations(d) = F[N]
  BY DEF Originations, Chain, Proposers
<1>2. \A u, x : Then(u, x) = One(u, x)
  <2>. SUFFICES ASSUME NEW u, NEW x PROVE Then(u, x) = One(u, x)
    OBVIOUS
  <2>1. {One(y, x) : y \in {u}} = {One(u, x)}
    OBVIOUS
  <2>. QED
    BY <2>1
<1>3. N \in Nat
  OBVIOUS
<1>. HIDE DEF One, Then, N, Q
<1>4. 0 \in S
  <2>. DEFINE g == [i \in 0..0 |-> d]
  <2>1. Runs(g, 0)
    OBVIOUS
  <2>. HIDE DEF g
  <2>. QED
    BY <1>3, <2>1
<1>5. ASSUME NEW n \in 1..N, n - 1 \in S
      PROVE  n \in S
  <2>1. PICK f : Runs(f, n - 1)
    BY <1>5
  <2>. DEFINE g == [i \in 0..n |-> IF i = n THEN Then(f[n - 1], Q[n]) ELSE f[i]]
  <2>2. \A i \in 0..n : g[i] = IF i = 0 THEN d ELSE Then(g[i - 1], Q[i])
    BY <2>1
  <2>3. Runs(g, n)
    BY <2>2
  <2>. HIDE DEF g
  <2>. QED
    BY <2>3
<1>6. Runs(F, N)
  <2>1. 0..N \subseteq S
    <3>. HIDE DEF S, F, Runs
    <3>. QED
      BY <1>3, <1>4, <1>5, Induct
  <2>2. N \in S
    <3>. HIDE DEF S
    <3>. QED
      BY <1>3, <2>1
  <2>3. \E f : Runs(f, N)
    BY <2>2
  <2>. HIDE DEF Runs
  <2>. QED
    BY <2>3
<1>. HIDE DEF F
<1>7. \A i \in 0..N : F[i] = IF i = 0 THEN d ELSE Then(F[i - 1], Q[i])
  BY <1>6
<1>8. F[0] = d
  BY <1>3, <1>7
<1>9. ASSUME NEW i \in 1..N PROVE F[i] = One(F[i - 1], Q[i])
  <2>1. i \in 0..N /\ i # 0
    BY <1>3
  <2>2. F[i] = Then(F[i - 1], Q[i])
    BY <1>7, <2>1
  <2>. QED
    BY <1>2, <2>2
<1>. QED
  BY <1>1, <1>8, <1>9 DEF N, One, Q

\* The stocks of the world as it begins.
LEMMA BootstrapRuns ==
    ASSUME Len(StockOrder) \in Nat
    PROVE  \E run : /\ Bootstrap = run[Len(StockOrder)] /\ run[0] = Planned
                    /\ \A i \in 1..Len(StockOrder) :
                          run[i] = StockedFirst(run[i - 1], StockOrder[i])
<1>. DEFINE One(u, x) == StockedFirst(u, x)
            Then(u, x) == CHOOSE v \in {One(y, x) : y \in {u}} : TRUE
            Runs(f, n) == f =
                [i \in 0..n |-> IF i = 0 THEN Planned ELSE Then(f[i - 1], StockOrder[i])]
            N == Len(StockOrder)
            F == CHOOSE f : Runs(f, N)
            S == {n \in 0..N : \E f : Runs(f, n)}
<1>1. Bootstrap = F[N]
  BY DEF Bootstrap, Chain
<1>2. \A u, x : Then(u, x) = One(u, x)
  <2>. SUFFICES ASSUME NEW u, NEW x PROVE Then(u, x) = One(u, x)
    OBVIOUS
  <2>1. {One(y, x) : y \in {u}} = {One(u, x)}
    OBVIOUS
  <2>. QED
    BY <2>1
<1>3. N \in Nat
  OBVIOUS
<1>. HIDE DEF One, Then, N
<1>4. 0 \in S
  <2>. DEFINE g == [i \in 0..0 |-> Planned]
  <2>1. Runs(g, 0)
    OBVIOUS
  <2>. HIDE DEF g
  <2>. QED
    BY <1>3, <2>1
<1>5. ASSUME NEW n \in 1..N, n - 1 \in S
      PROVE  n \in S
  <2>1. PICK f : Runs(f, n - 1)
    BY <1>5
  <2>. DEFINE g == [i \in 0..n |-> IF i = n THEN Then(f[n - 1], StockOrder[n]) ELSE f[i]]
  <2>2. \A i \in 0..n : g[i] = IF i = 0 THEN Planned ELSE Then(g[i - 1], StockOrder[i])
    BY <2>1
  <2>3. Runs(g, n)
    BY <2>2
  <2>. HIDE DEF g
  <2>. QED
    BY <2>3
<1>6. Runs(F, N)
  <2>1. 0..N \subseteq S
    <3>. HIDE DEF S, F, Runs
    <3>. QED
      BY <1>3, <1>4, <1>5, Induct
  <2>2. N \in S
    <3>. HIDE DEF S
    <3>. QED
      BY <1>3, <2>1
  <2>3. \E f : Runs(f, N)
    BY <2>2
  <2>. HIDE DEF Runs
  <2>. QED
    BY <2>3
<1>. HIDE DEF F
<1>7. \A i \in 0..N : F[i] = IF i = 0 THEN Planned ELSE Then(F[i - 1], StockOrder[i])
  BY <1>6
<1>8. F[0] = Planned
  BY <1>3, <1>7
<1>9. ASSUME NEW i \in 1..N PROVE F[i] = One(F[i - 1], StockOrder[i])
  <2>1. i \in 0..N /\ i # 0
    BY <1>3
  <2>2. F[i] = Then(F[i - 1], StockOrder[i])
    BY <1>7, <2>1
  <2>. QED
    BY <1>2, <2>2
<1>. QED
  BY <1>1, <1>8, <1>9 DEF N, One

-----------------------------------------------------------------------------
(* A day in the making *)

\* A state the days of the world go through: in order, and with a building for
\* every completed project.
BuiltUp(c) == \A p \in DOMAIN c.projects : Done(c.projects, p) => p \in DOMAIN c.built
Sound(c) == KernelOK("linked", c) /\ AccountsOK(c) /\ BuiltUp(c)

\* The scheduler moves nobody, and nothing that is done is undone.
SamePeople(c, e) ==
    /\ e.citizens = c.citizens /\ e.households = c.households
    /\ e.settlements = c.settlements /\ e.migrations = c.migrations
    /\ e.journeys = c.journeys /\ e.foundings = c.foundings /\ e.settled = c.settled
NothingUndone(c, e) ==
    /\ DOMAIN c.stocks \subseteq DOMAIN e.stocks /\ DOMAIN c.projects \subseteq DOMAIN e.projects
    /\ \A p \in DOMAIN c.projects : Done(c.projects, p) => Done(e.projects, p)
Onward(c, e) == SamePeople(c, e) /\ NothingUndone(c, e)

\* What a call within a day may come to.
CallOK(c, e, at) == Sound(e) /\ e.time =< at /\ Onward(c, e)

\* The labor taken of a citizen and what is left make what they had.
LaborOK(labor, taken, given) ==
    /\ labor \in [Citizens -> Nat] /\ taken \in [Citizens -> Int]
    /\ \A p \in Citizens : taken[p] + labor[p] = given[p]

\* A day in the making that began in c: it is in order unless a call has thrown.
IsDay(d) ==
    /\ d = [civ |-> d.civ, ok |-> d.ok, did |-> d.did, labor |-> d.labor,
            worked |-> d.worked, left |-> d.left]
    /\ d.ok \in BOOLEAN
Goes(c, given, at, d) ==
    CallOK(c, d.civ, at) /\ LaborOK(d.labor, d.worked, given) /\ d.left \in [Lanes -> Int]
DayOK(c, given, at, d) == IsDay(d) /\ (d.ok => Goes(c, given, at, d))

\* Call after call.
LEMMA OnwardGoesOn ==
    ASSUME NEW c, NEW d, NEW e, Onward(c, d), Onward(d, e)
    PROVE  Onward(c, e)
BY DEF Onward, SamePeople, NothingUndone, Done

\* What Try makes of a day.
LEMMA TryMakes ==
    ASSUME NEW d, IsDay(d), NEW can, NEW x
    PROVE  /\ IsDay(Try(d, can, x))
           /\ Try(d, can, x).ok = (d.ok /\ can)
           /\ Try(d, can, x).did = d.did
           /\ Try(d, can, x).labor = d.labor /\ Try(d, can, x).worked = d.worked
           /\ Try(d, can, x).left = d.left
           /\ Try(d, can, x).civ = IF d.ok /\ can THEN x ELSE d.civ
<1>1. CASE d.ok /\ can
  <2>1. Try(d, can, x) = [d EXCEPT !.civ = x]
    BY <1>1 DEF Try
  <2>. QED
    BY <1>1, <2>1 DEF IsDay
<1>2. CASE ~ (d.ok /\ can)
  <2>1. Try(d, can, x) = [d EXCEPT !.ok = FALSE]
    BY <1>2 DEF Try
  <2>. QED
    BY <1>2, <2>1 DEF IsDay
<1>. QED
  BY <1>1, <1>2

\* A call that is in order when it does not throw goes on with the day.
LEMMA TryGoesOn ==
    ASSUME NEW c, NEW given, NEW at, NEW d, DayOK(c, given, at, d), NEW can, NEW x,
           d.ok /\ can => CallOK(d.civ, x, at)
    PROVE  DayOK(c, given, at, Try(d, can, x))
<1>. DEFINE e == Try(d, can, x)
<1>1. /\ IsDay(e) /\ e.ok = (d.ok /\ can) /\ e.labor = d.labor
      /\ e.worked = d.worked /\ e.left = d.left
      /\ e.civ = IF d.ok /\ can THEN x ELSE d.civ
  BY TryMakes DEF DayOK
<1>. HIDE DEF e
<1>2. ASSUME e.ok
      PROVE  Goes(c, given, at, e)
  <2>1. d.ok /\ can /\ e.civ = x
    BY <1>1, <1>2
  <2>2. CallOK(d.civ, x, at) /\ Goes(c, given, at, d)
    BY <2>1 DEF DayOK
  <2>3. Onward(c, x)
    BY <2>2, OnwardGoesOn DEF CallOK, Goes
  <2>. QED
    BY <1>1, <2>1, <2>2, <2>3 DEF CallOK, Goes
<1>3. DayOK(c, given, at, e)
  BY <1>1, <1>2 DEF DayOK
<1>. QED
  BY <1>3 DEF e

\* A day that failed goes nowhere.
LEMMA FailGoesOn ==
    ASSUME NEW c, NEW given, NEW at, NEW d, DayOK(c, given, at, d)
    PROVE  DayOK(c, given, at, [d EXCEPT !.ok = FALSE]) /\ ~ [d EXCEPT !.ok = FALSE].ok
<1>. DEFINE e == [d EXCEPT !.ok = FALSE]
<1>1. IsDay(e) /\ e.ok = FALSE
  <2>1. e = [d EXCEPT !.ok = FALSE] /\ IsDay(d)
    BY DEF DayOK
  <2>. HIDE DEF e
  <2>. QED
    BY <2>1 DEF IsDay
<1>. HIDE DEF e
<1>2. DayOK(c, given, at, e)
  BY <1>1 DEF DayOK
<1>. QED
  BY <1>1, <1>2 DEF e

\* What is written down of it.
LEMMA LogGoesOn ==
    ASSUME NEW c, NEW given, NEW at, NEW d, DayOK(c, given, at, d), NEW kind, NEW subject
    PROVE  /\ DayOK(c, given, at, Log(d, kind, subject))
           /\ Log(d, kind, subject).ok = d.ok /\ Log(d, kind, subject).civ = d.civ
<1>. DEFINE e == Log(d, kind, subject)
<1>1. /\ IsDay(e) /\ e.ok = d.ok /\ e.civ = d.civ /\ e.labor = d.labor
      /\ e.worked = d.worked /\ e.left = d.left
  BY DEF DayOK, IsDay, Log
<1>. HIDE DEF e
<1>2. DayOK(c, given, at, e)
  BY <1>1 DEF DayOK, Goes
<1>. QED
  BY <1>1, <1>2 DEF e

\* What is taken of a citizen, that they have.
LEMMA WorkGoesOn ==
    ASSUME NEW c, NEW given, NEW at, NEW d, DayOK(c, given, at, d), NEW p, NEW n,
           d.ok => p \in Citizens /\ n \in Nat /\ n =< d.labor[p]
    PROVE  /\ DayOK(c, given, at, Work(d, p, n))
           /\ Work(d, p, n).ok = d.ok /\ Work(d, p, n).civ = d.civ /\ Work(d, p, n).left = d.left
<1>. DEFINE e == Work(d, p, n)
            labor == [d.labor EXCEPT ![p] = @ - n]
            taken == [d.worked EXCEPT ![p] = @ + n]
<1>1. e = [d EXCEPT !.labor = labor, !.worked = taken]
  BY DEF Work, DayOK, IsDay
<1>. HIDE DEF labor, taken
<1>2. /\ IsDay(e) /\ e.ok = d.ok /\ e.civ = d.civ /\ e.labor = labor
      /\ e.worked = taken /\ e.left = d.left
  BY <1>1 DEF DayOK, IsDay
<1>. HIDE DEF e
<1>3. ASSUME d.ok
      PROVE  LaborOK(labor, taken, given)
  <2>1. LaborOK(d.labor, d.worked, given)
    BY <1>3 DEF DayOK, Goes
  <2>2. p \in Citizens /\ n \in Nat /\ n =< d.labor[p]
    BY <1>3
  <2>3. labor \in [Citizens -> Nat] /\ taken \in [Citizens -> Int]
    BY <2>1, <2>2 DEF LaborOK, labor, taken
  <2>4. /\ labor[p] = d.labor[p] - n /\ taken[p] = d.worked[p] + n
        /\ \A q \in Citizens : q # p => labor[q] = d.labor[q] /\ taken[q] = d.worked[q]
    BY <2>1, <2>2 DEF LaborOK, labor, taken
  <2>5. /\ d.labor[p] \in Nat /\ d.worked[p] \in Int /\ d.worked[p] + d.labor[p] = given[p]
        /\ \A q \in Citizens : d.worked[q] + d.labor[q] = given[q]
    BY <2>1, <2>2 DEF LaborOK
  <2>6. \A q \in Citizens : taken[q] + labor[q] = given[q]
    BY <2>2, <2>4, <2>5
  <2>. QED
    BY <2>3, <2>6 DEF LaborOK
<1>4. DayOK(c, given, at, e)
  BY <1>2, <1>3 DEF DayOK, Goes
<1>. QED
  BY <1>2, <1>4 DEF e

\* What a lane has carried.
LEMMA CarryGoesOn ==
    ASSUME NEW c, NEW given, NEW at, NEW d, DayOK(c, given, at, d), NEW l, NEW n,
           d.ok => l \in Lanes /\ n \in Int
    PROVE  DayOK(c, given, at, [d EXCEPT !.left[l] = @ - n])
<1>. DEFINE left == [d.left EXCEPT ![l] = @ - n]
            e == [d EXCEPT !.left = left]
<1>1. e = [d EXCEPT !.left[l] = @ - n]
  BY DEF DayOK, IsDay
<1>2. d.ok => left \in [Lanes -> Int]
  BY DEF DayOK, Goes
<1>. HIDE DEF left
<1>3. /\ IsDay(e) /\ e.ok = d.ok /\ e.civ = d.civ /\ e.labor = d.labor
      /\ e.worked = d.worked /\ e.left = left
  BY DEF DayOK, IsDay
<1>. HIDE DEF e
<1>4. DayOK(c, given, at, e)
  BY <1>2, <1>3 DEF DayOK, Goes
<1>. QED
  BY <1>1, <1>4

-----------------------------------------------------------------------------
(* The calls of a day *)

\* A call that moves matter.
LEMMA AccountingCall ==
    ASSUME NEW c, Sound(c), NEW e, NEW at \in Nat, IsAccounting(c, e), AccountsOK(e),
           e.time =< at, DOMAIN c.stocks \subseteq DOMAIN e.stocks
    PROVE  CallOK(c, e, at)
<1>1. KernelOK("linked", e)
  BY AccountingKeeps DEF Sound
<1>2. SameSociety(c, e)
  BY DEF IsAccounting
<1>3. BuiltUp(e)
  BY <1>2 DEF SameSociety, Sound, BuiltUp
<1>4. Onward(c, e)
  BY <1>2 DEF SameSociety, Onward, SamePeople, NothingUndone
<1>. QED
  BY <1>1, <1>3, <1>4 DEF CallOK, Sound

\* What such a call needs to know of a state in order.
LEMMA SoundFacts ==
    ASSUME NEW c, Sound(c)
    PROVE  /\ KernelOK("linked", c) /\ AccountsOK(c) /\ IsCivilization(c) /\ DOMAIN c.stocks \subseteq Stocks
           /\ IsAccounting(c, c) /\ c.time \in Nat
           /\ \A s \in DOMAIN c.stocks : c.stocks[s] \in Nat /\ Free(c, s) \in Int
                                         /\ Room(c, s) \in Int
<1>1. /\ KernelOK("linked", c) /\ AccountsOK(c) /\ IsCivilization(c) /\ DOMAIN c.stocks \subseteq Stocks
      /\ c.time \in Nat /\ \A s \in DOMAIN c.stocks : c.stocks[s] \in Nat
  BY AccountsAreNumbers DEF Sound, KernelOK
<1>2. IsAccounting(c, c)
  BY <1>1 DEF IsAccounting, SameSociety
<1>3. \A s \in Stocks : StockInfo[s].capacity \in Nat /\ StockInfo[s].reserved \in Nat
  BY CatalogueAssumption DEF ValidCatalogue
<1>. QED
  BY <1>1, <1>2, <1>3 DEF Free, Room

\* The calls of the accounts.
LEMMA MatterCalls ==
    ASSUME NEW c, Sound(c), NEW at \in Nat
    PROVE  /\ \A s \in Stocks, q \in Nat : CanRegisterStock(c, s, q, at) =>
                 CallOK(c, RegisterStock(c, s, q, at), at)
           /\ \A kind \in {"transfer", "transport"}, q \in Nat : \A a, b :
                 CanTransfer(c, a, b, q, at) => CallOK(c, Transfer(c, kind, a, b, q, at), at)
           /\ \A id : CanCompleteProduction(c, id, at) =>
                 CallOK(c, CompleteProduction(c, id, at), at)
<1>1. IsCivilization(c) /\ AccountsOK(c) /\ DOMAIN c.stocks \subseteq Stocks
  BY SoundFacts
<1>2. ASSUME NEW s \in Stocks, NEW q \in Nat, CanRegisterStock(c, s, q, at)
      PROVE  CallOK(c, RegisterStock(c, s, q, at), at)
  <2>. DEFINE e == RegisterStock(c, s, q, at)
  <2>1. Did(c, e, at, MovedBy(With(c.stocks, s, 0), [x \in {s} |-> q]), c.processes)
    BY <1>1, <1>2, RegisterStockAccounts
  <2>2. IsAccounting(c, e)
    BY <1>1, CallsAreAccounting
  <2>. HIDE DEF e
  <2>3. AccountsOK(e) /\ e.time = at /\ DOMAIN c.stocks \subseteq DOMAIN e.stocks
    BY <2>1 DEF Did, MovedBy, With
  <2>4. CallOK(c, e, at)
    BY <2>2, <2>3, AccountingCall
  <2>. QED
    BY <2>4 DEF e
<1>3. ASSUME NEW kind \in {"transfer", "transport"}, NEW q \in Nat, NEW a, NEW b,
             CanTransfer(c, a, b, q, at)
      PROVE  CallOK(c, Transfer(c, kind, a, b, q, at), at)
  <2>. DEFINE e == Transfer(c, kind, a, b, q, at)
  <2>1. Did(c, e, at, MovedBy(c.stocks, Line(a, b, q)), c.processes)
    BY <1>1, <1>3, TransferAccounts
  <2>2. IsAccounting(c, e)
    BY <1>1, CallsAreAccounting
  <2>. HIDE DEF e
  <2>3. AccountsOK(e) /\ e.time = at /\ DOMAIN c.stocks \subseteq DOMAIN e.stocks
    BY <2>1 DEF Did, MovedBy
  <2>4. CallOK(c, e, at)
    BY <2>2, <2>3, AccountingCall
  <2>. QED
    BY <2>4 DEF e
<1>4. ASSUME NEW id, CanCompleteProduction(c, id, at)
      PROVE  CallOK(c, CompleteProduction(c, id, at), at)
  <2>. DEFINE e == CompleteProduction(c, id, at)
  <2>1. Did(c, e, at, MovedBy(c.stocks, Outputs(c, id)), CompletedOf(c.processes, id))
    BY <1>1, <1>4, CompleteProductionAccounts
  <2>2. IsAccounting(c, e)
    BY <1>1, CallsAreAccounting
  <2>. HIDE DEF e
  <2>3. AccountsOK(e) /\ e.time = at /\ DOMAIN c.stocks \subseteq DOMAIN e.stocks
    BY <2>1 DEF Did, MovedBy
  <2>4. CallOK(c, e, at)
    BY <2>2, <2>3, AccountingCall
  <2>. QED
    BY <2>4 DEF e
<1>. QED
  BY <1>2, <1>3, <1>4

\* A job starts, of stocks there are.
LEMMA StartCall ==
    ASSUME NEW c, Sound(c), NEW at \in Nat, NEW id \in Processes, NEW r \in Recipes, NEW where,
           NEW in \in Bindings(c, RecipeInfo[r].in), NEW out \in Bindings(c, RecipeInfo[r].out),
           CanStartProduction(c, id, r, where, in, out, at)
    PROVE  CallOK(c, StartProduction(c, id, r, in, out, at), at)
<1>. DEFINE e == StartProduction(c, id, r, in, out, at)
            d == Bound(RecipeInfo[r].in, in, -1)
            f == With(c.processes, id, [recipe |-> r, out |-> out, state |-> "active",
                                        due |-> at + RecipeInfo[r].duration])
<1>1. IsCivilization(c) /\ AccountsOK(c) /\ DOMAIN c.stocks \subseteq Stocks
  BY SoundFacts
<1>2. Did(c, e, at, MovedBy(c.stocks, d), f)
  BY <1>1, StartProductionAccounts
<1>3. IsAccounting(c, e)
  BY <1>1, CallsAreAccounting
<1>. HIDE DEF e, d, f
<1>4. AccountsOK(e) /\ e.time = at /\ DOMAIN c.stocks \subseteq DOMAIN e.stocks
  BY <1>2 DEF Did, MovedBy
<1>5. CallOK(c, e, at)
  BY <1>3, <1>4, AccountingCall
<1>. QED
  BY <1>5 DEF e

\* The residents are fed.
LEMMA NeedsCall ==
    ASSUME NEW c, Sound(c), NEW at \in Nat, NEW batch \in Seq(Citizens), NEW needs,
           CanConsumeNeeds(c, batch, at)
    PROVE  CallOK(c, ConsumeNeeds(c, batch, needs, at), at)
<1>. DEFINE e == ConsumeNeeds(c, batch, needs, at)
<1>1. IsCivilization(c) /\ AccountsOK(c) /\ DOMAIN c.stocks \subseteq Stocks
  BY SoundFacts
<1>2. FedSoFar(c, e, batch, Len(batch), at)
  BY <1>1, ConsumeNeedsAccounts
<1>3. IsAccounting(c, e)
  BY <1>1, ConsumeNeedsIsAccounting
<1>. HIDE DEF e
<1>4. AccountsOK(e) /\ e.time =< at /\ DOMAIN c.stocks \subseteq DOMAIN e.stocks
  BY <1>2 DEF FedSoFar
<1>5. CallOK(c, e, at)
  BY <1>3, <1>4, AccountingCall
<1>. QED
  BY <1>5 DEF e

\* Work on a project that is neither completed nor completed by it.
LEMMA WorkCall ==
    ASSUME NEW c, Sound(c), NEW d, IsAccounting(c, d), DOMAIN c.stocks \subseteq DOMAIN d.stocks,
           NEW p \in DOMAIN c.projects, c.projects[p].state # "completed",
           NEW s, s # "completed", NEW ms, NEW e, e = Written(c, d, p, s, ms),
           KernelOK("linked", e), AccountsOK(e), NEW at \in Nat, e.time =< at
    PROVE  CallOK(c, e, at)
<1>1. SameSociety(c, d) /\ IsCivilization(d)
  BY DEF IsAccounting
<1>. DEFINE f == [c.projects EXCEPT ![p] = [state |-> s, milestones |-> ms]]
<1>2. e = [d EXCEPT !.projects = f]
  BY DEF Written
<1>3. /\ c.projects = [x \in DOMAIN c.projects |-> c.projects[x]]
  BY ProjectFacts DEF Sound
<1>4. /\ DOMAIN f = DOMAIN c.projects /\ f[p].state = s
      /\ \A q \in DOMAIN c.projects : q # p => f[q] = c.projects[q]
  BY <1>3
<1>. HIDE DEF f
<1>5. /\ e.projects = f /\ e.stocks = d.stocks /\ e.built = d.built /\ e.citizens = d.citizens
      /\ e.households = d.households /\ e.settlements = d.settlements /\ e.settled = d.settled
      /\ e.migrations = d.migrations /\ e.journeys = d.journeys /\ e.foundings = d.foundings
  BY <1>1, <1>2 DEF IsCivilization, Tables
<1>6. Onward(c, e)
  BY <1>1, <1>4, <1>5 DEF Onward, SamePeople, NothingUndone, SameSociety, Done
<1>7. BuiltUp(e)
  BY <1>1, <1>4, <1>5 DEF Sound, BuiltUp, Done, SameSociety
<1>. QED
  BY <1>6, <1>7 DEF CallOK, Sound

\* A project's state is written.
LEMMA StateWritten ==
    ASSUME NEW c, NEW d, KernelOK("linked", c), IsAccounting(c, d), NEW p \in DOMAIN c.projects, NEW s
    PROVE  [d EXCEPT !.projects[p].state = s] = Written(c, d, p, s, c.projects[p].milestones)
<1>. DEFINE f == c.projects
            ms == c.projects[p].milestones
            z == c.projects[p].state
<1>1. /\ d = [t \in Tables |-> d[t]] /\ "projects" \in Tables /\ d.projects = f
      /\ f = [x \in DOMAIN f |-> f[x]] /\ f[p] = [state |-> z, milestones |-> ms]
  BY TablesOf
<1>. HIDE DEF f, ms, z
<1>2. [f[p] EXCEPT !.state = s] = [state |-> s, milestones |-> ms]
  BY <1>1
<1>3. [d EXCEPT !.projects[p].state = s] =
         [d EXCEPT !.projects = [f EXCEPT ![p] = [f[p] EXCEPT !.state = s]]]
  BY <1>1 DEF f
<1>. QED
  BY <1>2, <1>3 DEF Written, f, ms

\* The time alone.
LEMMA LaterIsAccounting ==
    ASSUME NEW c, Sound(c), NEW at \in Nat, at >= c.time
    PROVE  /\ IsAccounting(c, [c EXCEPT !.time = at])
           /\ [c EXCEPT !.time = at].stocks = c.stocks
           /\ \A p, s : [c EXCEPT !.time = at, !.projects[p].state = s] =
                           [[c EXCEPT !.time = at] EXCEPT !.projects[p].state = s]
           /\ \A p, i, n : [c EXCEPT !.time = at, !.projects[p].milestones[i] = n] =
                           WriteOne([c EXCEPT !.time = at], p, i, n)
<1>1. IsCivilization(c) /\ IsAccounting(c, [c EXCEPT !.time = at])
  BY LaterIsSilent DEF Sound, KernelOK
<1>2. [c EXCEPT !.time = at].stocks = c.stocks
  BY <1>1 DEF IsCivilization, Tables
<1>3. \A p, s : [c EXCEPT !.time = at, !.projects[p].state = s] =
                           [[c EXCEPT !.time = at] EXCEPT !.projects[p].state = s]
  OBVIOUS
<1>4. \A p, i, n : [c EXCEPT !.time = at, !.projects[p].milestones[i] = n] =
                           WriteOne([c EXCEPT !.time = at], p, i, n)
  BY DEF WriteOne
<1>. QED
  BY <1>1, <1>2, <1>3, <1>4

\* A project is approved, and started.
LEMMA StateCalls ==
    ASSUME NEW c, Sound(c), NEW at \in Nat, NEW p \in DOMAIN c.projects
    PROVE  /\ Is(c, p, {"proposed"}) /\ c.time =< at => CallOK(c, ApproveProject(c, p), at)
           /\ CanStartProject(c, p, at) => CallOK(c, StartProject(c, p, at), at)
<1>0. KernelOK("linked", c) /\ AccountsOK(c) /\ IsAccounting(c, c) /\ p \in Projects /\ c.time \in Nat
  BY SoundFacts DEF Books, KernelOK
<1>1. ASSUME Is(c, p, {"proposed"}), c.time =< at
      PROVE  CallOK(c, ApproveProject(c, p), at)
  <2>. DEFINE e == ApproveProject(c, p)
              ms == c.projects[p].milestones
  <2>1. KernelOK("linked", e)
    BY <1>0, <1>1, ProjectStatesKeep
  <2>2. SilentCall(c, e, c.time)
    BY <1>0, ProjectStatesAccount
  <2>3. e = Written(c, c, p, "approved", ms)
    BY <1>0, StateWritten DEF ApproveProject
  <2>4. c.projects[p].state # "completed"
    BY <1>1 DEF Is
  <2>. HIDE DEF e, ms
  <2>5. AccountsOK(e) /\ e.time =< at
    BY <1>1, <2>2 DEF SilentCall, Silent
  <2>6. CallOK(c, e, at)
    BY <1>0, <2>1, <2>3, <2>4, <2>5, WorkCall
  <2>. QED
    BY <2>6 DEF e
<1>2. ASSUME CanStartProject(c, p, at)
      PROVE  CallOK(c, StartProject(c, p, at), at)
  <2>. DEFINE e == StartProject(c, p, at)
              d == [c EXCEPT !.time = at]
              ms == c.projects[p].milestones
  <2>0. at >= c.time /\ c.projects[p].state # "completed"
    BY <1>2 DEF CanStartProject, Is
  <2>1. KernelOK("linked", e)
    BY <1>0, <1>2, ProjectStatesKeep
  <2>2. SilentCall(c, e, at)
    BY <1>0, <2>0, ProjectStatesAccount
  <2>3. IsAccounting(c, d) /\ d.stocks = c.stocks /\ e = [d EXCEPT !.projects[p].state = "active"]
    BY <2>0, LaterIsAccounting DEF StartProject
  <2>. HIDE DEF d, e
  <2>4. e = Written(c, d, p, "active", ms)
    BY <1>0, <2>3, StateWritten
  <2>. HIDE DEF ms
  <2>5. AccountsOK(e) /\ e.time =< at
    BY <2>2 DEF SilentCall, Silent
  <2>6. CallOK(c, e, at)
    BY <2>0, <2>1, <2>3, <2>4, <2>5, WorkCall
  <2>. QED
    BY <2>6 DEF e
<1>. QED
  BY <1>1, <1>2

\* Material for a milestone.
LEMMA DeliverCall ==
    ASSUME NEW c, Sound(c), NEW at \in Nat, NEW p \in DOMAIN c.projects, NEW i \in DOMAIN Plan(p),
           NEW from, NEW to, NEW q \in Nat, CanDeliver(c, p, i, from, to, q, at)
    PROVE  CallOK(c, Deliver(c, p, i, from, to, q, at), at)
<1>. DEFINE d == Transfer(c, "transfer", from, to, q, at)
            g == ResourceOf(to)
            s == IF c.projects[p].state = "approved" THEN "resourcing" ELSE c.projects[p].state
            w == c.projects[p].milestones[i]
            m == WithDelivery(w, g, q)
            ms == [c.projects[p].milestones EXCEPT ![i] = m]
            e == Deliver(c, p, i, from, to, q, at)
<1>1. KernelOK("linked", c) /\ AccountsOK(c) /\ IsCivilization(c) /\ DOMAIN c.stocks \subseteq Stocks
  BY SoundFacts
<1>2. /\ c.projects[p].state \in {"approved", "resourcing", "active"}
      /\ to \in DOMAIN c.stocks /\ CanTransfer(c, from, to, q, at)
  BY DEF CanDeliver, CanTransfer, Is
<1>3. CallOK(c, d, at)
  BY <1>2, MatterCalls
<1>4. IsAccounting(c, d) /\ d.projects = c.projects
  BY <1>1, CallsAreAccounting, SMTT(30) DEF IsAccounting, SameSociety
<1>5. e = Written(c, d, p, s, ms)
  <2>1. e = WriteBoth(d, p, s, i, m)
    <3>. HIDE DEF WithDelivery
    <3>1. d.projects[p].state = c.projects[p].state /\ d.projects[p].milestones[i] = w
      BY <1>4
    <3>2. e = [d EXCEPT !.projects[p].state = IF @ = "approved" THEN "resourcing" ELSE @,
                        !.projects[p].milestones[i] = WithDelivery(@, g, q)]
      BY DEF Deliver
    <3>. HIDE DEF d, g, e
    <3>. QED
      BY <1>1, <1>4, <3>1, <3>2, ProjectFacts DEF WriteBoth
  <2>. HIDE DEF d, m, s, e
  <2>. QED
    BY <1>1, <1>4, <2>1, StateAndMilestoneWritten
<1>6. KernelOK("linked", e) /\ AccountsOK(e) /\ e.time = at
  <2>1. KernelOK("linked", e)
    BY <1>1, <1>2, DeliverKeeps
  <2>2. Did(c, e, at, MovedBy(c.stocks, Line(from, to, q)), c.processes)
    BY <1>1, <1>2, DeliverAccounts
  <2>. HIDE DEF e
  <2>. QED
    BY <2>1, <2>2 DEF Did
<1>7. s # "completed" /\ c.projects[p].state # "completed"
  BY <1>2
<1>8. DOMAIN c.stocks \subseteq DOMAIN d.stocks
  BY <1>3 DEF CallOK, Onward, NothingUndone
<1>. HIDE DEF d, s, ms, e
<1>9. CallOK(c, e, at)
  BY <1>4, <1>5, <1>6, <1>7, <1>8, WorkCall
<1>. QED
  BY <1>9 DEF e

\* Material is used.
LEMMA ConsumeCall ==
    ASSUME NEW c, Sound(c), NEW at \in Nat, NEW p \in DOMAIN c.projects, NEW i \in DOMAIN Plan(p),
           NEW s, NEW q \in Nat, CanConsume(c, p, i, s, q, at)
    PROVE  CallOK(c, Consume(c, p, i, s, q, at), at)
<1>. DEFINE d == Moved(c, "project-consumption", at, p, [x \in {s} |-> -q])
            g == ResourceOf(s)
            w == c.projects[p].milestones[i]
            m == WithUse(w, g, q)
            ms == [c.projects[p].milestones EXCEPT ![i] = m]
            e == Consume(c, p, i, s, q, at)
<1>1. KernelOK("linked", c) /\ AccountsOK(c) /\ IsCivilization(c) /\ DOMAIN c.stocks \subseteq Stocks
  BY SoundFacts
<1>2. c.projects[p].state = "active" /\ s \in DOMAIN c.stocks
  BY DEF CanConsume, Is
<1>3. IsAccounting(c, d) /\ d.projects = c.projects
  BY <1>1, MovedIsAccounting DEF IsAccounting, SameSociety
<1>4. DOMAIN d.stocks = DOMAIN c.stocks
  BY <1>1 DEF Moved, IsCivilization, Tables
<1>5. e = WriteOne(d, p, i, m)
  BY <1>3 DEF Consume, WriteOne
<1>6. KernelOK("linked", e) /\ AccountsOK(e) /\ e.time = at
  <2>1. KernelOK("linked", e)
    BY <1>1, <1>2, ConsumeKeeps
  <2>2. Did(c, e, at, MovedBy(c.stocks, [x \in {s} |-> -q]), c.processes)
    BY <1>1, <1>2, ConsumeAccounts
  <2>. HIDE DEF e
  <2>. QED
    BY <2>1, <2>2 DEF Did
<1>. HIDE DEF d, m, e
<1>7. e = Written(c, d, p, "active", ms)
  BY <1>1, <1>2, <1>3, <1>5, MilestoneWritten
<1>. HIDE DEF ms
<1>8. CallOK(c, e, at)
  BY <1>2, <1>3, <1>4, <1>6, <1>7, WorkCall
<1>. QED
  BY <1>8 DEF e

\* Labor.
LEMMA ContributeCall ==
    ASSUME NEW c, Sound(c), NEW at \in Nat, NEW p \in DOMAIN c.projects, NEW i \in DOMAIN Plan(p),
           NEW who, NEW n \in Nat, CanContribute(c, p, i, who, n, at)
    PROVE  CallOK(c, Contribute(c, p, i, n, at), at)
<1>. DEFINE d == [c EXCEPT !.time = at]
            w == c.projects[p].milestones[i]
            m == WithLabor(w, n)
            ms == [c.projects[p].milestones EXCEPT ![i] = m]
            e == Contribute(c, p, i, n, at)
<1>1. KernelOK("linked", c) /\ AccountsOK(c) /\ IsCivilization(c) /\ DOMAIN c.stocks \subseteq Stocks
  BY SoundFacts
<1>2. c.projects[p].state = "active" /\ at >= c.time
  BY DEF CanContribute, Is
<1>3. IsAccounting(c, d) /\ d.stocks = c.stocks
  BY <1>2, LaterIsAccounting
<1>4. e = WriteOne(d, p, i, m)
  <2>. HIDE DEF WithLabor
  <2>1. e = [c EXCEPT !.time = at, !.projects[p].milestones[i] = WithLabor(@, n)]
    BY DEF Contribute
  <2>. QED
    BY <1>1, <2>1 DEF IsCivilization, Tables, WriteOne
<1>5. KernelOK("linked", e) /\ AccountsOK(e) /\ e.time = at
  <2>1. KernelOK("linked", e)
    BY <1>1, ContributeKeeps
  <2>2. SilentCall(c, e, at)
    BY <1>1, <1>2, ContributeAccounts
  <2>. HIDE DEF e
  <2>. QED
    BY <2>1, <2>2 DEF SilentCall, Silent
<1>. HIDE DEF d, m, e
<1>6. e = Written(c, d, p, "active", ms)
  BY <1>1, <1>2, <1>3, <1>4, MilestoneWritten
<1>. HIDE DEF ms
<1>7. CallOK(c, e, at)
  BY <1>2, <1>3, <1>5, <1>6, WorkCall
<1>. QED
  BY <1>7 DEF e

\* A milestone is completed.
LEMMA MilestoneCall ==
    ASSUME NEW c, Sound(c), NEW at \in Nat, NEW p \in DOMAIN c.projects, NEW i \in DOMAIN Plan(p),
           CanCompleteMilestone(c, p, i), c.time =< at
    PROVE  CallOK(c, CompleteMilestone(c, p, i), at)
<1>. DEFINE ms == [c.projects[p].milestones EXCEPT ![i].state = "completed"]
            Unblocked(j) == ms[j].state = "blocked"
                            /\ \A x \in Plan(p)[j].deps : ms[x].state = "completed"
            n == [j \in DOMAIN ms |-> IF Unblocked(j) THEN [ms[j] EXCEPT !.state = "ready"]
                                      ELSE ms[j]]
            e == CompleteMilestone(c, p, i)
<1>1. KernelOK("linked", c) /\ AccountsOK(c) /\ IsAccounting(c, c)
  BY SoundFacts
<1>2. c.projects[p].state = "active"
  BY DEF CanCompleteMilestone, Is
<1>3. e = [c EXCEPT !.projects[p].milestones = n]
  BY SMTT(30) DEF CompleteMilestone
<1>4. KernelOK("linked", e) /\ AccountsOK(e) /\ e.time =< at
  <2>1. KernelOK("linked", e)
    BY <1>1, CompleteMilestoneKeeps
  <2>2. SilentCall(c, e, c.time)
    BY <1>1, CompleteMilestoneAccounts
  <2>. HIDE DEF e
  <2>. QED
    BY <2>1, <2>2 DEF SilentCall, Silent
<1>. HIDE DEF n, e
<1>5. e = Written(c, c, p, "active", n)
  BY <1>1, <1>2, <1>3, MilestonesWritten
<1>6. CallOK(c, e, at)
  BY <1>1, <1>2, <1>4, <1>5, WorkCall
<1>. QED
  BY <1>6 DEF e

\* A project is completed, and stands as a building.
LEMMA BuiltCall ==
    ASSUME NEW c, Sound(c), NEW at \in Nat, NEW p \in DOMAIN c.projects, NEW kind \in Kinds,
           CanCompleteProject(c, p, at), CanMaterialize(CompleteProject(c, p, at), p, at)
    PROVE  CallOK(c, Materialize(CompleteProject(c, p, at), p, kind, at), at)
<1>. DEFINE d == [c EXCEPT !.time = at]
            y == CompleteProject(c, p, at)
            f == [c.projects EXCEPT ![p] =
                    [state |-> "completed", milestones |-> c.projects[p].milestones]]
            e == Materialize(y, p, kind, at)
<1>1. KernelOK("linked", c) /\ AccountsOK(c) /\ IsCivilization(c) /\ p \in Projects
  BY SoundFacts DEF Books, KernelOK
<1>2. at >= c.time
  BY DEF CanCompleteProject
<1>3. /\ KernelOK("linked", y) /\ AccountsOK(y) /\ y.time = at
  <2>1. KernelOK("linked", y)
    BY <1>1, ProjectStatesKeep
  <2>2. SilentCall(c, y, at)
    BY <1>1, <1>2, ProjectStatesAccount
  <2>. HIDE DEF y
  <2>. QED
    BY <2>1, <2>2 DEF SilentCall, Silent
<1>4. y = [d EXCEPT !.projects = f]
  <2>1. IsAccounting(c, d) /\ y = [d EXCEPT !.projects[p].state = "completed"]
    BY <1>2, LaterIsAccounting DEF CompleteProject
  <2>. HIDE DEF d, y
  <2>. QED
    BY <1>1, <2>1, StateWritten DEF Written
<1>5. /\ DOMAIN f = DOMAIN c.projects /\ f[p].state = "completed"
      /\ \A q \in DOMAIN c.projects : q # p => f[q] = c.projects[q]
  <2>1. c.projects = [x \in DOMAIN c.projects |-> c.projects[x]]
    BY <1>1, ProjectFacts
  <2>. QED
    BY <2>1
<1>. HIDE DEF f
<1>6. /\ y.projects = f /\ y.stocks = c.stocks /\ y.built = c.built /\ y.citizens = c.citizens
      /\ y.households = c.households /\ y.settlements = c.settlements /\ y.settled = c.settled
      /\ y.migrations = c.migrations /\ y.journeys = c.journeys /\ y.foundings = c.foundings
  <2>. HIDE DEF y
  <2>. QED
    BY <1>1, <1>4 DEF IsCivilization, Tables
<1>. HIDE DEF y, d
<1>7. KernelOK("linked", e) /\ AccountsOK(e) /\ e.time = at
  <2>1. KernelOK("linked", e)
    BY <1>1, <1>3, MaterializeKeeps DEF y
  <2>2. SilentCall(y, e, at)
    BY <1>3, PeopleAccount
  <2>. HIDE DEF e
  <2>. QED
    BY <2>1, <2>2 DEF SilentCall, Silent
<1>8. /\ e.projects = y.projects /\ e.stocks = y.stocks /\ e.built = With(y.built, p, kind)
      /\ e.citizens = y.citizens /\ e.households = y.households /\ e.settlements = y.settlements
      /\ e.settled = y.settled /\ e.migrations = y.migrations /\ e.journeys = y.journeys
      /\ e.foundings = y.foundings
  BY <1>3 DEF KernelOK, IsCivilization, Tables, Materialize
<1>9. DOMAIN e.built = DOMAIN c.built \cup {p}
  BY <1>6, <1>8 DEF With
<1>. HIDE DEF e
<1>10. Onward(c, e)
  BY <1>5, <1>6, <1>8 DEF Onward, SamePeople, NothingUndone, Done
<1>11. BuiltUp(e)
  BY <1>5, <1>6, <1>8, <1>9 DEF Sound, BuiltUp, Done
<1>12. CallOK(c, e, at)
  BY <1>7, <1>10, <1>11 DEF CallOK, Sound
<1>. QED
  BY <1>12 DEF e, y

\* A project is registered.
LEMMA DraftCall ==
    ASSUME NEW c, Sound(c), NEW at \in Nat, c.time =< at, NEW p \in Projects,
           CanRegisterProject(c, p)
    PROVE  CallOK(c, RegisterProject(c, p), at)
<1>. DEFINE r == [state |-> "proposed",
                  milestones |-> [i \in DOMAIN Plan(p) |-> NewMilestone(Plan(p)[i])]]
            f == With(c.projects, p, r)
            e == RegisterProject(c, p)
<1>1. KernelOK("linked", c) /\ AccountsOK(c) /\ IsCivilization(c)
  BY SoundFacts
<1>2. KernelOK("linked", e) /\ AccountsOK(e) /\ e.time =< at
  <2>1. KernelOK("linked", e)
    BY <1>1, RegisterProjectKeeps
  <2>2. SilentCall(c, e, c.time)
    BY <1>1, RegisterProjectAccounts
  <2>. HIDE DEF e
  <2>. QED
    BY <2>1, <2>2 DEF SilentCall, Silent
<1>3. e = [c EXCEPT !.projects = f]
  BY DEF RegisterProject
<1>4. /\ DOMAIN f = DOMAIN c.projects \cup {p} /\ f[p].state = "proposed"
      /\ \A q \in DOMAIN c.projects : f[q] = c.projects[q]
  BY DEF With, CanRegisterProject
<1>. HIDE DEF f, e
<1>5. /\ e.projects = f /\ e.stocks = c.stocks /\ e.built = c.built /\ e.citizens = c.citizens
      /\ e.households = c.households /\ e.settlements = c.settlements /\ e.settled = c.settled
      /\ e.migrations = c.migrations /\ e.journeys = c.journeys /\ e.foundings = c.foundings
  BY <1>1, <1>3 DEF IsCivilization, Tables
<1>6. Onward(c, e)
  BY <1>4, <1>5 DEF Onward, SamePeople, NothingUndone, Done
<1>7. BuiltUp(e)
  BY <1>4, <1>5 DEF Sound, BuiltUp, Done
<1>8. CallOK(c, e, at)
  BY <1>2, <1>6, <1>7 DEF CallOK, Sound
<1>. QED
  BY <1>8 DEF e

-----------------------------------------------------------------------------
(* Sorted lists, again *)

\* What a list keeps of a set is a list of members of it.
LEMMA AmongIsList ==
    ASSUME NEW T, NEW order \in Seq(T), NEW K
    PROVE  Among(order, K) \in Seq(T \cap K)
<1>1. Len(order) \in Nat
  OBVIOUS
<1>2. PICK run : /\ Among(order, K) = run[Len(order)] /\ run[0] = <<>>
                 /\ \A i \in 1..Len(order) : run[i] = Sifted(run[i - 1], order[i], K)
  BY <1>1, AmongRuns
<1>. DEFINE N == Len(order)
            S == {i \in 0..N : run[i] \in Seq(T \cap K)}
<1>3. 0 \in S
  <2>. DEFINE none == run[0]
              Q == T \cap K
  <2>1. none \in Seq(Q)
    BY <1>2
  <2>. HIDE DEF none, Q
  <2>2. 0 \in 0..N
    BY <1>1
  <2>. QED
    BY <2>1, <2>2 DEF none, Q
<1>4. ASSUME NEW i \in 1..N, i - 1 \in S
      PROVE  i \in S
  <2>. DEFINE x == order[i]
              old == run[i - 1]
              Q == T \cap K
  <2>1. old \in Seq(Q) /\ x \in T /\ i \in 0..N
    BY <1>4
  <2>2. run[i] = IF x \in K THEN Append(old, x) ELSE old
    BY <1>2 DEF Sifted
  <2>3. x \in K => x \in Q
    BY <2>1
  <2>. HIDE DEF x, old, Q
  <2>4. run[i] \in Seq(Q)
    BY <2>1, <2>2, <2>3
  <2>. QED
    BY <2>1, <2>4 DEF Q
<1>. HIDE DEF S
<1>5. 0..N \subseteq S
  BY <1>1, <1>3, <1>4, Induct
<1>6. N \in S
  BY <1>1, <1>5
<1>. QED
  BY <1>2, <1>6 DEF S

\* The jobs by scarcity are jobs.
LEMMA ScarcityIsList ==
    ASSUME NEW c
    PROVE  ByScarcity(c) \in Seq(Jobs)
<1>1. JobOrder \in Seq(Jobs) /\ Len(JobOrder) \in Nat
  BY SchedulerAssumption DEF OrderAssumption
<1>2. PICK run : /\ ByScarcity(c) = run[Len(JobOrder)] /\ run[0] = <<>>
                 /\ \A i \in 1..Len(JobOrder) : run[i] = Placed(c, run[i - 1], JobOrder[i])
  BY <1>1, ScarcityRuns
<1>. DEFINE N == Len(JobOrder)
            S == {i \in 0..N : run[i] \in Seq(Jobs)}
<1>3. 0 \in S
  <2>. DEFINE none == run[0]
  <2>1. none \in Seq(Jobs)
    BY <1>2
  <2>. HIDE DEF none
  <2>2. 0 \in 0..N
    BY <1>1
  <2>. QED
    BY <2>1, <2>2 DEF none
<1>4. ASSUME NEW i \in 1..N, i - 1 \in S
      PROVE  i \in S
  <2>. DEFINE j == JobOrder[i]
              before == {k \in Jobs : Scarcity(c, k) >= Scarcity(c, j)}
              old == run[i - 1]
  <2>1. old \in Seq(Jobs) /\ j \in Jobs
    BY <1>1, <1>4
  <2>2. run[i] = Among(old, before) \o <<j>> \o Among(old, Jobs \ before)
    BY <1>2 DEF Placed
  <2>. HIDE DEF before, j, old
  <2>3. Among(old, before) \in Seq(Jobs \cap before)
    BY <2>1, AmongIsList
  <2>4. Among(old, Jobs \ before) \in Seq(Jobs \cap (Jobs \ before))
    BY <2>1, AmongIsList
  <2>5. Among(old, before) \in Seq(Jobs) /\ Among(old, Jobs \ before) \in Seq(Jobs)
    BY <2>3, <2>4
  <2>6. run[i] \in Seq(Jobs)
    BY <2>1, <2>2, <2>5
  <2>. QED
    BY <2>6
<1>. HIDE DEF S
<1>5. 0..N \subseteq S
  BY <1>1, <1>3, <1>4, Induct
<1>6. N \in S
  BY <1>1, <1>5
<1>. QED
  BY <1>2, <1>6 DEF S

-----------------------------------------------------------------------------
(* What is due, the lanes and the jobs *)

\* What is known of a day that has not failed.
LEMMA DayFacts ==
    ASSUME NEW c, NEW given, NEW at, NEW d, DayOK(c, given, at, d)
    PROVE  /\ IsDay(d)
           /\ d.ok => /\ Sound(d.civ) /\ d.civ.time =< at /\ Onward(c, d.civ)
                      /\ LaborOK(d.labor, d.worked, given) /\ d.left \in [Lanes -> Int]
BY DEF DayOK, Goes, CallOK

\* A process that is due.
LEMMA CompleteOneGoes ==
    ASSUME NEW c, NEW given, NEW at \in Nat, NEW d, DayOK(c, given, at, d), NEW id, NEW isDue
    PROVE  DayOK(c, given, at, CompleteOne(d, id, isDue, at))
<1>. DEFINE can == CanCompleteProduction(d.civ, id, at)
            x == CompleteProduction(d.civ, id, at)
<1>1. d.ok /\ can => CallOK(d.civ, x, at)
  BY DayFacts, MatterCalls
<1>. HIDE DEF can, x
<1>2. DayOK(c, given, at, Try(d, can, x))
  BY <1>1, TryGoesOn
<1>. QED
  BY <1>2 DEF CompleteOne, can, x

\* What is due of a job.
LEMMA CompleteDueGoes ==
    ASSUME NEW c, NEW given, NEW at \in Nat, NEW d, DayOK(c, given, at, d), NEW j
    PROVE  DayOK(c, given, at, CompleteDue(d, j, at))
<1>0. Len(StartTimes(at)) \in Nat
  BY DEF StartTimes
<1>1. PICK run : /\ CompleteDue(d, j, at) = run[Len(StartTimes(at))] /\ run[0] = d
                 /\ \A i \in 1..Len(StartTimes(at)) :
                       run[i] = CompleteIf(d, run[i - 1], j, StartTimes(at)[i], at)
  BY <1>0, DueRuns
<1>. DEFINE N == Len(StartTimes(at))
            S == {i \in 0..N : DayOK(c, given, at, run[i])}
<1>2. 0 \in S
  BY <1>0, <1>1
<1>3. ASSUME NEW i \in 1..N, i - 1 \in S
      PROVE  i \in S
  <2>. DEFINE old == run[i - 1]
              new == run[i]
              x == StartTimes(at)[i]
  <2>1. DayOK(c, given, at, old) /\ i \in 0..N /\ new = CompleteIf(d, old, j, x, at)
    BY <1>0, <1>1, <1>3
  <2>. HIDE DEF old, new, x
  <2>2. DayOK(c, given, at, new)
    BY <2>1, CompleteOneGoes DEF CompleteIf
  <2>. QED
    BY <2>1, <2>2 DEF new
<1>. HIDE DEF S
<1>4. 0..N \subseteq S
  BY <1>0, <1>2, <1>3, Induct
<1>5. N \in S
  BY <1>0, <1>4
<1>. QED
  BY <1>1, <1>5 DEF S

\* What is due of all jobs.
LEMMA FinishGoes ==
    ASSUME NEW c, NEW given, NEW at \in Nat, NEW d, DayOK(c, given, at, d)
    PROVE  DayOK(c, given, at, Finish(d, at))
<1>0. Len(JobOrder) \in Nat
  BY SchedulerAssumption DEF OrderAssumption
<1>1. PICK run : /\ Finish(d, at) = run[Len(JobOrder)] /\ run[0] = d
                 /\ \A i \in 1..Len(JobOrder) :
                       run[i] = CompleteDue(run[i - 1], JobOrder[i], at)
  BY <1>0, FinishRuns
<1>. DEFINE N == Len(JobOrder)
            S == {i \in 0..N : DayOK(c, given, at, run[i])}
<1>2. 0 \in S
  BY <1>0, <1>1
<1>3. ASSUME NEW i \in 1..N, i - 1 \in S
      PROVE  i \in S
  <2>. DEFINE old == run[i - 1]
              new == run[i]
              x == JobOrder[i]
  <2>1. DayOK(c, given, at, old) /\ i \in 0..N /\ new = CompleteDue(old, x, at)
    BY <1>0, <1>1, <1>3
  <2>. HIDE DEF old, new, x
  <2>2. DayOK(c, given, at, new)
    BY <2>1, CompleteDueGoes
  <2>. QED
    BY <2>1, <2>2 DEF new
<1>. HIDE DEF S
<1>4. 0..N \subseteq S
  BY <1>0, <1>2, <1>3, Induct
<1>5. N \in S
  BY <1>0, <1>4
<1>. QED
  BY <1>1, <1>5 DEF S

\* The least of some numbers is one of them.
LEMMA LeastOfFour ==
    ASSUME NEW a \in Int, NEW b \in Int, NEW x \in Int, NEW y \in Int
    PROVE  Min({a, b, x, y}) \in Int
<1>. DEFINE M == {a, b, x, y}
<1>1. PICK m \in M : \A k \in M : m =< k
  <2>1. \E m \in M : m =< a /\ m =< b /\ m =< x /\ m =< y
    OBVIOUS
  <2>. QED
    BY <2>1
<1>2. Min(M) \in M
  <2>. HIDE DEF M
  <2>. QED
    BY <1>1 DEF Min
<1>. QED
  BY <1>2

\* A lane of a job carries what is missing.
LEMMA HaulGoes ==
    ASSUME NEW c, NEW given, NEW at \in Nat, NEW d, DayOK(c, given, at, d), NEW j \in Jobs,
           NEW l \in Lanes, NEW decisions
    PROVE  DayOK(c, given, at, Haul(d, j, l, decisions, at))
<1>. DEFINE lane == LaneInfo[l]
            required == RecipeInfo[JobInfo[j].recipe].in[ResourceOf(lane.to)]
            n == LaneAmount(d, l, required)
            can == CanTransfer(d.civ, lane.from, lane.to, n, at)
            x == Transfer(d.civ, "transport", lane.from, lane.to, n, at)
            moved == Try(d, can, x)
            carried == Work(moved, lane.carrier, lane.labor)
            told == [carried EXCEPT !.left[l] = @ - n]
<1>. SUFFICES ASSUME d.ok, n > 0, d.labor[lane.carrier] >= lane.labor
              PROVE  DayOK(c, given, at, Log(told, "transported", l))
  BY DEF Haul
<1>1. /\ lane.labor \in Nat /\ lane.carrier \in Citizens
      /\ JobInfo[j].recipe \in Recipes
  BY SchedulerAssumption DEF PolicyAssumption
<1>2. /\ Sound(d.civ) /\ LaborOK(d.labor, d.worked, given) /\ d.left \in [Lanes -> Int]
      /\ IsDay(d)
  BY DayFacts
<1>3. ASSUME can
      PROVE  n \in Nat /\ n > 0
  <2>1. lane.from \in DOMAIN d.civ.stocks /\ lane.to \in DOMAIN d.civ.stocks
    BY <1>3 DEF CanTransfer
  <2>2. /\ lane.to \in Stocks /\ d.civ.stocks[lane.to] \in Nat
        /\ Free(d.civ, lane.from) \in Int /\ Room(d.civ, lane.to) \in Int
    BY <1>2, <2>1, SoundFacts
  <2>3. required \in Nat
    BY <1>1, <2>2, CatalogueAssumption DEF ValidCatalogue, ResourceOf
  <2>. HIDE DEF required
  <2>4. n \in Int
    <3>. DEFINE a1 == Positive(required - d.civ.stocks[lane.to])
                a3 == Positive(Free(d.civ, lane.from))
                a2 == d.left[l]
                a4 == Room(d.civ, lane.to)
    <3>0. /\ required - d.civ.stocks[lane.to] \in Int
          /\ \A y \in Int : Positive(y) \in Int
      BY <2>2, <2>3 DEF Positive
    <3>1. a1 \in Int /\ a2 \in Int /\ a3 \in Int /\ a4 \in Int
      BY <1>2, <2>2, <3>0
    <3>2. n = Min({a1, a2, a3, a4})
      BY DEF LaneAmount
    <3>. HIDE DEF a1, a2, a3, a4, n
    <3>. QED
      BY <3>1, <3>2, LeastOfFour
  <2>. QED
    BY <2>4
<1>4. can => CallOK(d.civ, x, at)
  <2>. HIDE DEF n
  <2>. QED
    BY <1>2, <1>3, MatterCalls
<1>. HIDE DEF n, can, x
<1>5. DayOK(c, given, at, moved) /\ moved.labor = d.labor /\ (moved.ok => can)
  <2>1. DayOK(c, given, at, moved)
    BY <1>4, TryGoesOn
  <2>2. moved.labor = d.labor /\ moved.ok = (d.ok /\ can)
    BY <1>2, TryMakes
  <2>. HIDE DEF moved
  <2>. QED
    BY <2>1, <2>2
<1>. HIDE DEF moved
<1>6. DayOK(c, given, at, carried) /\ carried.ok = moved.ok
  BY <1>1, <1>5, WorkGoesOn
<1>. HIDE DEF carried
<1>7. DayOK(c, given, at, told)
  BY <1>3, <1>5, <1>6, CarryGoesOn
<1>. HIDE DEF told, lane
<1>8. DayOK(c, given, at, Log(told, "transported", l))
  BY <1>7, LogGoesOn
<1>. QED
  BY <1>8 DEF lane

\* The lanes of a job are lanes.
LEMMA LanesAreLanes ==
    ASSUME NEW K
    PROVE  Among(LaneOrder, K) \in Seq(Lanes)
<1>1. Among(LaneOrder, K) \in Seq(Lanes \cap K)
  BY SchedulerAssumption, AmongIsList DEF OrderAssumption
<1>. QED
  BY <1>1

\* All of them.
LEMMA HauledGoes ==
    ASSUME NEW c, NEW given, NEW at \in Nat, NEW d, DayOK(c, given, at, d), NEW j \in Jobs,
           NEW decisions
    PROVE  DayOK(c, given, at, Hauled(d, j, decisions, at))
<1>0. Len(Among(LaneOrder, JobInfo[j].lanes)) \in Nat
  BY LanesAreLanes
<1>1. PICK run : /\ Hauled(d, j, decisions, at) = run[Len(Among(LaneOrder, JobInfo[j].lanes))]
                 /\ run[0] = d
                 /\ \A i \in 1..Len(Among(LaneOrder, JobInfo[j].lanes)) :
                       run[i] =
                          Haul(run[i - 1], j, Among(LaneOrder, JobInfo[j].lanes)[i], decisions, at)
  BY <1>0, HaulRuns
<1>. DEFINE N == Len(Among(LaneOrder, JobInfo[j].lanes))
            S == {i \in 0..N : DayOK(c, given, at, run[i])}
<1>2. 0 \in S
  BY <1>0, <1>1
<1>3. ASSUME NEW i \in 1..N, i - 1 \in S
      PROVE  i \in S
  <2>. DEFINE old == run[i - 1]
              new == run[i]
              x == Among(LaneOrder, JobInfo[j].lanes)[i]
  <2>1. /\ DayOK(c, given, at, old) /\ i \in 0..N /\ new = Haul(old, j, x, decisions, at)
        /\ x \in Lanes
    BY <1>0, <1>1, <1>3, LanesAreLanes
  <2>. HIDE DEF old, new, x
  <2>2. DayOK(c, given, at, new)
    BY <2>1, HaulGoes
  <2>. QED
    BY <2>1, <2>2 DEF new
<1>. HIDE DEF S
<1>4. 0..N \subseteq S
  BY <1>0, <1>2, <1>3, Induct
<1>5. N \in S
  BY <1>0, <1>4
<1>. QED
  BY <1>1, <1>5 DEF S

\* What is asked of one citizen, of what they have.
ReserveOK(c, given, at, d, acc) ==
    /\ acc = [d |-> acc.d, left |-> acc.left] /\ acc.left \in Nat
    /\ DayOK(c, given, at, acc.d) /\ acc.d.ok /\ acc.d.civ = d.civ

\* One citizen more.
LEMMA ReserveOneGoes ==
    ASSUME NEW c, NEW given, NEW at \in Nat, NEW d, NEW acc, ReserveOK(c, given, at, d, acc),
           NEW p \in Citizens
    PROVE  ReserveOK(c, given, at, d, ReserveOne(acc, p))
<1>. DEFINE m == acc.d.labor[p]
            n == Min({acc.left, m})
            e == Work(acc.d, p, n)
<1>1. acc.left \in Nat /\ m \in Nat
  BY DayFacts DEF ReserveOK, LaborOK
<1>2. n \in Nat /\ n =< m /\ n =< acc.left
  <2>1. \E k \in {acc.left, m} : k =< acc.left /\ k =< m
    BY <1>1
  <2>2. n \in {acc.left, m} /\ \A k \in {acc.left, m} : n =< k
    BY <1>1, <2>1 DEF Min
  <2>. QED
    BY <1>1, <2>2
<1>. HIDE DEF n
<1>3. DayOK(c, given, at, e) /\ e.ok /\ e.civ = d.civ
  BY <1>2, WorkGoesOn DEF ReserveOK
<1>. HIDE DEF e
<1>4. ReserveOne(acc, p) = [d |-> e, left |-> acc.left - n]
  BY DEF ReserveOne, e, n
<1>. QED
  BY <1>1, <1>2, <1>3, <1>4 DEF ReserveOK

\* The citizens a list keeps are citizens.
LEMMA CitizensAreCitizens ==
    ASSUME NEW K
    PROVE  Among(CitizenOrder, K) \in Seq(Citizens)
<1>1. Among(CitizenOrder, K) \in Seq(Citizens \cap K)
  BY SchedulerAssumption, AmongIsList DEF OrderAssumption
<1>. QED
  BY <1>1

\* All of them.
LEMMA ReserveGoes ==
    ASSUME NEW c, NEW given, NEW at \in Nat, NEW d, DayOK(c, given, at, d), d.ok, NEW people,
           NEW required \in Nat
    PROVE  /\ DayOK(c, given, at, Reserve(d, people, required))
           /\ Reserve(d, people, required).civ = d.civ
<1>0. Len(Among(CitizenOrder, people)) \in Nat
  BY CitizensAreCitizens
<1>1. PICK run : /\ Reserve(d, people, required) = run[Len(Among(CitizenOrder, people))].d
                 /\ run[0] = [d |-> d, left |-> required]
                 /\ \A i \in 1..Len(Among(CitizenOrder, people)) :
                       run[i] = ReserveOne(run[i - 1], Among(CitizenOrder, people)[i])
  BY <1>0, ReserveRuns
<1>. DEFINE N == Len(Among(CitizenOrder, people))
            S == {i \in 0..N : ReserveOK(c, given, at, d, run[i])}
<1>2. 0 \in S
  BY <1>0, <1>1 DEF ReserveOK
<1>3. ASSUME NEW i \in 1..N, i - 1 \in S
      PROVE  i \in S
  <2>. DEFINE old == run[i - 1]
              new == run[i]
              x == Among(CitizenOrder, people)[i]
  <2>1. /\ ReserveOK(c, given, at, d, old) /\ i \in 0..N /\ new = ReserveOne(old, x)
        /\ x \in Citizens
    BY <1>0, <1>1, <1>3, CitizensAreCitizens
  <2>. HIDE DEF old, new, x
  <2>2. ReserveOK(c, given, at, d, new)
    BY <2>1, ReserveOneGoes
  <2>. QED
    BY <2>1, <2>2 DEF new
<1>. HIDE DEF S
<1>4. 0..N \subseteq S
  BY <1>0, <1>2, <1>3, Induct
<1>5. N \in S
  BY <1>0, <1>4
<1>. QED
  BY <1>1, <1>5 DEF S, ReserveOK

\* A job starts.
LEMMA StartJobGoes ==
    ASSUME NEW c, NEW given, NEW at \in 1..Horizon, DOMAIN GenesisStocks \subseteq DOMAIN c.stocks,
           NEW d, DayOK(c, given, at, d), d.ok, NEW j \in Jobs
    PROVE  DayOK(c, given, at, StartJob(d, j, JobInfo[j], RecipeInfo[JobInfo[j].recipe], at))
<1>. DEFINE info == JobInfo[j]
            r == info.recipe
            flow == RecipeInfo[r]
            id == <<j, at>>
            e == Reserve(d, info.participants, flow.labor)
            can == CanStartProduction(d.civ, id, r, info.site, info.in, info.out, at)
            x == StartProduction(d.civ, id, r, info.in, info.out, at)
<1>1. /\ r \in Recipes /\ flow.labor \in Nat
      /\ \A g \in Resources : flow.in[g] > 0 => ResourceOf(info.in[g]) = g
      /\ \A g \in Resources : flow.out[g] > 0 => ResourceOf(info.out[g]) = g
  BY SchedulerAssumption DEF PolicyAssumption
<1>2. /\ id \in Processes
      /\ info.in \in [{g \in Resources : flow.in[g] > 0} -> DOMAIN GenesisStocks]
      /\ info.out \in [{g \in Resources : flow.out[g] > 0} -> DOMAIN GenesisStocks]
  BY DayAssumption DEF DaysAccepted
<1>3. at \in Nat
  BY DayAssumption DEF DaysAccepted
<1>4. Sound(d.civ) /\ DOMAIN GenesisStocks \subseteq DOMAIN d.civ.stocks
  BY DayFacts DEF Onward, NothingUndone
<1>5. info.in \in Bindings(d.civ, flow.in) /\ info.out \in Bindings(d.civ, flow.out)
  <2>. HIDE DEF flow, info
  <2>. QED
    BY <1>1, <1>2, <1>4 DEF Bindings
<1>6. can => CallOK(d.civ, x, at)
  BY <1>1, <1>2, <1>3, <1>4, <1>5, StartCall
<1>7. DayOK(c, given, at, e) /\ e.civ = d.civ
  BY <1>1, <1>3, ReserveGoes
<1>. HIDE DEF can, x, e
<1>8. DayOK(c, given, at, Try(e, can, x))
  BY <1>6, <1>7, TryGoesOn
<1>9. DayOK(c, given, at, Log(Try(e, can, x), "process-started", j))
  BY <1>8, LogGoesOn
<1>. QED
  BY <1>9 DEF StartJob, can, x, e

\* A job is run.
LEMMA RunJobGoes ==
    ASSUME NEW c, NEW given, NEW at \in 1..Horizon, DOMAIN GenesisStocks \subseteq DOMAIN c.stocks,
           NEW d, DayOK(c, given, at, d), NEW j \in Jobs, NEW decisions
    PROVE  DayOK(c, given, at, RunJob(d, j, decisions, at))
<1>. DEFINE e == Hauled(d, j, decisions, at)
<1>1. at \in Nat
  BY DayAssumption DEF DaysAccepted
<1>2. DayOK(c, given, at, e)
  BY <1>1, HauledGoes
<1>. HIDE DEF e
<1>3. DayOK(c, given, at, StartReady(e, j, JobInfo[j], RecipeInfo[JobInfo[j].recipe], at))
  BY <1>2, StartJobGoes DEF StartReady
<1>. QED
  BY <1>3 DEF RunJob, e

\* All of them.
LEMMA ProduceGoes ==
    ASSUME NEW c, NEW given, NEW at \in 1..Horizon, DOMAIN GenesisStocks \subseteq DOMAIN c.stocks,
           NEW d, DayOK(c, given, at, d), NEW decisions
    PROVE  DayOK(c, given, at, Produce(d, decisions, at))
<1>0. Len(ByScarcity(d.civ)) \in Nat
  BY ScarcityIsList
<1>1. PICK run : /\ Produce(d, decisions, at) = run[Len(ByScarcity(d.civ))] /\ run[0] = d
                 /\ \A i \in 1..Len(ByScarcity(d.civ)) :
                       run[i] = RunJob(run[i - 1], ByScarcity(d.civ)[i], decisions, at)
  BY <1>0, ProduceRuns
<1>. DEFINE N == Len(ByScarcity(d.civ))
            S == {i \in 0..N : DayOK(c, given, at, run[i])}
<1>2. 0 \in S
  BY <1>0, <1>1
<1>3. ASSUME NEW i \in 1..N, i - 1 \in S
      PROVE  i \in S
  <2>. DEFINE old == run[i - 1]
              new == run[i]
              x == ByScarcity(d.civ)[i]
  <2>1. /\ DayOK(c, given, at, old) /\ i \in 0..N /\ new = RunJob(old, x, decisions, at)
        /\ x \in Jobs
    BY <1>0, <1>1, <1>3, ScarcityIsList
  <2>. HIDE DEF old, new, x
  <2>2. DayOK(c, given, at, new)
    BY <2>1, RunJobGoes
  <2>. QED
    BY <2>1, <2>2 DEF new
<1>. HIDE DEF S
<1>4. 0..N \subseteq S
  BY <1>0, <1>2, <1>3, Induct
<1>5. N \in S
  BY <1>0, <1>4
<1>. QED
  BY <1>1, <1>5 DEF S

\* The residents are fed.
LEMMA NourishGoes ==
    ASSUME NEW c, NEW given, NEW at \in Nat, NEW d, DayOK(c, given, at, d)
    PROVE  DayOK(c, given, at, Nourish(d, at))
<1>. DEFINE batch == Among(CitizenOrder,
                           {p \in Citizens : d.civ.citizens[p].residence = "resident"})
            can == CanConsumeNeeds(d.civ, batch, at)
            x == ConsumeNeeds(d.civ, batch, NeedStocks, at)
<1>1. batch \in Seq(Citizens)
  BY CitizensAreCitizens
<1>. HIDE DEF batch
<1>2. d.ok /\ can => CallOK(d.civ, x, at)
  BY <1>1, DayFacts, NeedsCall
<1>. HIDE DEF can, x
<1>3. DayOK(c, given, at, Try(d, can, x))
  BY <1>2, TryGoesOn
<1>. QED
  BY <1>3 DEF Nourish, can, x, batch

-----------------------------------------------------------------------------
(* The collective projects *)

\* The work of a day on a project there is.
IsWork(w) ==
    /\ w.at \in Nat /\ w.p \in Projects /\ w.i \in DOMAIN Plan(w.p)
WorkOK(c, given, w, e) ==
    /\ e = [d |-> e.d, going |-> e.going] /\ DayOK(c, given, w.at, e.d)
    /\ e.d.ok => w.p \in DOMAIN e.d.civ.projects

\* What is known of it.
LEMMA WorkFacts ==
    ASSUME NEW c, NEW given, NEW w, IsWork(w), NEW e, WorkOK(c, given, w, e), e.d.ok
    PROVE  /\ Sound(e.d.civ) /\ e.d.civ.time =< w.at /\ LaborOK(e.d.labor, e.d.worked, given)
           /\ w.p \in DOMAIN e.d.civ.projects
           /\ Undone(e.d.civ, w.p, w.i) \in Int
           /\ \A g \in Resources : /\ Missing(e.d.civ, w.p, w.i, g) \in Int
                                   /\ Unused(e.d.civ, w.p, w.i, g) \in Int
<1>. DEFINE k == e.d.civ
            m == k.projects[w.p].milestones[w.i]
<1>1. /\ Sound(k) /\ k.time =< w.at /\ LaborOK(e.d.labor, e.d.worked, given)
      /\ w.p \in DOMAIN k.projects
  BY DayFacts DEF WorkOK
<1>2. m \in Milestones /\ Plan(w.p)[w.i].needs \in [Resources -> Nat]
  BY <1>1, MilestoneFacts DEF IsWork, Sound
<1>3. Plan(w.p)[w.i].labor \in Nat
  <2>. DEFINE ms == Plan(w.p)
              i == w.i
              R == [needs : [Resources -> Nat], labor : Nat, deps : SUBSET Nat]
  <2>1. ms \in Seq(R)
    BY CatalogueAssumption DEF IsWork, ValidCatalogue, Plan
  <2>2. i \in DOMAIN ms
    BY DEF IsWork
  <2>. HIDE DEF ms, i
  <2>3. ms[i] \in R
    <3>. HIDE DEF R
    <3>. QED
      BY <2>1, <2>2
  <2>4. ms[i].labor \in Nat
    BY <2>3
  <2>. QED
    BY <2>4 DEF ms, i
<1>4. /\ m.labor \in Nat
      /\ \A g \in Resources : m.delivered[g] \in Nat /\ m.consumed[g] \in Nat
                              /\ Plan(w.p)[w.i].needs[g] \in Nat
  <2>. HIDE DEF m
  <2>. QED
    BY <1>2 DEF Milestones
<1>5. Undone(k, w.p, w.i) \in Int
  <2>. DEFINE a == Plan(w.p)[w.i].labor
              b == m.labor
              u == Undone(k, w.p, w.i)
  <2>1. u = a - b
    BY Zenon DEF Undone
  <2>2. a \in Nat /\ b \in Nat
    BY <1>3, <1>4, Zenon
  <2>. HIDE DEF a, b, u
  <2>3. u \in Int
    BY <2>1, <2>2
  <2>. QED
    BY <2>3, Zenon DEF u
<1>6. ASSUME NEW g \in Resources
      PROVE  Missing(k, w.p, w.i, g) \in Int /\ Unused(k, w.p, w.i, g) \in Int
  <2>. DEFINE a == Plan(w.p)[w.i].needs[g]
              b == m.delivered[g]
              x == m.consumed[g]
              u == Missing(k, w.p, w.i, g)
              v == Unused(k, w.p, w.i, g)
  <2>1. u = a - b /\ v = a - x
    BY Zenon DEF Missing, Unused
  <2>2. a \in Nat /\ b \in Nat /\ x \in Nat
    BY <1>4, Zenon
  <2>. HIDE DEF a, b, x, u, v
  <2>3. u \in Int /\ v \in Int
    BY <2>1, <2>2
  <2>. QED
    BY <2>3, Zenon DEF u, v
<1>. QED
  BY <1>1, <1>5, <1>6

\* A day in which the work goes on.
LEMMA WorkIs ==
    ASSUME NEW c, NEW given, NEW w, IsWork(w), NEW e, WorkOK(c, given, w, e), NEW d,
           DayOK(c, given, w.at, d), d.ok => w.p \in DOMAIN d.civ.projects
    PROVE  WorkOK(c, given, w, [e EXCEPT !.d = d]) /\ WorkOK(c, given, w, Stop(e))
<1>. DEFINE y == [e EXCEPT !.d = d]
            z == Stop(e)
<1>1. y = [d |-> d, going |-> e.going] /\ z = [d |-> e.d, going |-> FALSE]
  <2>. DEFINE a == e.d
              b == e.going
  <2>1. e = [d |-> a, going |-> b]
    BY DEF WorkOK
  <2>. HIDE DEF a, b
  <2>2. [e EXCEPT !.d = d] = [d |-> d, going |-> b]
    BY <2>1
  <2>. QED
    BY <2>2 DEF Stop, a, b
<1>. HIDE DEF y, z
<1>2. WorkOK(c, given, w, y) /\ WorkOK(c, given, w, z)
  BY <1>1 DEF WorkOK
<1>. QED
  BY <1>2 DEF y, z

\* A call of the work that is in order when it does not throw.
LEMMA TriedGoes ==
    ASSUME NEW c, NEW given, NEW w, IsWork(w), NEW e, WorkOK(c, given, w, e), NEW can, NEW x,
           e.d.ok /\ can => CallOK(e.d.civ, x, w.at)
    PROVE  /\ DayOK(c, given, w.at, Try(e.d, can, x))
           /\ Try(e.d, can, x).ok => can /\ w.p \in DOMAIN Try(e.d, can, x).civ.projects
           /\ Try(e.d, can, x).labor = e.d.labor
<1>. DEFINE f == Try(e.d, can, x)
<1>1. DayOK(c, given, w.at, f)
  BY TryGoesOn DEF WorkOK
<1>2. f.ok = (e.d.ok /\ can) /\ f.civ = (IF e.d.ok /\ can THEN x ELSE e.d.civ)
      /\ f.labor = e.d.labor
  BY TryMakes DEF WorkOK, DayOK
<1>. HIDE DEF f
<1>3. f.ok => can /\ w.p \in DOMAIN f.civ.projects
  BY <1>2 DEF WorkOK, CallOK, Onward, NothingUndone
<1>. QED
  BY <1>1, <1>2, <1>3 DEF f

\* A stage.
LEMMA StageGoes ==
    ASSUME NEW c, NEW given, NEW w, IsWork(w), NEW e, WorkOK(c, given, w, e),
           NEW holds, NEW can, NEW x,
           e.going /\ e.d.ok /\ holds /\ can => CallOK(e.d.civ, x, w.at)
    PROVE  WorkOK(c, given, w, Stage(e, holds, can, x))
<1>1. CASE e.going /\ e.d.ok /\ holds
  <2>. DEFINE f == Try(e.d, can, x)
  <2>1. DayOK(c, given, w.at, f) /\ (f.ok => w.p \in DOMAIN f.civ.projects)
    BY <1>1, TriedGoes
  <2>. HIDE DEF f
  <2>2. WorkOK(c, given, w, [e EXCEPT !.d = f])
    BY <2>1, WorkIs
  <2>3. Stage(e, holds, can, x) = [e EXCEPT !.d = f]
    BY <1>1 DEF Stage, f
  <2>. QED
    BY <2>2, <2>3
<1>2. CASE ~ (e.going /\ e.d.ok /\ holds)
  BY <1>2 DEF Stage
<1>. QED
  BY <1>1, <1>2

\* The project is approved, and started.
LEMMA ApprovedGoes ==
    ASSUME NEW c, NEW given, NEW w, IsWork(w), NEW e, WorkOK(c, given, w, e)
    PROVE  WorkOK(c, given, w, Approved(e, w)) /\ WorkOK(c, given, w, Started(e, w))
<1>1. e.d.ok => /\ Sound(e.d.civ) /\ e.d.civ.time =< w.at /\ w.p \in DOMAIN e.d.civ.projects
  BY WorkFacts
<1>2. w.at \in Nat
  BY DEF IsWork
<1>3. WorkOK(c, given, w, Approved(e, w))
  <2>. DEFINE holds == Is(e.d.civ, w.p, {"proposed"})
              x == ApproveProject(e.d.civ, w.p)
  <2>1. e.d.ok /\ holds => CallOK(e.d.civ, x, w.at)
    BY <1>1, <1>2, StateCalls
  <2>. HIDE DEF holds, x
  <2>2. WorkOK(c, given, w, Stage(e, holds, TRUE, x))
    BY <2>1, StageGoes
  <2>. QED
    BY <2>2 DEF Approved, holds, x
<1>4. WorkOK(c, given, w, Started(e, w))
  <2>. DEFINE holds == Is(e.d.civ, w.p, {"approved", "resourcing"})
              can == CanStartProject(e.d.civ, w.p, w.at)
              x == StartProject(e.d.civ, w.p, w.at)
  <2>1. e.d.ok /\ can => CallOK(e.d.civ, x, w.at)
    BY <1>1, <1>2, StateCalls
  <2>. HIDE DEF holds, can, x
  <2>2. WorkOK(c, given, w, Stage(e, holds, can, x))
    BY <2>1, StageGoes
  <2>. QED
    BY <2>2 DEF Started, holds, can, x
<1>. QED
  BY <1>3, <1>4

\* A resource is delivered.
LEMMA DeliverNextGoes ==
    ASSUME NEW c, NEW given, NEW w, IsWork(w), NEW e, WorkOK(c, given, w, e), NEW g \in Resources
    PROVE  WorkOK(c, given, w, DeliverNext(e, w, g))
<1>. DEFINE k == e.d.civ
            n == Missing(k, w.p, w.i, g)
            from == First(Givers(k, w.p, g, n))
            to == First(OwnStocks(k, w.p, g))
            can == CanDeliver(k, w.p, w.i, from, to, n, w.at)
            x == Deliver(k, w.p, w.i, from, to, n, w.at)
            f == Try(e.d, can, x)
            h == Log(f, "project-resourced", w.p)
<1>1. WorkOK(c, given, w, Stop(e))
  BY WorkIs DEF WorkOK
<1>2. ASSUME e.d.ok, ~ (n =< 0)
      PROVE  WorkOK(c, given, w, [e EXCEPT !.d = h])
  <2>1. /\ Sound(k) /\ w.p \in DOMAIN k.projects /\ n \in Int
    BY <1>2, WorkFacts
  <2>2. w.at \in Nat /\ w.i \in DOMAIN Plan(w.p)
    BY DEF IsWork
  <2>. HIDE DEF n, from, to
  <2>3. can => CallOK(k, x, w.at)
    <3>1. n \in Nat
      BY <1>2, <2>1
    <3>. QED
      BY <2>1, <2>2, <3>1, DeliverCall
  <2>. HIDE DEF can, x
  <2>4. DayOK(c, given, w.at, f) /\ (f.ok => w.p \in DOMAIN f.civ.projects)
    BY <2>3, TriedGoes
  <2>. HIDE DEF f
  <2>5. DayOK(c, given, w.at, h) /\ h.ok = f.ok /\ h.civ = f.civ
    BY <2>4, LogGoesOn
  <2>. HIDE DEF h
  <2>. QED
    BY <2>4, <2>5, WorkIs
<1>. HIDE DEF h, from, to
<1>3. DeliverFrom(e, w, from, to, n) \in {Stop(e), [e EXCEPT !.d = h]}
  BY DEF DeliverFrom, h
<1>4. \/ DeliverNext(e, w, g) \in {e, Stop(e)}
      \/ e.d.ok /\ ~ (n =< 0) /\ DeliverNext(e, w, g) = DeliverFrom(e, w, from, to, n)
  BY DEF DeliverNext, DeliverOne, from, to
<1>. QED
  BY <1>1, <1>2, <1>3, <1>4

\* The resources in order are resources.
LEMMA ResourcesInOrder == ResourceOrder \in Seq(Resources)
BY SchedulerAssumption DEF OrderAssumption

\* All of them.
LEMMA ResourcedGoes ==
    ASSUME NEW c, NEW given, NEW w, IsWork(w), NEW e, WorkOK(c, given, w, e)
    PROVE  WorkOK(c, given, w, Resourced(e, w))
<1>0. Len(ResourceOrder) \in Nat
  BY ResourcesInOrder
<1>1. PICK run : /\ Resourced(e, w) = run[Len(ResourceOrder)] /\ run[0] = e
                 /\ \A i \in 1..Len(ResourceOrder) :
                       run[i] = DeliverNext(run[i - 1], w, ResourceOrder[i])
  BY <1>0, ResourcedRuns
<1>. DEFINE N == Len(ResourceOrder)
            S == {i \in 0..N : WorkOK(c, given, w, run[i])}
<1>2. 0 \in S
  BY <1>0, <1>1
<1>3. ASSUME NEW i \in 1..N, i - 1 \in S
      PROVE  i \in S
  <2>. DEFINE old == run[i - 1]
              new == run[i]
              x == ResourceOrder[i]
  <2>1. /\ WorkOK(c, given, w, old) /\ i \in 0..N /\ new = DeliverNext(old, w, x)
        /\ x \in Resources
    BY <1>0, <1>1, <1>3, ResourcesInOrder
  <2>. HIDE DEF old, new, x
  <2>2. WorkOK(c, given, w, new)
    BY <2>1, DeliverNextGoes
  <2>. QED
    BY <2>1, <2>2 DEF new
<1>. HIDE DEF S
<1>4. 0..N \subseteq S
  BY <1>0, <1>2, <1>3, Induct
<1>5. N \in S
  BY <1>0, <1>4
<1>. QED
  BY <1>1, <1>5 DEF S

\* A resource is used.
LEMMA ConsumeNextGoes ==
    ASSUME NEW c, NEW given, NEW w, IsWork(w), NEW e, WorkOK(c, given, w, e), NEW g \in Resources
    PROVE  WorkOK(c, given, w, ConsumeNext(e, w, g))
<1>. DEFINE k == e.d.civ
            n == Unused(k, w.p, w.i, g)
            own == First(OwnStocks(k, w.p, g))
            can == CanConsume(k, w.p, w.i, own, n, w.at)
            x == Consume(k, w.p, w.i, own, n, w.at)
            h == Stage(e, TRUE, can, x)
<1>1. WorkOK(c, given, w, Stop(e))
  BY WorkIs DEF WorkOK
<1>2. ASSUME e.d.ok, ~ (n =< 0)
      PROVE  WorkOK(c, given, w, h)
  <2>1. /\ Sound(k) /\ w.p \in DOMAIN k.projects /\ n \in Int
    BY <1>2, WorkFacts
  <2>2. w.at \in Nat /\ w.i \in DOMAIN Plan(w.p)
    BY DEF IsWork
  <2>. HIDE DEF n, own
  <2>3. can => CallOK(k, x, w.at)
    <3>1. n \in Nat
      BY <1>2, <2>1
    <3>. QED
      BY <2>1, <2>2, <3>1, ConsumeCall
  <2>. HIDE DEF can, x
  <2>. QED
    BY <2>3, StageGoes
<1>3. \/ ConsumeNext(e, w, g) \in {e, Stop(e)}
      \/ e.d.ok /\ ~ (n =< 0) /\ ConsumeNext(e, w, g) = h
  BY DEF ConsumeNext, ConsumeOne
<1>. HIDE DEF h
<1>. QED
  BY <1>1, <1>2, <1>3

\* All of them.
LEMMA UsedGoes ==
    ASSUME NEW c, NEW given, NEW w, IsWork(w), NEW e, WorkOK(c, given, w, e)
    PROVE  WorkOK(c, given, w, Used(e, w))
<1>0. Len(ResourceOrder) \in Nat
  BY ResourcesInOrder
<1>1. PICK run : /\ Used(e, w) = run[Len(ResourceOrder)] /\ run[0] = e
                 /\ \A i \in 1..Len(ResourceOrder) :
                       run[i] = ConsumeNext(run[i - 1], w, ResourceOrder[i])
  BY <1>0, UsedRuns
<1>. DEFINE N == Len(ResourceOrder)
            S == {i \in 0..N : WorkOK(c, given, w, run[i])}
<1>2. 0 \in S
  BY <1>0, <1>1
<1>3. ASSUME NEW i \in 1..N, i - 1 \in S
      PROVE  i \in S
  <2>. DEFINE old == run[i - 1]
              new == run[i]
              x == ResourceOrder[i]
  <2>1. /\ WorkOK(c, given, w, old) /\ i \in 0..N /\ new = ConsumeNext(old, w, x)
        /\ x \in Resources
    BY <1>0, <1>1, <1>3, ResourcesInOrder
  <2>. HIDE DEF old, new, x
  <2>2. WorkOK(c, given, w, new)
    BY <2>1, ConsumeNextGoes
  <2>. QED
    BY <2>1, <2>2 DEF new
<1>. HIDE DEF S
<1>4. 0..N \subseteq S
  BY <1>0, <1>2, <1>3, Induct
<1>5. N \in S
  BY <1>0, <1>4
<1>. QED
  BY <1>1, <1>5 DEF S

\* A citizen works, as long as they have and as long as there is work.
LEMMA LaborNextGoes ==
    ASSUME NEW c, NEW given, NEW w, IsWork(w), NEW e, WorkOK(c, given, w, e), NEW who \in Citizens
    PROVE  WorkOK(c, given, w, LaborNext(e, w, who))
<1>. DEFINE k == e.d.civ
            u == Undone(k, w.p, w.i)
            v == e.d.labor[who]
            n == Min({u, v})
            can == CanContribute(k, w.p, w.i, who, n, w.at)
            x == Contribute(k, w.p, w.i, n, w.at)
            f == Try(e.d, can, x)
            l == Work(f, who, n)
            h == Log(l, "project-labor", w.p)
<1>1. ASSUME e.d.ok
      PROVE  WorkOK(c, given, w, [e EXCEPT !.d = h])
  <2>1. /\ Sound(k) /\ w.p \in DOMAIN k.projects /\ u \in Int /\ v \in Nat
    <3>1. Sound(k) /\ w.p \in DOMAIN k.projects /\ u \in Int /\ LaborOK(e.d.labor, e.d.worked, given)
      BY <1>1, WorkFacts
    <3>. QED
      BY <3>1 DEF LaborOK
  <2>2. w.at \in Nat /\ w.i \in DOMAIN Plan(w.p)
    BY DEF IsWork
  <2>. HIDE DEF u
  <2>3. n \in Int /\ n =< v
    <3>. HIDE DEF v
    <3>1. \E m \in {u, v} : m =< u /\ m =< v
      BY <2>1
    <3>2. n \in {u, v} /\ \A m \in {u, v} : n =< m
      BY <2>1, <3>1 DEF Min
    <3>. QED
      BY <2>1, <3>2
  <2>. HIDE DEF n
  <2>4. can => n \in Nat
    BY <2>3 DEF CanContribute
  <2>5. can => CallOK(k, x, w.at)
    BY <2>1, <2>2, <2>4, ContributeCall
  <2>. HIDE DEF can, x
  <2>6. /\ DayOK(c, given, w.at, f) /\ (f.ok => can /\ w.p \in DOMAIN f.civ.projects)
        /\ f.labor = e.d.labor
    <3>1. e.d.ok /\ can => CallOK(e.d.civ, x, w.at)
      BY <2>5
    <3>2. DayOK(c, given, w.at, f) /\ (f.ok => can /\ w.p \in DOMAIN f.civ.projects)
      BY <3>1, TriedGoes
    <3>3. f.labor = e.d.labor
      BY TryMakes DEF WorkOK, DayOK
    <3>. QED
      BY <3>2, <3>3
  <2>. HIDE DEF f
  <2>7. DayOK(c, given, w.at, l) /\ l.ok = f.ok /\ l.civ = f.civ
    BY <2>3, <2>4, <2>6, WorkGoesOn
  <2>. HIDE DEF l
  <2>8. DayOK(c, given, w.at, h) /\ h.ok = f.ok /\ h.civ = f.civ
    BY <2>7, LogGoesOn
  <2>. HIDE DEF h
  <2>. QED
    BY <2>6, <2>8, WorkIs
<1>2. \/ LaborNext(e, w, who) = e
      \/ e.d.ok /\ LaborNext(e, w, who) = [e EXCEPT !.d = h]
  BY DEF LaborNext, LaborOne
<1>. HIDE DEF h
<1>. QED
  BY <1>1, <1>2

\* All of them.
LEMMA WorkedGoes ==
    ASSUME NEW c, NEW given, NEW w, IsWork(w), NEW e, WorkOK(c, given, w, e)
    PROVE  WorkOK(c, given, w, Worked(e, w))
<1>0. Len(Among(CitizenOrder, ProjectInfo[w.p].labourers)) \in Nat
  BY CitizensAreCitizens
<1>1. PICK run : /\ Worked(e, w) = run[Len(Among(CitizenOrder, ProjectInfo[w.p].labourers))]
                 /\ run[0] = e
                 /\ \A i \in 1..Len(Among(CitizenOrder, ProjectInfo[w.p].labourers)) :
                       run[i] =
                          LaborNext(run[i - 1], w, Among(CitizenOrder, ProjectInfo[w.p].labourers)[i])
  BY <1>0, WorkedRuns
<1>. DEFINE N == Len(Among(CitizenOrder, ProjectInfo[w.p].labourers))
            S == {i \in 0..N : WorkOK(c, given, w, run[i])}
<1>2. 0 \in S
  BY <1>0, <1>1
<1>3. ASSUME NEW i \in 1..N, i - 1 \in S
      PROVE  i \in S
  <2>. DEFINE old == run[i - 1]
              new == run[i]
              x == Among(CitizenOrder, ProjectInfo[w.p].labourers)[i]
  <2>1. /\ WorkOK(c, given, w, old) /\ i \in 0..N /\ new = LaborNext(old, w, x)
        /\ x \in Citizens
    BY <1>0, <1>1, <1>3, CitizensAreCitizens
  <2>. HIDE DEF old, new, x
  <2>2. WorkOK(c, given, w, new)
    BY <2>1, LaborNextGoes
  <2>. QED
    BY <2>1, <2>2 DEF new
<1>. HIDE DEF S
<1>4. 0..N \subseteq S
  BY <1>0, <1>2, <1>3, Induct
<1>5. N \in S
  BY <1>0, <1>4
<1>. QED
  BY <1>1, <1>5 DEF S

\* The milestone is completed.
LEMMA MilestoneGoes ==
    ASSUME NEW c, NEW given, NEW w, IsWork(w), NEW e, WorkOK(c, given, w, e)
    PROVE  WorkOK(c, given, w, Milestone(e, w))
<1>. DEFINE k == e.d.civ
            holds == Exact(w.p, w.i, k.projects[w.p].milestones[w.i])
            can == CanCompleteMilestone(k, w.p, w.i)
            x == CompleteMilestone(k, w.p, w.i)
<1>1. e.d.ok => /\ Sound(k) /\ k.time =< w.at /\ w.p \in DOMAIN k.projects
  BY WorkFacts
<1>2. w.at \in Nat /\ w.i \in DOMAIN Plan(w.p)
  BY DEF IsWork
<1>3. e.d.ok /\ can => CallOK(k, x, w.at)
  BY <1>1, <1>2, MilestoneCall
<1>. HIDE DEF holds, can, x
<1>4. WorkOK(c, given, w, Stage(e, holds, can, x))
  BY <1>3, StageGoes
<1>. QED
  BY <1>4 DEF Milestone, holds, can, x

\* Two calls of which the second makes good what the first leaves open.
LEMMA TryTwiceGoes ==
    ASSUME NEW c, NEW given, NEW at, NEW d, DayOK(c, given, at, d),
           NEW can, NEW x, NEW may, NEW y, d.ok /\ can /\ may => CallOK(d.civ, y, at)
    PROVE  /\ DayOK(c, given, at, Try(Try(d, can, x), may, y))
           /\ ~ (d.ok /\ can) => DayOK(c, given, at, Try(d, can, x)) /\ ~ Try(d, can, x).ok
           /\ d.ok /\ can => Try(d, can, x).ok
           /\ Try(Try(d, can, x), may, y).ok => Try(Try(d, can, x), may, y).civ = y /\ d.ok /\ can /\ may
<1>. DEFINE e == Try(d, can, x)
            f == Try(e, may, y)
<1>1. /\ IsDay(e) /\ e.ok = (d.ok /\ can) /\ e.labor = d.labor
      /\ e.worked = d.worked /\ e.left = d.left
  BY TryMakes DEF DayOK
<1>. HIDE DEF e
<1>2. /\ IsDay(f) /\ f.ok = (e.ok /\ may) /\ f.labor = e.labor
      /\ f.worked = e.worked /\ f.left = e.left
      /\ f.civ = IF e.ok /\ may THEN y ELSE e.civ
  BY <1>1, TryMakes
<1>. HIDE DEF f
<1>3. f.ok => Goes(c, given, at, f)
  <2>. SUFFICES ASSUME f.ok PROVE Goes(c, given, at, f)
    OBVIOUS
  <2>1. d.ok /\ can /\ may /\ f.civ = y
    BY <1>1, <1>2
  <2>2. CallOK(d.civ, y, at) /\ Goes(c, given, at, d)
    BY <2>1 DEF DayOK
  <2>3. Onward(c, y)
    BY <2>2, OnwardGoesOn DEF CallOK, Goes
  <2>. QED
    BY <1>1, <1>2, <2>1, <2>2, <2>3 DEF CallOK, Goes
<1>4. DayOK(c, given, at, f) /\ (~ e.ok => DayOK(c, given, at, e))
  BY <1>1, <1>2, <1>3 DEF DayOK
<1>. QED
  BY <1>1, <1>2, <1>4 DEF e, f

\* The project is completed, and stands.
LEMMA BuiltGoes ==
    ASSUME NEW c, NEW given, NEW w, IsWork(w), NEW e, WorkOK(c, given, w, e)
    PROVE  WorkOK(c, given, w, Built(e, w))
<1>. DEFINE k == e.d.civ
            can == CanCompleteProject(k, w.p, w.at)
            x == CompleteProject(k, w.p, w.at)
            may == CanMaterialize(x, w.p, w.at)
            y == Materialize(x, w.p, WorkInfo[w.p].kind, w.at)
            f == Stage(e, TRUE, can, x)
            g == Stage(f, TRUE, may, y)
            a == Try(e.d, can, x)
            b == Try(a, may, y)
<1>1. CASE e.going /\ e.d.ok
  <2>1. /\ Sound(k) /\ w.p \in DOMAIN k.projects
    BY <1>1, WorkFacts
  <2>2. w.at \in Nat /\ WorkInfo[w.p].kind \in Kinds
    BY SchedulerAssumption DEF IsWork, OrderAssumption
  <2>3. can /\ may => CallOK(k, y, w.at)
    BY <2>1, <2>2, BuiltCall
  <2>4. f = [e EXCEPT !.d = a]
    BY <1>1 DEF Stage
  <2>. HIDE DEF can, may, x, y, f, a
  <2>5. f = [d |-> a, going |-> e.going]
    BY <2>4 DEF WorkOK
  <2>6. CASE a.ok
    <3>1. g = [f EXCEPT !.d = b]
      BY <1>1, <2>5, <2>6 DEF Stage
    <3>. HIDE DEF g
    <3>2. g = [e EXCEPT !.d = b]
      BY <2>4, <2>5, <3>1 DEF WorkOK
    <3>3. DayOK(c, given, w.at, b) /\ (b.ok => b.civ = y /\ can /\ may)
      BY <2>3, TryTwiceGoes DEF a, WorkOK
    <3>. HIDE DEF b
    <3>4. b.ok => w.p \in DOMAIN b.civ.projects
      BY <2>1, <2>3, <3>3 DEF CallOK, Onward, NothingUndone
    <3>5. WorkOK(c, given, w, g)
      BY <3>2, <3>3, <3>4, WorkIs
    <3>. QED
      BY <3>5 DEF Built, g, f, can, may, x, y
  <2>7. CASE ~ a.ok
    <3>1. g = f
      BY <2>5, <2>7 DEF Stage
    <3>2. DayOK(c, given, w.at, a)
      BY <2>3, <2>7, TryTwiceGoes DEF a, WorkOK
    <3>3. WorkOK(c, given, w, f)
      BY <2>4, <2>7, <3>2, WorkIs
    <3>. QED
      BY <3>1, <3>3 DEF Built, g, f, can, may, x, y
  <2>. QED
    BY <2>6, <2>7
<1>2. CASE ~ (e.going /\ e.d.ok)
  BY <1>2 DEF Built, Stage
<1>. QED
  BY <1>1, <1>2

\* A project that may be worked on is.
LEMMA RunCollectiveGoes ==
    ASSUME NEW c, NEW given, NEW at \in Nat, NEW d, DayOK(c, given, at, d), NEW p, NEW decisions
    PROVE  DayOK(c, given, at, RunCollective(d, p, decisions, at))
<1>1. CASE d.ok /\ Affordable(d.civ, p, WorkInfo[p].actor)
  <2>. DEFINE i == Min(ReadyMilestones(d.civ, p))
              w == [p |-> p, i |-> i, at |-> at]
              e0 == [d |-> d, going |-> TRUE]
              e1 == Approved(e0, w)
              e2 == Resourced(e1, w)
              e3 == Started(e2, w)
              e4 == Used(e3, w)
              e5 == Worked(e4, w)
              e6 == Milestone(e5, w)
              e7 == Finished(e6, w)
  <2>1. p \in DOMAIN d.civ.projects /\ ReadyMilestones(d.civ, p) # {}
    BY <1>1 DEF Affordable, IsOpen
  <2>2. p \in Projects
    BY <1>1, <2>1, DayFacts DEF Sound, KernelOK, Books
  <2>3. i \in DOMAIN Plan(p)
    <3>. DEFINE M == ReadyMilestones(d.civ, p)
    <3>1. M \subseteq DOMAIN Plan(p)
      BY DEF ReadyMilestones
    <3>2. DOMAIN Plan(p) \subseteq Nat
      BY <2>2, CatalogueAssumption DEF ValidCatalogue, Plan
    <3>. HIDE DEF M
    <3>3. PICK m \in M : \A k \in M : m =< k
      BY <2>1, <3>1, <3>2, LeastOf DEF M
    <3>4. Min(M) \in M
      BY <3>3 DEF Min
    <3>. QED
      BY <3>1, <3>4 DEF M
  <2>. HIDE DEF i
  <2>4. IsWork(w) /\ WorkOK(c, given, w, e0)
    BY <1>1, <2>1, <2>2, <2>3 DEF IsWork, WorkOK
  <2>. HIDE DEF w, e0
  <2>5. WorkOK(c, given, w, e1)
    BY <2>4, ApprovedGoes
  <2>. HIDE DEF e1
  <2>6. WorkOK(c, given, w, e2)
    BY <2>4, <2>5, ResourcedGoes
  <2>. HIDE DEF e2
  <2>7. WorkOK(c, given, w, e3)
    BY <2>4, <2>6, ApprovedGoes
  <2>. HIDE DEF e3
  <2>8. WorkOK(c, given, w, e4)
    BY <2>4, <2>7, UsedGoes
  <2>. HIDE DEF e4
  <2>9. WorkOK(c, given, w, e5)
    BY <2>4, <2>8, WorkedGoes
  <2>. HIDE DEF e5
  <2>10. WorkOK(c, given, w, e6)
    BY <2>4, <2>9, MilestoneGoes
  <2>. HIDE DEF e6
  <2>11. WorkOK(c, given, w, e7)
    BY <2>4, <2>10, BuiltGoes DEF Finished
  <2>. HIDE DEF e7
  <2>12. DayOK(c, given, w.at, e7.d) /\ w.at = at
    BY <2>11 DEF WorkOK, w
  <2>13. ExecuteProject(d, p, at) = e7.d
    BY DEF ExecuteProject, e0, e1, e2, e3, e4, e5, e6, e7, w, i
  <2>. QED
    BY <2>12, <2>13 DEF RunCollective
<1>2. CASE ~ (d.ok /\ Affordable(d.civ, p, WorkInfo[p].actor))
  BY <1>2 DEF RunCollective
<1>. QED
  BY <1>1, <1>2

\* All of them.
LEMMA BuildGoes ==
    ASSUME NEW c, NEW given, NEW at \in Nat, NEW d, DayOK(c, given, at, d), NEW policy,
           NEW decisions
    PROVE  DayOK(c, given, at, Build(d, policy, decisions, at))
<1>0. Len(Among(ProjectOrder, policy)) \in Nat
  <2>1. Among(ProjectOrder, policy) \in Seq(Projects \cap policy)
    BY SchedulerAssumption, AmongIsList DEF OrderAssumption
  <2>. QED
    BY <2>1
<1>1. PICK run : /\ Build(d, policy, decisions, at) = run[Len(Among(ProjectOrder, policy))]
                 /\ run[0] = d
                 /\ \A i \in 1..Len(Among(ProjectOrder, policy)) :
                       run[i] =
                          RunCollective(run[i - 1], Among(ProjectOrder, policy)[i], decisions, at)
  BY <1>0, BuildRuns
<1>. DEFINE N == Len(Among(ProjectOrder, policy))
            S == {i \in 0..N : DayOK(c, given, at, run[i])}
<1>2. 0 \in S
  BY <1>0, <1>1
<1>3. ASSUME NEW i \in 1..N, i - 1 \in S
      PROVE  i \in S
  <2>. DEFINE old == run[i - 1]
              new == run[i]
              x == Among(ProjectOrder, policy)[i]
  <2>1. DayOK(c, given, at, old) /\ i \in 0..N /\ new = RunCollective(old, x, decisions, at)
    BY <1>0, <1>1, <1>3
  <2>. HIDE DEF old, new, x
  <2>2. DayOK(c, given, at, new)
    BY <2>1, RunCollectiveGoes
  <2>. QED
    BY <2>1, <2>2 DEF new
<1>. HIDE DEF S
<1>4. 0..N \subseteq S
  BY <1>0, <1>2, <1>3, Induct
<1>5. N \in S
  BY <1>0, <1>4
<1>. QED
  BY <1>1, <1>5 DEF S

\* The day begins with what everyone has, and ends at its time.
LEMMA BeginGoes ==
    ASSUME NEW c, Sound(c), NEW at \in Nat, c.time =< at
    PROVE  /\ DayOK(c, AvailableLabor(c), at, Begin(c))
           /\ Begin(c).ok /\ Begin(c).civ = c /\ AvailableLabor(c) \in [Citizens -> Nat]
<1>. DEFINE d == Begin(c)
            labor == AvailableLabor(c)
            taken == [p \in Citizens |-> 0]
            left == [l \in Lanes |-> LaneInfo[l].capacity]
<1>1. labor \in [Citizens -> Nat] /\ taken \in [Citizens -> Int] /\ left \in [Lanes -> Int]
  BY SchedulerAssumption DEF OrderAssumption, PolicyAssumption, AvailableLabor
<1>2. \A p \in Citizens : taken[p] = 0
  OBVIOUS
<1>3. d = [civ |-> c, ok |-> TRUE, did |-> {}, labor |-> labor, worked |-> taken, left |-> left]
  BY DEF Begin
<1>. HIDE DEF labor, taken, left, d
<1>4. LaborOK(labor, taken, labor)
  BY <1>1, <1>2 DEF LaborOK
<1>5. Onward(c, c)
  BY DEF Onward, SamePeople, NothingUndone
<1>6. DayOK(c, labor, at, d) /\ d.ok /\ d.civ = c
  BY <1>1, <1>3, <1>4, <1>5 DEF DayOK, IsDay, Goes, CallOK
<1>. QED
  BY <1>1, <1>6 DEF d, labor

\* The time of the day has come.
LEMMA CloseGoes ==
    ASSUME NEW c, NEW given, NEW at \in Nat, NEW d, DayOK(c, given, at, d)
    PROVE  DayOK(c, given, at, Close(d, at)) /\ (Close(d, at).ok => Close(d, at).civ.time = at)
<1>1. CASE d.ok
  <2>. DEFINE k == d.civ
              x == [k EXCEPT !.time = at]
              e == Close(d, at)
  <2>1. Sound(k) /\ k.time =< at /\ k.time \in Nat /\ KernelOK("linked", k) /\ AccountsOK(k)
        /\ IsCivilization(k)
    BY <1>1, DayFacts, SoundFacts
  <2>2. IsAccounting(k, x) /\ Silent(k, x, at) /\ x.stocks = k.stocks
    BY <2>1, LaterIsSilent, LaterIsAccounting
  <2>3. AccountsOK(x) /\ x.time = at
    <3>1. SilentCall(k, x, at)
      <4>1. x.projects = k.projects /\ x.migrations = k.migrations /\ x.journeys = k.journeys
        BY <2>2 DEF IsAccounting, SameSociety
      <4>. HIDE DEF x
      <4>2. AccountsOK(x)
        BY <2>1, <2>2, <4>1, SilentKeeps DEF AccountsOK
      <4>. QED
        BY <2>2, <4>2 DEF SilentCall
    <3>. HIDE DEF x
    <3>. QED
      BY <3>1 DEF SilentCall, Silent
  <2>. HIDE DEF x
  <2>4. CallOK(k, x, at)
    BY <2>1, <2>2, <2>3, AccountingCall
  <2>5. DayOK(c, given, at, Try(d, TRUE, x))
    BY <2>4, TryGoesOn
  <2>6. Try(d, TRUE, x) = e /\ Try(d, TRUE, x).civ = x
    <3>1. Try(d, TRUE, x) = [d EXCEPT !.civ = x] /\ Try(d, TRUE, x).civ = x
      BY <1>1, TryMakes DEF Try, DayOK
    <3>2. e = [d EXCEPT !.civ.time = at]
      BY <1>1 DEF Close
    <3>3. d.civ = k
      OBVIOUS
    <3>. HIDE DEF e
    <3>. QED
      BY <3>1, <3>2 DEF x, DayOK, IsDay
  <2>. QED
    BY <2>3, <2>5, <2>6
<1>2. CASE ~ d.ok
  BY <1>2 DEF Close
<1>. QED
  BY <1>1, <1>2

\* The scheduler's day.
LEMMA SchedulerGoes ==
    ASSUME NEW c, Sound(c), c.time + 1 \in 1..Horizon, DOMAIN GenesisStocks \subseteq DOMAIN c.stocks,
           NEW policy, NEW decisions, NEW d, d = AdvanceScheduler(c, policy, decisions)
    PROVE  /\ DayOK(c, AvailableLabor(c), c.time + 1, d)
           /\ d.ok => d.civ.time = c.time + 1
<1>. DEFINE at == c.time + 1
            given == AvailableLabor(c)
            d1 == Begin(c)
            d2 == Finish(d1, at)
            d3 == Produce(d2, decisions, at)
            d4 == Nourish(d3, at)
            d5 == Build(d4, policy, decisions, at)
            d6 == Close(d5, at)
<1>1. at \in 1..Horizon /\ at \in Nat /\ c.time =< at
  BY SoundFacts, DayAssumption DEF DaysAccepted
<1>2. d = d6
  BY DEF AdvanceScheduler
<1>. HIDE DEF at
<1>3. DayOK(c, given, at, d1)
  BY <1>1, BeginGoes
<1>. HIDE DEF d1, given
<1>4. DayOK(c, given, at, d2)
  BY <1>1, <1>3, FinishGoes
<1>. HIDE DEF d2
<1>5. DayOK(c, given, at, d3)
  BY <1>1, <1>4, ProduceGoes
<1>. HIDE DEF d3
<1>6. DayOK(c, given, at, d4)
  BY <1>1, <1>5, NourishGoes
<1>. HIDE DEF d4
<1>7. DayOK(c, given, at, d5)
  BY <1>1, <1>6, BuildGoes
<1>. HIDE DEF d5
<1>8. DayOK(c, given, at, d6) /\ (d6.ok => d6.civ.time = at)
  BY <1>1, <1>7, CloseGoes
<1>. HIDE DEF d6
<1>. QED
  BY <1>2, <1>8 DEF at, given

-----------------------------------------------------------------------------
(* The projects citizens originate *)

\* A citizen's project is drafted, with an empty stock of its own.
LEMMA OriginateOneGoes ==
    ASSUME NEW c, NEW given, NEW at \in Nat, NEW d, DayOK(c, given, at, d), NEW p \in Citizens
    PROVE  DayOK(c, given, at, OriginateOne(d, p))
<1>1. CASE Originates(d.civ, p, decided[p].mind) /\ OriginatedBy[p] \notin DOMAIN d.civ.projects
  <2>. DEFINE q == OriginatedBy[p]
              s == CHOOSE x \in Stocks : StockInfo[x].owner = Owner("project", q)
              k == d.civ
              can == CanRegisterProject(k, q)
              x == RegisterProject(k, q)
              e == Try(d, can, x)
              l == e.civ
              may == CanRegisterStock(l, s, 0, l.time)
              y == RegisterStock(l, s, 0, l.time)
              f == Try(e, may, y)
  <2>1. q # None
    BY <1>1 DEF Originates
  <2>2. q \in Projects /\ s \in Stocks
    BY <2>1, DayAssumption DEF DaysAccepted
  <2>. HIDE DEF q, s
  <2>3. d.ok /\ can => CallOK(k, x, at)
    BY <2>2, DayFacts, DraftCall
  <2>4. DayOK(c, given, at, e)
    BY <2>3, TryGoesOn
  <2>. HIDE DEF e, x, can
  <2>5. e.ok => Sound(l) /\ l.time \in Nat /\ l.time =< at
    BY <2>4, DayFacts, SoundFacts
  <2>6. ASSUME e.ok /\ may
        PROVE  CallOK(l, y, at)
    <3>1. CallOK(l, y, l.time)
      BY <2>2, <2>5, <2>6, MatterCalls
    <3>2. y.time =< at
      <4>1. y.time \in Nat
        BY <3>1, SoundFacts DEF CallOK
      <4>. HIDE DEF y, l
      <4>. QED
        BY <2>5, <2>6, <3>1, <4>1 DEF CallOK
    <3>. HIDE DEF y
    <3>. QED
      BY <3>1, <3>2 DEF CallOK
  <2>7. DayOK(c, given, at, f)
    <3>. HIDE DEF y, may
    <3>. QED
      BY <2>4, <2>6, TryGoesOn
  <2>8. OriginateOne(d, p) = f
    BY <1>1 DEF OriginateOne, Originate, Stocked, Drafted, f, e, x, can, s, q
  <2>. QED
    BY <2>7, <2>8
<1>2. CASE ~ (Originates(d.civ, p, decided[p].mind) /\ OriginatedBy[p] \notin DOMAIN d.civ.projects)
  BY <1>2 DEF OriginateOne, Originate
<1>. QED
  BY <1>1, <1>2

\* All of them.
LEMMA OriginationsGo ==
    ASSUME NEW c, NEW given, NEW at \in Nat, NEW d, DayOK(c, given, at, d)
    PROVE  DayOK(c, given, at, Originations(d))
<1>0. Len(Among(CitizenOrder, Proposers)) \in Nat
  BY CitizensAreCitizens
<1>1. PICK run : /\ Originations(d) = run[Len(Among(CitizenOrder, Proposers))] /\ run[0] = d
                 /\ \A i \in 1..Len(Among(CitizenOrder, Proposers)) :
                       run[i] = OriginateOne(run[i - 1], Among(CitizenOrder, Proposers)[i])
  BY <1>0, OriginationRuns
<1>. DEFINE N == Len(Among(CitizenOrder, Proposers))
            S == {i \in 0..N : DayOK(c, given, at, run[i])}
<1>2. 0 \in S
  BY <1>0, <1>1
<1>3. ASSUME NEW i \in 1..N, i - 1 \in S
      PROVE  i \in S
  <2>. DEFINE old == run[i - 1]
              new == run[i]
              x == Among(CitizenOrder, Proposers)[i]
  <2>1. /\ DayOK(c, given, at, old) /\ i \in 0..N /\ new = OriginateOne(old, x)
        /\ x \in Citizens
    BY <1>0, <1>1, <1>3, CitizensAreCitizens
  <2>. HIDE DEF old, new, x
  <2>2. DayOK(c, given, at, new)
    BY <2>1, OriginateOneGoes
  <2>. QED
    BY <2>1, <2>2 DEF new
<1>. HIDE DEF S
<1>4. 0..N \subseteq S
  BY <1>0, <1>2, <1>3, Induct
<1>5. N \in S
  BY <1>0, <1>4
<1>. QED
  BY <1>1, <1>5 DEF S

-----------------------------------------------------------------------------
(* The audit, and the closing of the accounts *)

\* A state in order passes the audit.
LEMMA SoundPasses ==
    ASSUME NEW c, Sound(c)
    PROVE  Audit(c)
<1>1. KernelOK("linked", c) /\ AccountsOK(c)
  BY DEF Sound
<1>2. /\ HomesOK("linked", c.citizens, c.households, c.settlements)
      /\ Colonies(c.migrations, c.foundings, c.settled, c.projects, c.settlements)
      /\ Buildings(c.built, c.kinds, c.projects)
  BY <1>1 DEF KernelOK
<1>3. AuditHouseholds(c)
  BY <1>2 DEF AuditHouseholds, HomesOK, Household
<1>4. AuditBuilt(c)
  BY <1>2 DEF AuditBuilt, Buildings, Done, Is
<1>5. AuditFoundings(c)
  BY <1>2 DEF AuditFoundings, Colonies
<1>6. AuditLedger(c) /\ AuditStocks(c) /\ AuditProjects(c) /\ AuditNeeds(c) /\ AuditJourneys(c)
  BY <1>1, LedgerPasses, ProjectsPass, NeedsPass, JourneysPass
<1>. QED
  BY <1>3, <1>4, <1>5, <1>6 DEF Audit, AuditBooks

\* The expedition's part of a state is not touched by the accounts.
SameTables(c, e) ==
    /\ e.stocks = c.stocks /\ e.projects = c.projects /\ e.citizens = c.citizens
    /\ e.migrations = c.migrations /\ e.journeys = c.journeys
    /\ e.foundings = c.foundings /\ e.settled = c.settled /\ e.built = c.built

\* The accounts of a state in order may be closed.
LEMMA CheckpointGoes ==
    ASSUME NEW c, Sound(c)
    PROVE  /\ Sound(Checkpoint(c)) /\ Checkpoint(c).time = c.time
           /\ SameTables(c, Checkpoint(c))
<1>. DEFINE e == Checkpoint(c)
<1>1. KernelOK("linked", c) /\ AccountsOK(c) /\ IsCivilization(c) /\ DOMAIN c.stocks \subseteq Stocks
  BY SoundFacts
<1>2. IsAccounting(c, e)
  BY <1>1, CheckpointIsAccounting
<1>3. Closes(c)
  BY <1>1, InOrderCloses
<1>4. AccountsOK(e) /\ e.time = c.time /\ e.stocks = c.stocks
  BY <1>1, <1>3, CheckpointAccounts
<1>. HIDE DEF e
<1>5. KernelOK("linked", e)
  BY <1>1, <1>2, AccountingKeeps
<1>6. SameTables(c, e)
  BY <1>2, <1>4 DEF IsAccounting, SameSociety, SameTables
<1>7. BuiltUp(e)
  BY <1>6 DEF Sound, BuiltUp, SameTables
<1>8. Sound(e)
  BY <1>4, <1>5, <1>7 DEF Sound
<1>. QED
  BY <1>4, <1>6, <1>8 DEF e

-----------------------------------------------------------------------------
(* The expedition *)

\* The states of a whole expedition: not begun, on its way, and there; all the
\* settlers are where it is.
Settling(c, residence) == \A p \in Settlers(Colony) : c.citizens[p].residence = residence
NotGone(c) ==
    /\ Trek \notin DOMAIN c.migrations /\ Colony \notin DOMAIN c.foundings
    /\ Settling(c, "resident")
Gone(c, march, founding) ==
    /\ Trek \in DOMAIN c.migrations /\ c.migrations[Trek] = march
    /\ Trek \in DOMAIN c.journeys
    /\ Colony \in DOMAIN c.foundings /\ c.foundings[Colony] = founding
    /\ Done(c.projects, Kit)
OnTheRoad(c) ==
    Gone(c, "travelling", "travelling") /\ Colony \notin c.settled /\ Settling(c, "travelling")
There(c) == Gone(c, "arrived", "viable") /\ Colony \in c.settled /\ Settling(c, "resident")
Trekked(c) == NotGone(c) \/ OnTheRoad(c) \/ There(c)

\* What the expedition may make of a state: in order, with the stocks it had.
Steady(c, e, at) == Sound(e) /\ e.time =< at /\ e.stocks = c.stocks

\* A call of the expedition's: no matter moves, and no project.
LEMMA SilentGoes ==
    ASSUME NEW c, NEW d, NEW e, NEW at \in Nat, Steady(c, d, at), KernelOK("linked", e),
           NEW t, t =< at, SilentCall(d, e, t),
           e.projects = d.projects, e.built = d.built
    PROVE  Steady(c, e, at)
BY DEF Steady, Sound, BuiltUp, SilentCall, Silent

\* The days of the scheduler and the accounts leave it where it is.
LEMMA TrekWaits ==
    ASSUME NEW c, NEW e, Trekked(c), Onward(c, e) \/ SameTables(c, e)
    PROVE  Trekked(e)
BY DEF Trekked, NotGone, OnTheRoad, There, Gone, Settling, Onward, SamePeople, NothingUndone,
       SameTables, Done

\* The party under way, its march and its founding in some state.
Party(c, march, founding) ==
    /\ Gone(c, march, founding) /\ Colony \notin c.settled
    /\ Settling(c, IF march = "planned" THEN "resident" ELSE "travelling")

\* What the calls of the expedition need to know.
LEMMA TrekFacts ==
    ASSUME NEW c, NEW d, NEW at, Steady(c, d, at)
    PROVE  /\ KernelOK("linked", d) /\ AccountsOK(d) /\ IsCivilization(d) /\ d.time \in Nat
           /\ Trek \in Migrations /\ Colony \in Foundings /\ Traversal \in Nat
           /\ FoundingInfo[Colony].migration = Trek
           /\ Settlers(Colony) = MigrationInfo[Trek].citizens /\ Settlers(Colony) \subseteq Citizens
           /\ d.citizens \in [Citizens -> People]
           /\ d.migrations = [m \in DOMAIN d.migrations |-> d.migrations[m]]
           /\ d.foundings = [f \in DOMAIN d.foundings |-> d.foundings[f]]
           /\ d.settled \subseteq DOMAIN d.foundings /\ DOMAIN d.journeys \subseteq DOMAIN d.migrations
<1>1. KernelOK("linked", d) /\ AccountsOK(d) /\ IsCivilization(d) /\ d.time \in Nat
  BY SoundFacts DEF Steady
<1>2. /\ Trek \in Migrations /\ Colony \in Foundings /\ Traversal \in Nat
      /\ FoundingInfo[Colony].migration = Trek /\ MigrationInfo[Trek].citizens \subseteq Citizens
  BY DayAssumption DEF DaysAccepted
<1>3. /\ d.citizens \in [Citizens -> People] /\ DOMAIN d.journeys \subseteq DOMAIN d.migrations
      /\ d.migrations = [m \in DOMAIN d.migrations |-> d.migrations[m]]
  BY <1>1, MigrationFacts
<1>4. /\ d.foundings = [f \in DOMAIN d.foundings |-> d.foundings[f]]
      /\ d.settled \subseteq DOMAIN d.foundings
  BY <1>1, SocietyFacts DEF Colonies
<1>. QED
  BY <1>1, <1>2, <1>3, <1>4 DEF Settlers

\* The party walks, and may arrive.
LEMMA WalkMoves ==
    ASSUME NEW c, NEW d, NEW at \in Nat, Steady(c, d, at), NEW f, Party(d, "travelling", f),
           CanWalk(d, Trek, Traversal, at), NEW e, e = Walk(d, Trek, Traversal, at)
    PROVE  Steady(c, e, at) /\ (Party(e, "travelling", f) \/ Party(e, "arrived", f))
<1>1. KernelOK("linked", e)
  BY TrekFacts, WalkKeeps
<1>2. SilentCall(d, e, at)
  BY TrekFacts, WalkAccounts
<1>. DEFINE j == Walked(Trek, d.journeys[Trek], Traversal)
            z == IF AtEnd(Trek, j) THEN "arrived" ELSE d.migrations[Trek]
            journeys == [d.journeys EXCEPT ![Trek] = j]
            migrations == [d.migrations EXCEPT ![Trek] = z]
<1>3. e = [d EXCEPT !.time = at, !.journeys = journeys, !.migrations = migrations]
  BY TrekFacts DEF Walk, IsCivilization, Tables
<1>4. /\ DOMAIN journeys = DOMAIN d.journeys /\ DOMAIN migrations = DOMAIN d.migrations
      /\ migrations[Trek] = z
  BY DEF Party, Gone
<1>5. z \in {"travelling", "arrived"}
  BY DEF Party, Gone
<1>. HIDE DEF journeys, migrations, z
<1>6. /\ e.projects = d.projects /\ e.built = d.built /\ e.citizens = d.citizens
      /\ e.foundings = d.foundings /\ e.settled = d.settled /\ e.journeys = journeys
      /\ e.migrations = migrations
  BY <1>3, TrekFacts DEF IsCivilization, Tables
<1>7. Steady(c, e, at)
  BY <1>1, <1>2, <1>6, SilentGoes
<1>8. Party(e, z, f)
  BY <1>4, <1>5, <1>6 DEF Party, Gone, Settling
<1>. QED
  BY <1>5, <1>7, <1>8

\* The founding follows.
LEMMA AdvanceMoves ==
    ASSUME NEW c, NEW d, NEW at \in Nat, Steady(c, d, at), NEW m, NEW f, Party(d, m, f),
           CanAdvanceFounding(d, Colony, at), NEW e, e = AdvanceFounding(d, Colony, at)
    PROVE  Steady(c, e, at) /\ Party(e, m, NextFounding[f])
<1>0. at >= d.time
  BY DEF CanAdvanceFounding
<1>1. KernelOK("linked", e)
  BY TrekFacts, FoundingsKeep
<1>2. SilentCall(d, e, at)
  BY <1>0, TrekFacts, PeopleAccount
<1>. DEFINE z == NextFounding[f]
            foundings == [d.foundings EXCEPT ![Colony] = z]
<1>3. e = [d EXCEPT !.time = at, !.foundings = foundings]
  <2>1. d.foundings[Colony] = f /\ IsCivilization(d)
    BY TrekFacts DEF Party, Gone
  <2>. HIDE DEF NextFounding
  <2>. QED
    BY <2>1 DEF AdvanceFounding, IsCivilization, Tables
<1>. HIDE DEF z
<1>4. DOMAIN foundings = DOMAIN d.foundings /\ foundings[Colony] = z
  BY DEF Party, Gone
<1>. HIDE DEF foundings
<1>6. /\ e.projects = d.projects /\ e.built = d.built /\ e.citizens = d.citizens
      /\ e.foundings = foundings /\ e.settled = d.settled /\ e.journeys = d.journeys
      /\ e.migrations = d.migrations
  BY <1>3, TrekFacts DEF IsCivilization, Tables
<1>7. Steady(c, e, at)
  BY <1>1, <1>2, <1>6, SilentGoes
<1>8. Party(e, m, z)
  BY <1>4, <1>6 DEF Party, Gone, Settling
<1>. QED
  BY <1>7, <1>8 DEF z

\* The party leaves.
LEMMA DepartMoves ==
    ASSUME NEW c, NEW d, NEW at \in Nat, Steady(c, d, at), NEW f, Party(d, "planned", f),
           CanDepartMigration(d, Trek, at), NEW e, e = DepartMigration(d, Trek, at)
    PROVE  Steady(c, e, at) /\ Party(e, "travelling", f)
<1>1. KernelOK("linked", e)
  BY TrekFacts, DepartMigrationKeeps
<1>2. SilentCall(d, e, at)
  BY TrekFacts, DepartMigrationAccounts
<1>. DEFINE citizens == [p \in Citizens |-> IF p \in MigrationInfo[Trek].citizens
                            THEN [d.citizens[p] EXCEPT !.residence = "travelling"]
                            ELSE d.citizens[p]]
            migrations == [d.migrations EXCEPT ![Trek] = "travelling"]
<1>3. e = [d EXCEPT !.time = at, !.migrations = migrations, !.citizens = citizens]
  BY TrekFacts DEF DepartMigration, IsCivilization, Tables
<1>4. /\ DOMAIN migrations = DOMAIN d.migrations /\ migrations[Trek] = "travelling"
      /\ \A p \in Settlers(Colony) : citizens[p].residence = "travelling"
  <2>1. DOMAIN migrations = DOMAIN d.migrations /\ migrations[Trek] = "travelling"
    BY DEF Party, Gone
  <2>2. ASSUME NEW p \in Settlers(Colony)
        PROVE  citizens[p].residence = "travelling"
    <3>1. p \in Citizens /\ p \in MigrationInfo[Trek].citizens /\ d.citizens[p] \in People
      BY TrekFacts
    <3>2. citizens[p] = [d.citizens[p] EXCEPT !.residence = "travelling"]
      BY <3>1
    <3>. HIDE DEF citizens
    <3>. QED
      BY <3>1, <3>2 DEF People
  <2>. QED
    BY <2>1, <2>2
<1>. HIDE DEF citizens, migrations
<1>6. /\ e.projects = d.projects /\ e.built = d.built /\ e.citizens = citizens
      /\ e.foundings = d.foundings /\ e.settled = d.settled /\ e.journeys = d.journeys
      /\ e.migrations = migrations
  BY <1>3, TrekFacts DEF IsCivilization, Tables
<1>7. Steady(c, e, at)
  BY <1>1, <1>2, <1>6, SilentGoes
<1>8. Party(e, "travelling", f)
  BY <1>4, <1>6 DEF Party, Gone, Settling
<1>. QED
  BY <1>7, <1>8

\* The party settles.
LEMMA SettleMoves ==
    ASSUME NEW c, NEW d, NEW at \in Nat, Steady(c, d, at), Party(d, "arrived", "viable"),
           CanSettle(d, Colony, at), NEW e, e = Settle(d, Colony, at)
    PROVE  Steady(c, e, at) /\ There(e)
<1>0. at >= d.time
  BY DEF CanSettle, CanSettleUnsited
<1>1. KernelOK("linked", e)
  BY TrekFacts, SettleKeeps
<1>2. SilentCall(d, e, at)
  BY <1>0, TrekFacts, PeopleAccount
<1>. DEFINE citizens == [p \in Citizens |-> IF p \in Settlers(Colony)
                            THEN [d.citizens[p] EXCEPT !.residence = "resident",
                                       !.settlement = FoundingInfo[Colony].settlement]
                            ELSE d.citizens[p]]
            settled == d.settled \cup {Colony}
            settlements == d.settlements \cup {FoundingInfo[Colony].settlement}
<1>3. e = [d EXCEPT !.time = at, !.settled = settled, !.settlements = settlements,
                    !.citizens = citizens]
  BY TrekFacts DEF Settle, SettleUnsited, IsCivilization, Tables
<1>4. /\ Colony \in settled
      /\ \A p \in Settlers(Colony) : citizens[p].residence = "resident"
  <2>2. ASSUME NEW p \in Settlers(Colony)
        PROVE  citizens[p].residence = "resident"
    <3>1. p \in Citizens /\ d.citizens[p] \in People
      BY TrekFacts
    <3>2. citizens[p] = [d.citizens[p] EXCEPT !.residence = "resident",
                            !.settlement = FoundingInfo[Colony].settlement]
      BY <3>1
    <3>. HIDE DEF citizens
    <3>. QED
      BY <3>1, <3>2 DEF People
  <2>. QED
    BY <2>2
<1>. HIDE DEF citizens, settled, settlements
<1>6. /\ e.projects = d.projects /\ e.built = d.built /\ e.citizens = citizens
      /\ e.foundings = d.foundings /\ e.settled = settled /\ e.journeys = d.journeys
      /\ e.migrations = d.migrations
  BY <1>3, TrekFacts DEF IsCivilization, Tables
<1>7. Steady(c, e, at)
  BY <1>1, <1>2, <1>6, SilentGoes
<1>8. There(e)
  BY <1>4, <1>6 DEF Party, There, Gone, Settling
<1>. QED
  BY <1>7, <1>8

\* The expedition is prepared: its migration, its journey and its founding are there.
LEMMA PrepareMoves ==
    ASSUME NEW c, NEW d, NEW at \in Nat, Steady(c, d, at), NotGone(d), Done(d.projects, Kit),
           CanRegisterMigration(d, Trek), NEW x, x = RegisterMigration(d, Trek, at),
           CanRegisterJourney(x, Trek), NEW y, y = RegisterJourney(x, Trek),
           CanRegisterFounding(y, Colony), NEW e, e = RegisterFounding(y, Colony)
    PROVE  Steady(c, e, at) /\ Party(e, "planned", "proposed")
<1>0. d.time =< at /\ Trek \notin DOMAIN d.migrations /\ Colony \notin DOMAIN d.foundings
      /\ Colony \notin d.settled
  BY TrekFacts DEF Steady, NotGone
<1>. DEFINE migrations == With(d.migrations, Trek, "planned")
            departures == With(d.departures, Trek, at)
            j == [leg |-> 0, progress |-> 0, done |-> 0]
            journeys == With(d.journeys, Trek, j)
            foundings == With(d.foundings, Colony, "proposed")
<1>1. /\ Trek \in DOMAIN migrations /\ migrations[Trek] = "planned"
      /\ Trek \in DOMAIN journeys
      /\ Colony \in DOMAIN foundings /\ foundings[Colony] = "proposed"
  BY DEF With
<1>2. Steady(c, x, at) /\ x.projects = d.projects /\ x.citizens = d.citizens
      /\ x.migrations = migrations /\ x.journeys = d.journeys /\ x.foundings = d.foundings
      /\ x.settled = d.settled
  <2>1. KernelOK("linked", x)
    BY TrekFacts, RegisterMigrationKeeps
  <2>2. SilentCall(d, x, d.time)
    BY TrekFacts, RegisterMigrationAccounts
  <2>3. x = [d EXCEPT !.migrations = migrations, !.departures = departures]
    BY DEF RegisterMigration
  <2>. HIDE DEF migrations, departures
  <2>4. /\ x.projects = d.projects /\ x.built = d.built /\ x.citizens = d.citizens
        /\ x.foundings = d.foundings /\ x.settled = d.settled /\ x.journeys = d.journeys
        /\ x.migrations = migrations
    BY <2>3, TrekFacts DEF IsCivilization, Tables
  <2>. QED
    BY <1>0, <2>1, <2>2, <2>4, SilentGoes
<1>3. Steady(c, y, at) /\ y.projects = d.projects /\ y.citizens = d.citizens
      /\ y.migrations = migrations /\ y.journeys = journeys /\ y.foundings = d.foundings
      /\ y.settled = d.settled
  <2>1. KernelOK("linked", y) /\ x.time =< at
    BY <1>2, TrekFacts, RegisterJourneyKeeps DEF Steady
  <2>2. SilentCall(x, y, x.time)
    BY <1>2, TrekFacts, RegisterJourneyAccounts
  <2>3. y = [x EXCEPT !.journeys = journeys]
    BY <1>2 DEF RegisterJourney
  <2>. HIDE DEF migrations, journeys
  <2>4. /\ y.projects = x.projects /\ y.built = x.built /\ y.citizens = x.citizens
        /\ y.foundings = x.foundings /\ y.settled = x.settled /\ y.journeys = journeys
        /\ y.migrations = x.migrations
    BY <1>2, <2>3, TrekFacts DEF IsCivilization, Tables
  <2>. QED
    BY <1>2, <2>1, <2>2, <2>4, SilentGoes
<1>4. Steady(c, e, at) /\ e.projects = d.projects /\ e.citizens = d.citizens
      /\ e.migrations = migrations /\ e.journeys = journeys /\ e.foundings = foundings
      /\ e.settled = d.settled
  <2>0. y.time =< at /\ y.time \in Nat /\ y.time >= y.time /\ KernelOK("linked", y) /\ AccountsOK(y)
    <3>1. Steady(c, y, at)
      BY <1>3
    <3>2. y.time \in Nat /\ KernelOK("linked", y) /\ AccountsOK(y)
      BY <3>1, TrekFacts
    <3>3. y.time =< at
      BY <3>1 DEF Steady
    <3>. QED
      BY <3>2, <3>3
  <2>1. KernelOK("linked", e)
    BY <1>3, TrekFacts, FoundingsKeep
  <2>2. SilentCall(y, e, y.time)
    BY <2>0, PeopleAccount
  <2>3. e = [y EXCEPT !.foundings = foundings]
    BY <1>3 DEF RegisterFounding
  <2>. HIDE DEF migrations, journeys, foundings
  <2>4. /\ e.projects = y.projects /\ e.built = y.built /\ e.citizens = y.citizens
        /\ e.foundings = foundings /\ e.settled = y.settled /\ e.journeys = y.journeys
        /\ e.migrations = y.migrations
    BY <1>3, <2>3, TrekFacts DEF IsCivilization, Tables
  <2>. QED
    BY <1>3, <2>0, <2>1, <2>2, <2>4, SilentGoes
<1>. HIDE DEF migrations, journeys, foundings
<1>5. Party(e, "planned", "proposed")
  BY <1>0, <1>1, <1>4 DEF Party, Gone, Settling, NotGone
<1>. QED
  BY <1>4, <1>5

\* A day of the expedition's, with the party under way.
Treks(c, d, at, march, founding) ==
    IsDay(d) /\ (d.ok => Steady(c, d.civ, at) /\ Party(d.civ, march, founding))

\* The founding follows, or the day fails.
LEMMA AdvanceTreks ==
    ASSUME NEW c, NEW d, NEW at \in Nat, NEW m, NEW f, Treks(c, d, at, m, f), NEW state
    PROVE  Treks(c, Advance(d, state, at), at, m, state)
<1>. DEFINE e == Advance(d, state, at)
            k == d.civ
            can == CanAdvanceFounding(k, Colony, at)
            x == AdvanceFounding(k, Colony, at)
            t == Try(d, can, x)
            holds == d.ok /\ Colony \in DOMAIN k.foundings
                     /\ k.foundings[Colony] \in DOMAIN NextFounding
                     /\ NextFounding[k.foundings[Colony]] = state
<1>1. IsDay(d) /\ (d.ok => Steady(c, k, at) /\ Party(k, m, f))
  BY DEF Treks
<1>2. e = IF holds THEN t ELSE [d EXCEPT !.ok = FALSE]
  BY DEF Advance
<1>3. CASE holds
  <2>1. IsDay(t) /\ (t.ok => can /\ t.civ = x)
    <3>1. IsDay(t) /\ t.ok = (d.ok /\ can) /\ t.civ = (IF d.ok /\ can THEN x ELSE d.civ)
      BY <1>1, TryMakes
    <3>. HIDE DEF t, can, x
    <3>. QED
      BY <3>1
  <2>. HIDE DEF t
  <2>2. k.foundings[Colony] = f /\ NextFounding[f] = state
    BY <1>1, <1>3 DEF Party, Gone
  <2>3. t.ok => Steady(c, x, at) /\ Party(x, m, state)
    <3>1. x = AdvanceFounding(k, Colony, at) /\ Steady(c, k, at) /\ Party(k, m, f)
      BY <1>1, <1>3
    <3>2. t.ok => CanAdvanceFounding(k, Colony, at)
      BY <2>1
    <3>. HIDE DEF NextFounding, x, k
    <3>3. t.ok => Steady(c, x, at) /\ Party(x, m, NextFounding[f])
      BY <3>1, <3>2, AdvanceMoves
    <3>. QED
      BY <2>2, <3>3
  <2>. HIDE DEF x, e
  <2>4. Treks(c, t, at, m, state)
    BY <2>1, <2>3 DEF Treks
  <2>. HIDE DEF holds
  <2>5. Treks(c, e, at, m, state)
    BY <1>2, <1>3, <2>4
  <2>. QED
    BY <2>5 DEF e
<1>4. CASE ~ holds
  <2>. DEFINE n == [d EXCEPT !.ok = FALSE]
  <2>1. IsDay(n) /\ n.ok = FALSE
    <3>1. n = [d EXCEPT !.ok = FALSE]
      OBVIOUS
    <3>. HIDE DEF n
    <3>. QED
      BY <1>1, <3>1 DEF IsDay
  <2>. HIDE DEF n, e, t
  <2>2. Treks(c, n, at, m, state)
    BY <2>1 DEF Treks
  <2>3. Treks(c, e, at, m, state)
    BY <1>2, <1>4, <2>2 DEF n
  <2>. QED
    BY <2>3 DEF e
<1>. QED
  BY <1>3, <1>4

\* The party walks on, and the founding follows when it arrives.
LEMMA WalkOnGoes ==
    ASSUME NEW c, NEW d, NEW at \in Nat, Treks(c, d, at, "travelling", "travelling"),
           NEW e, e = WalkOn(d, at)
    PROVE  /\ IsDay(e)
           /\ e.ok => /\ Steady(c, e.civ, at)
                      /\ \/ Party(e.civ, "travelling", "travelling")
                         \/ Party(e.civ, "arrived", "establishing")
<1>. DEFINE k == d.civ
            can == CanWalk(k, Trek, Traversal, at)
            y == Walk(k, Trek, Traversal, at)
            t == Try(d, can, y)
            l == t.civ
<1>1. IsDay(d) /\ (d.ok => Steady(c, k, at) /\ Party(k, "travelling", "travelling"))
  BY DEF Treks
<1>2. IsDay(t) /\ t.ok = (d.ok /\ can) /\ t.civ = (IF d.ok /\ can THEN y ELSE d.civ)
  BY <1>1, TryMakes
<1>3. e = IF IsTrek(t, {"arrived"}) THEN Advance(t, "establishing", at) ELSE t
  BY DEF WalkOn, Arrive
<1>4. y = Walk(k, Trek, Traversal, at) /\ (can => CanWalk(k, Trek, Traversal, at))
  OBVIOUS
<1>. HIDE DEF t, y, can
<1>5. t.ok => /\ Steady(c, l, at)
              /\ Party(l, "travelling", "travelling") \/ Party(l, "arrived", "travelling")
  <2>1. t.ok => Steady(c, k, at) /\ Party(k, "travelling", "travelling") /\ can /\ l = y
    BY <1>1, <1>2
  <2>. HIDE DEF k, l
  <2>. QED
    BY <1>4, <2>1, WalkMoves
<1>6. CASE IsTrek(t, {"arrived"})
  <2>1. t.ok /\ l.migrations[Trek] = "arrived"
    BY <1>6 DEF IsTrek
  <2>2. Treks(c, t, at, "arrived", "travelling")
    BY <1>2, <1>5, <2>1 DEF Treks, Party, Gone
  <2>3. Treks(c, e, at, "arrived", "establishing")
    BY <1>3, <1>6, <2>2, AdvanceTreks
  <2>. QED
    BY <2>3 DEF Treks
<1>7. CASE ~ IsTrek(t, {"arrived"})
  <2>1. e = t
    BY <1>3, <1>7
  <2>2. t.ok => Party(l, "travelling", "travelling")
    BY <1>5, <1>7 DEF IsTrek, Party, Gone
  <2>. QED
    BY <1>2, <1>5, <2>1, <2>2
<1>. QED
  BY <1>6, <1>7

\* The party that has arrived settles.
LEMMA SettleDownGoes ==
    ASSUME NEW c, NEW d, NEW at \in Nat, Treks(c, d, at, "arrived", "establishing"), d.ok,
           NEW e, e = SettleDown(d, at)
    PROVE  IsDay(e) /\ (e.ok => Steady(c, e.civ, at) /\ There(e.civ))
<1>. DEFINE t == Advance(d, "viable", at)
            k == t.civ
            can == CanSettle(k, Colony, at)
            y == Settle(k, Colony, at)
            u == Try(t, can, y)
<1>1. Treks(c, t, at, "arrived", "viable")
  BY AdvanceTreks
<1>2. e = u
  <2>1. IsEstablishing(d)
    BY DEF Treks, Party, Gone, IsEstablishing
  <2>. QED
    BY <2>1 DEF SettleDown, Materialized
<1>. HIDE DEF t
<1>3. IsDay(t) /\ (t.ok => Steady(c, k, at) /\ Party(k, "arrived", "viable"))
  BY <1>1 DEF Treks
<1>4. IsDay(u) /\ u.ok = (t.ok /\ can) /\ u.civ = (IF t.ok /\ can THEN y ELSE t.civ)
  BY <1>3, TryMakes
<1>5. y = Settle(k, Colony, at) /\ (can => CanSettle(k, Colony, at))
  OBVIOUS
<1>. HIDE DEF u, y, can
<1>6. u.ok => Steady(c, k, at) /\ Party(k, "arrived", "viable") /\ can /\ u.civ = y
  BY <1>3, <1>4
<1>7. u.ok => Steady(c, y, at) /\ There(y)
  <2>. HIDE DEF k
  <2>. QED
    BY <1>5, <1>6, SettleMoves
<1>. QED
  BY <1>2, <1>4, <1>6, <1>7

\* The party that has not begun prepares.
LEMMA PrepareGoes ==
    ASSUME NEW c, NEW d, NEW at \in Nat, IsDay(d), d.ok, Steady(c, d.civ, at), NotGone(d.civ),
           Eligible, Is(d.civ, Kit, {"completed"})
    PROVE  Treks(c, Prepare(d, at), at, "planned", "preparing")
<1>. DEFINE k == d.civ
            can1 == CanRegisterMigration(k, Trek)
            x == RegisterMigration(k, Trek, at)
            d1 == Try(d, can1, x)
            k1 == d1.civ
            can2 == CanRegisterJourney(k1, Trek)
            y == RegisterJourney(k1, Trek)
            d2 == Try(d1, can2, y)
            k2 == d2.civ
            can3 == CanRegisterFounding(k2, Colony)
            z == RegisterFounding(k2, Colony)
            d3 == Try(d2, can3, z)
<1>1. Prepare(d, at) = Advance(d3, "preparing", at)
  BY DEF Prepare, March, Route, Found, NotGone
<1>2. IsDay(d1) /\ d1.ok = (d.ok /\ can1) /\ k1 = (IF d.ok /\ can1 THEN x ELSE d.civ)
  BY TryMakes
<1>3. x = RegisterMigration(k, Trek, at) /\ (can1 => CanRegisterMigration(k, Trek))
  OBVIOUS
<1>. HIDE DEF d1, can1, x
<1>4. IsDay(d2) /\ d2.ok = (d1.ok /\ can2) /\ k2 = (IF d1.ok /\ can2 THEN y ELSE d1.civ)
  BY <1>2, TryMakes
<1>5. y = RegisterJourney(k1, Trek) /\ (can2 => CanRegisterJourney(k1, Trek))
  OBVIOUS
<1>. HIDE DEF d2, can2, y
<1>6. IsDay(d3) /\ d3.ok = (d2.ok /\ can3) /\ d3.civ = (IF d2.ok /\ can3 THEN z ELSE d2.civ)
  BY <1>4, TryMakes
<1>7. z = RegisterFounding(k2, Colony) /\ (can3 => CanRegisterFounding(k2, Colony))
  OBVIOUS
<1>. HIDE DEF d3, can3, z
<1>8. d3.ok => can1 /\ can2 /\ can3 /\ k1 = x /\ k2 = y /\ d3.civ = z
  BY <1>2, <1>4, <1>6
<1>9. Steady(c, k, at) /\ NotGone(k) /\ Done(k.projects, Kit)
  BY DEF Is, Done
<1>. HIDE DEF k, k1, k2
<1>10. d3.ok => Steady(c, z, at) /\ Party(z, "planned", "proposed")
  BY <1>3, <1>5, <1>7, <1>8, <1>9, PrepareMoves
<1>11. Treks(c, d3, at, "planned", "proposed")
  BY <1>6, <1>8, <1>10 DEF Treks
<1>. QED
  BY <1>1, <1>11, AdvanceTreks

\* The party that has prepared departs.
LEMMA DepartGoes ==
    ASSUME NEW c, NEW d, NEW at \in Nat, Treks(c, d, at, "planned", "preparing")
    PROVE  Treks(c, Depart(d, at), at, "travelling", "travelling")
<1>1. CASE d.ok
  <2>. DEFINE k == d.civ
              can == CanDepartMigration(k, Trek, at)
              y == DepartMigration(k, Trek, at)
              t == Try(d, can, y)
  <2>1. IsDay(d) /\ Steady(c, k, at) /\ Party(k, "planned", "preparing")
    BY <1>1 DEF Treks
  <2>2. IsDay(t) /\ t.ok = (d.ok /\ can) /\ t.civ = (IF d.ok /\ can THEN y ELSE d.civ)
    BY <2>1, TryMakes
  <2>3. y = DepartMigration(k, Trek, at) /\ (can => CanDepartMigration(k, Trek, at))
    OBVIOUS
  <2>4. Depart(d, at) = Advance(t, "travelling", at)
    BY <1>1, <2>1 DEF Depart, IsTrek, Party, Gone
  <2>. HIDE DEF t, y, can
  <2>5. t.ok => can /\ t.civ = y
    BY <2>2
  <2>6. t.ok => Steady(c, y, at) /\ Party(y, "travelling", "preparing")
    <3>. HIDE DEF k
    <3>. QED
      BY <2>1, <2>3, <2>5, DepartMoves
  <2>7. Treks(c, t, at, "travelling", "preparing")
    BY <2>2, <2>5, <2>6 DEF Treks
  <2>. QED
    BY <2>4, <2>7, AdvanceTreks
<1>2. CASE ~ d.ok
  BY <1>2 DEF Depart, IsTrek, Treks
<1>. QED
  BY <1>1, <1>2

\* A day of the expedition's that does not fail leaves it whole; what is settled stays.
LEMMA ExpeditionGoes ==
    ASSUME NEW c, NEW d, NEW at \in Nat, IsDay(d), d.ok, Steady(c, d.civ, at), Trekked(d.civ),
           NEW e, e = Expedition(d, at)
    PROVE  /\ IsDay(e)
           /\ e.ok => /\ Steady(c, e.civ, at) /\ Trekked(e.civ)
                      /\ Colony \in d.civ.settled => Colony \in e.civ.settled
<1>. DEFINE k == d.civ
<1>1. CASE OnTheRoad(k)
  <2>. DEFINE t == WalkOn(d, at)
  <2>1. IsTrek(d, {"travelling"}) /\ Treks(c, d, at, "travelling", "travelling")
    BY <1>1 DEF OnTheRoad, Gone, IsTrek, Treks, Party
  <2>2. e = SettleDown(t, at)
    BY <2>1 DEF Expedition
  <2>3. /\ IsDay(t)
        /\ t.ok => /\ Steady(c, t.civ, at)
                   /\ Party(t.civ, "travelling", "travelling")
                      \/ Party(t.civ, "arrived", "establishing")
    BY <2>1, WalkOnGoes
  <2>4. Colony \notin k.settled
    BY <1>1 DEF OnTheRoad
  <2>. HIDE DEF t
  <2>5. CASE t.ok /\ Party(t.civ, "arrived", "establishing")
    <3>1. Treks(c, t, at, "arrived", "establishing")
      BY <2>3, <2>5 DEF Treks
    <3>2. IsDay(e) /\ (e.ok => Steady(c, e.civ, at) /\ There(e.civ))
      BY <2>2, <2>5, <3>1, SettleDownGoes
    <3>. QED
      BY <2>4, <3>2 DEF Trekked
  <2>6. CASE ~ (t.ok /\ Party(t.civ, "arrived", "establishing"))
    <3>1. t.ok => Party(t.civ, "travelling", "travelling")
      BY <2>3, <2>6
    <3>2. e = t
      BY <2>2, <3>1 DEF SettleDown, IsEstablishing, Party, Gone
    <3>3. t.ok => OnTheRoad(t.civ)
      BY <3>1 DEF Party, OnTheRoad
    <3>. QED
      BY <2>3, <2>4, <3>2, <3>3 DEF Trekked
  <2>. QED
    BY <2>5, <2>6
<1>2. CASE There(k)
  <2>1. e = d
    BY <1>2 DEF There, Gone, Expedition, IsTrek, Prepare, Depart, SettleDown, IsEstablishing
  <2>. QED
    BY <2>1
<1>3. CASE NotGone(k)
  <2>. DEFINE t == Depart(Prepare(d, at), at)
  <2>1. ~ IsTrek(d, {"travelling"}) /\ Colony \notin k.settled
    BY <1>3, TrekFacts DEF NotGone, IsTrek
  <2>2. e = SettleDown(t, at)
    BY <2>1 DEF Expedition
  <2>3. CASE Eligible /\ Is(k, Kit, {"completed"})
    <3>1. Treks(c, t, at, "travelling", "travelling")
      BY <1>3, <2>3, PrepareGoes, DepartGoes
    <3>. HIDE DEF t
    <3>2. IsDay(t) /\ (t.ok => Steady(c, t.civ, at) /\ Party(t.civ, "travelling", "travelling"))
      BY <3>1 DEF Treks
    <3>3. e = t
      BY <2>2, <3>2 DEF SettleDown, IsEstablishing, Party, Gone
    <3>4. t.ok => OnTheRoad(t.civ)
      BY <3>2 DEF Party, OnTheRoad
    <3>. QED
      BY <2>1, <3>2, <3>3, <3>4 DEF Trekked
  <2>4. CASE ~ (Eligible /\ Is(k, Kit, {"completed"}))
    <3>1. t = d
      BY <1>3, <2>4 DEF Prepare, Depart, IsTrek, NotGone
    <3>2. e = d
      BY <1>3, <2>2, <3>1 DEF SettleDown, IsEstablishing, NotGone
    <3>. QED
      BY <3>2
  <2>. QED
    BY <2>3, <2>4
<1>. QED
  BY <1>1, <1>2, <1>3 DEF Trekked

-----------------------------------------------------------------------------
(* What the world begins with *)

\* The people of the world, before anything is registered.
LEMMA PeopledIsSound ==
    /\ Sound(Peopled) /\ Peopled.time = 0 /\ NotGone(Peopled)
    /\ Peopled.stocks = <<>> /\ Peopled.projects = <<>> /\ Peopled.settlements = {Origin}
    /\ DOMAIN Peopled.households = DOMAIN Homes
<1>. DEFINE b == Peopled
            homes == [h \in DOMAIN Homes |-> [settlement |-> Origin, members |-> Homes[h]]]
            people == [p \in Citizens |-> [residence |-> "resident", household |-> HomeOf(p),
                                           settlement |-> Origin]]
<1>1. /\ b.time = 0 /\ b.stocks = <<>> /\ b.processes = <<>> /\ b.projects = <<>>
      /\ b.citizens = people /\ b.households = homes
      /\ b.migrations = <<>> /\ b.departures = <<>> /\ b.journeys = <<>> /\ b.foundings = <<>>
      /\ b.settled = {} /\ b.settlements = {Origin} /\ b.kinds = GenesisKinds /\ b.built = <<>>
      /\ b.base.stocks = <<>> /\ b.base.consumed = ZeroBooks
      /\ b.ledger = <<>> /\ b.outcomes = {}
  BY DEF Peopled
<1>2. IsCivilization(b)
  BY DEF Peopled, IsCivilization, Tables
<1>. HIDE DEF b
<1>3. DOMAIN <<>> = {} /\ <<>> = [x \in {} |-> <<>>[x]]
  OBVIOUS
<1>4. /\ Origin \in Settlements /\ GenesisKinds \in [Sites -> SUBSET Kinds]
      /\ None \notin Households /\ DOMAIN Homes \subseteq Households
      /\ \A h \in DOMAIN Homes : Homes[h] # {} /\ Homes[h] \subseteq Citizens
      /\ \A h, k \in DOMAIN Homes : h # k => Homes[h] \cap Homes[k] = {}
  BY DayAssumption DEF GenesisAccepted
<1>5. ASSUME NEW p \in Citizens
      PROVE  /\ HomeOf(p) # None => HomeOf(p) \in DOMAIN Homes /\ p \in Homes[HomeOf(p)]
             /\ \A h \in DOMAIN Homes : p \in Homes[h] => HomeOf(p) = h
             /\ HomeOf(p) \in Households \cup {None}
  <2>1. CASE \E h \in DOMAIN Homes : p \in Homes[h]
    <3>1. HomeOf(p) \in DOMAIN Homes /\ p \in Homes[HomeOf(p)]
      BY <2>1 DEF HomeOf
    <3>. QED
      BY <1>4, <3>1
  <2>2. CASE ~ \E h \in DOMAIN Homes : p \in Homes[h]
    BY <2>2 DEF HomeOf
  <2>. QED
    BY <2>1, <2>2
<1>6. HomesOK("linked", people, homes, {Origin})
  <2>1. people \in [Citizens -> People]
    BY <1>4, <1>5 DEF People
  <2>2. ASSUME NEW p \in Citizens PROVE Lives("linked", people, homes, {Origin}, p)
    BY <1>5 DEF Lives
  <2>3. ASSUME NEW h \in DOMAIN homes PROVE Household("linked", people, homes, h)
    BY <1>4, <1>5 DEF Household
  <2>. QED
    BY <1>4, <2>1, <2>2, <2>3 DEF HomesOK
<1>7. \A p \in Citizens : people[p].residence = "resident"
  OBVIOUS
<1>8. DOMAIN homes = DOMAIN Homes
  OBVIOUS
<1>. HIDE DEF people, homes
<1>9. Journeys("linked", b.citizens, b.migrations, b.settled)
  BY <1>1, <1>3, <1>7 DEF Journeys
<1>10. Colonies(b.migrations, b.foundings, b.settled, b.projects, b.settlements)
  BY <1>1, <1>3 DEF Colonies
<1>11. Books(b.projects) /\ Buildings(b.built, b.kinds, b.projects)
  BY <1>1, <1>3, <1>4 DEF Books, Buildings
<1>12. KernelOK("linked", b)
  BY <1>1, <1>2, <1>3, <1>6, <1>9, <1>10, <1>11 DEF KernelOK
<1>13. Shelves(b.stocks)
  BY <1>1, <1>3 DEF Shelves
<1>14. Running(b.stocks, b.processes) /\ Walks(b.migrations, b.journeys)
  BY <1>1, <1>3, FS_EmptySet DEF Running, Walks
<1>15. Uses(b.projects, b.base, b.ledger)
  <2>1. \A p \in Projects : \A g \in Resources : ConsumedIn(<<>>, p)[g] = 0
    BY NothingConsumed
  <2>2. /\ ZeroBooks \in [Projects -> [Resources -> Int]]
        /\ \A p \in Projects : \A g \in Resources : ZeroBooks[p][g] = 0
    BY DEF ZeroBooks
  <2>. QED
    BY <1>1, <1>3, <2>1, <2>2 DEF Uses
<1>16. Ledger(b.time, b.stocks, b.base, b.ledger)
  <2>1. <<>> \in Seq(Entries)
    OBVIOUS
  <2>. QED
    BY <1>1, <1>3, <2>1 DEF Ledger
<1>17. Meals(b.time, b.ledger, b.outcomes)
  BY <1>1, <1>3 DEF Meals
<1>18. Sound(b)
  BY <1>1, <1>3, <1>12, <1>13, <1>14, <1>15, <1>16, <1>17 DEF Sound, AccountsOK, BuiltUp
<1>19. NotGone(b)
  <2>1. Settlers(Colony) \subseteq Citizens
    BY DayAssumption DEF DaysAccepted, Settlers
  <2>. QED
    BY <1>1, <1>3, <1>7, <2>1 DEF NotGone, Settling
<1>. QED
  BY <1>1, <1>8, <1>18, <1>19 DEF b

\* The kit's project, when there is to be an expedition.
LEMMA PlannedIsSound ==
    /\ CallOK(Peopled, Planned, 0) /\ DOMAIN Planned.stocks = {}
    /\ Eligible => Kit \in DOMAIN Planned.projects
<1>. DEFINE c == Peopled
            e == RegisterProject(c, Kit)
<1>1. Sound(c) /\ c.time = 0 /\ c.stocks = <<>> /\ c.projects = <<>> /\ c.settlements = {Origin}
  BY PeopledIsSound
<1>2. IsCivilization(c)
  BY <1>1, SoundFacts
<1>3. DOMAIN <<>> = {}
  OBVIOUS
<1>. HIDE DEF c
<1>4. CASE Eligible
  <2>1. Kit \in Projects /\ CanRegisterProject(c, Kit)
    BY <1>1, <1>3, <1>4, DayAssumption DEF GenesisAccepted, CanRegisterProject
  <2>2. CallOK(c, e, 0)
    BY <1>1, <2>1, DraftCall
  <2>3. e.stocks = c.stocks /\ Kit \in DOMAIN e.projects
    BY <1>2 DEF RegisterProject, With, IsCivilization, Tables
  <2>4. Planned = e
    BY <1>4 DEF Planned, c
  <2>. QED
    BY <1>1, <1>3, <2>2, <2>3, <2>4 DEF c
<1>5. CASE ~ Eligible
  <2>1. Planned = c
    BY <1>5 DEF Planned, c
  <2>2. CallOK(c, c, 0)
    BY <1>1 DEF CallOK, Onward, SamePeople, NothingUndone
  <2>. QED
    BY <1>1, <1>3, <1>5, <2>1, <2>2 DEF c
<1>. QED
  BY <1>4, <1>5

\* What the bootstrap has come to after some of the stocks.
SomeStocked(c, i) ==
    /\ CallOK(Peopled, c, 0) /\ (Eligible => Kit \in DOMAIN c.projects)
    /\ \A s \in DOMAIN c.stocks : \E k \in 1..i : s = StockOrder[k]
    /\ \A k \in 1..i : StockOrder[k] \in DOMAIN GenesisStocks => StockOrder[k] \in DOMAIN c.stocks

\* One more of them.
LEMMA StockedFirstGoes ==
    ASSUME NEW i \in 1..Len(StockOrder), NEW c, SomeStocked(c, i - 1)
    PROVE  SomeStocked(StockedFirst(c, StockOrder[i]), i)
<1>. DEFINE s == StockOrder[i]
            q == GenesisStocks[s]
            e == RegisterStock(c, s, q, 0)
<1>1. /\ StockOrder \in Seq(Stocks) /\ \A k, l \in 1..Len(StockOrder) :
             StockOrder[k] = StockOrder[l] => k = l
  BY CatalogueAssumption DEF ValidCatalogue, IsInjective
<1>2. s \in Stocks /\ Len(StockOrder) \in Nat
  BY <1>1
<1>3. s \notin DOMAIN c.stocks
  BY <1>1, <1>2 DEF SomeStocked
<1>4. CASE s \in DOMAIN GenesisStocks
  <2>1. Sound(c) /\ c.time =< 0 /\ Onward(Peopled, c)
    BY DEF SomeStocked, CallOK
  <2>2. IsCivilization(c) /\ AccountsOK(c) /\ c.time \in Nat /\ DOMAIN c.stocks \subseteq Stocks
    BY <2>1, SoundFacts
  <2>3. c.settlements = {Origin} /\ DOMAIN c.households = DOMAIN Homes
    BY <2>1, PeopledIsSound DEF Onward, SamePeople
  <2>4. q \in StockInfo[s].reserved..StockInfo[s].capacity /\ q \in Nat
    BY <1>2, <1>4, DayAssumption, CatalogueAssumption DEF GenesisAccepted, ValidCatalogue
  <2>5. CanRegisterStock(c, s, q, 0)
    <3>1. /\ StockInfo[s].owner[1] = "settlement" => StockInfo[s].owner[2] = Origin
          /\ StockInfo[s].owner[1] = "household" => StockInfo[s].owner[2] \in DOMAIN Homes
          /\ StockInfo[s].owner[1] = "project" => Eligible /\ StockInfo[s].owner[2] = Kit
      BY <1>4, DayAssumption DEF GenesisAccepted
    <3>2. Eligible => Kit \in DOMAIN c.projects
      BY DEF SomeStocked
    <3>3. StockInfo[s].reserved =< q /\ q =< StockInfo[s].capacity /\ 0 >= c.time
      BY <2>1, <2>2, <2>4, <1>2, CatalogueAssumption DEF ValidCatalogue
    <3>. HIDE DEF s, q
    <3>. QED
      BY <1>3, <2>3, <3>1, <3>2, <3>3 DEF CanRegisterStock
  <2>6. CallOK(c, e, 0)
    BY <1>2, <2>1, <2>4, <2>5, MatterCalls
  <2>7. Did(c, e, 0, MovedBy(With(c.stocks, s, 0), [x \in {s} |-> q]), c.processes)
    BY <1>2, <2>2, <2>4, <2>5, RegisterStockAccounts
  <2>8. StockedFirst(c, s) = e
    BY <1>4 DEF StockedFirst
  <2>. HIDE DEF e, q
  <2>9. DOMAIN e.stocks = DOMAIN c.stocks \cup {s}
    BY <2>7 DEF Did, MovedBy, With
  <2>10. CallOK(Peopled, e, 0)
    BY <2>1, <2>6, OnwardGoesOn DEF CallOK
  <2>11. Eligible => Kit \in DOMAIN e.projects
    BY <2>6 DEF SomeStocked, CallOK, Onward, NothingUndone
  <2>12. \A x \in DOMAIN e.stocks : \E k \in 1..i : x = StockOrder[k]
    BY <1>2, <2>9 DEF SomeStocked
  <2>13. \A k \in 1..i : StockOrder[k] \in DOMAIN GenesisStocks => StockOrder[k] \in DOMAIN e.stocks
    BY <1>2, <2>9 DEF SomeStocked
  <2>. QED
    BY <2>8, <2>10, <2>11, <2>12, <2>13 DEF SomeStocked
<1>5. CASE s \notin DOMAIN GenesisStocks
  <2>1. StockedFirst(c, s) = c
    BY <1>5 DEF StockedFirst
  <2>. QED
    BY <1>2, <1>5, <2>1 DEF SomeStocked
<1>. QED
  BY <1>4, <1>5

\* All of them: the world begins in order, with the stocks of the policy.
LEMMA BootstrapIsSound ==
    /\ Sound(Bootstrap) /\ Bootstrap.time = 0 /\ NotGone(Bootstrap) /\ Bootstrap.settled = {}
    /\ DOMAIN GenesisStocks \subseteq DOMAIN Bootstrap.stocks
<1>0. Len(StockOrder) \in Nat /\ StockOrder \in Seq(Stocks) /\ Range(StockOrder) = Stocks
  BY CatalogueAssumption DEF ValidCatalogue
<1>1. PICK run : /\ Bootstrap = run[Len(StockOrder)] /\ run[0] = Planned
                 /\ \A i \in 1..Len(StockOrder) :
                       run[i] = StockedFirst(run[i - 1], StockOrder[i])
  BY <1>0, BootstrapRuns
<1>. DEFINE N == Len(StockOrder)
            S == {i \in 0..N : SomeStocked(run[i], i)}
<1>2. 0 \in S
  BY <1>0, <1>1, PlannedIsSound DEF SomeStocked
<1>3. ASSUME NEW i \in 1..N, i - 1 \in S
      PROVE  i \in S
  <2>. DEFINE old == run[i - 1]
              new == run[i]
  <2>1. SomeStocked(old, i - 1) /\ i \in 0..N /\ new = StockedFirst(old, StockOrder[i])
    BY <1>0, <1>1, <1>3
  <2>. HIDE DEF old, new
  <2>2. SomeStocked(new, i)
    BY <2>1, StockedFirstGoes
  <2>. QED
    BY <2>1, <2>2 DEF new
<1>. HIDE DEF S
<1>4. 0..N \subseteq S
  BY <1>0, <1>2, <1>3, Induct
<1>5. N \in S
  BY <1>0, <1>4
<1>. DEFINE b == Bootstrap
<1>6. SomeStocked(b, N)
  BY <1>1, <1>5 DEF S
<1>. HIDE DEF b
<1>7. Sound(b) /\ b.time =< 0 /\ Onward(Peopled, b)
  BY <1>6 DEF SomeStocked, CallOK
<1>8. b.time = 0
  BY <1>7, SoundFacts
<1>9. NotGone(b) /\ b.settled = {}
  <2>1. NotGone(Peopled) /\ Peopled.settled = {}
    BY PeopledIsSound DEF Peopled
  <2>. QED
    BY <1>7, <2>1 DEF NotGone, Settling, Onward, SamePeople
<1>10. DOMAIN GenesisStocks \subseteq DOMAIN b.stocks
  <2>1. DOMAIN GenesisStocks \subseteq Stocks
    BY DayAssumption DEF GenesisAccepted
  <2>2. ASSUME NEW s \in Stocks PROVE \E k \in 1..N : s = StockOrder[k]
    BY <1>0 DEF Range
  <2>. QED
    BY <1>6, <2>1, <2>2 DEF SomeStocked
<1>. QED
  BY <1>7, <1>8, <1>9, <1>10 DEF b

-----------------------------------------------------------------------------
(* The invariant of the days *)

\* A world between two calls of a day: in order, with the stocks of the policy,
\* and its expedition whole.
IsWorld(c) ==
    /\ Sound(c) /\ c.time \in 0..Horizon
    /\ DOMAIN GenesisStocks \subseteq DOMAIN c.stocks /\ Trekked(c)
SettledAt(where, c) ==
    \A p \in Settlers(Colony) : (where[p] = SettlersSite) = (Colony \in c.settled)

IsMind(m) ==
    /\ m = [plan |-> m.plan, replans |-> m.replans, heard |-> m.heard]
    /\ m.replans \in 0..2 /\ m.heard \in Citizens \cup {None}
AreMinds(all) == all = [p \in Citizens |-> all[p]] /\ \A p \in Citizens : IsMind(all[p])
WithinCapacity(w) == \A p \in Citizens : w.taken[p] =< w.given[p]

\* What of a day may be kept.
Keepable(c, where, all, met, w) ==
    /\ IsWorld(c) /\ SettledAt(where, c) /\ AreMinds(all)
    /\ met \in [Citizens -> 0..Horizon] /\ WithinCapacity(w)

Deciding(c, stage, made) ==
    /\ stage = "deciding" => c.time < Horizon
    /\ \A p \in DOMAIN made : IsMind(made[p].mind)

\* No day and no boundary has been lost to the audit.
AuditStands == failure # "audit" /\ refused # "audit"

DayInv ==
    /\ Gateway /\ AuditStands
    /\ Keepable(civ, site, minds, last, worked) /\ Deciding(civ, phase, decided)

\* The minds of a day.
LEMMA MindsStay ==
    ASSUME NEW m, IsMind(m)
    PROVE  /\ \A routine : IsMind(Renewed(m, routine))
           /\ \A option : HasBudget(m, option) => IsMind(Chosen(m, option))
           /\ \A p, pairs : IsMind(Hears(m, p, pairs))
<1>1. ASSUME NEW routine PROVE IsMind(Renewed(m, routine))
  <2>. DEFINE n == [m EXCEPT !.plan = routine]
  <2>1. n = [plan |-> routine, replans |-> m.replans, heard |-> m.heard]
    BY DEF IsMind
  <2>2. Renewed(m, routine) = [n EXCEPT !.replans = 2]
    BY DEF Renewed
  <2>. HIDE DEF n
  <2>3. Renewed(m, routine) = [plan |-> routine, replans |-> 2, heard |-> m.heard]
    BY <2>1, <2>2
  <2>. QED
    BY <2>3 DEF IsMind
<1>2. ASSUME NEW option, HasBudget(m, option) PROVE IsMind(Chosen(m, option))
  <2>1. CASE option[1] = "follow"
    BY <2>1 DEF Chosen
  <2>2. CASE option[1] # "follow"
    <3>1. Chosen(m, option) = [plan |-> option[2], replans |-> m.replans - 1, heard |-> m.heard]
      BY <2>2 DEF Chosen, IsMind
    <3>2. m.replans \in 0..2 /\ m.replans > 0
      BY <1>2, <2>2 DEF HasBudget, IsMind
    <3>. QED
      BY <3>1, <3>2 DEF IsMind
  <2>. QED
    BY <2>1, <2>2
<1>3. ASSUME NEW p, NEW pairs PROVE IsMind(Hears(m, p, pairs))
  <2>. DEFINE Place(q) == CHOOSE i \in DOMAIN CitizenOrder : CitizenOrder[i] = q
              speakers == {q \in Citizens : {p, q} \in pairs /\ Place(q) < Place(p)}
              one == CHOOSE q \in speakers : TRUE
  <2>1. Hears(m, p, pairs) =
           IF speakers # {} /\ m.heard = None THEN [m EXCEPT !.heard = one] ELSE m
    BY DEF Hears
  <2>2. speakers # {} => one \in Citizens
    OBVIOUS
  <2>. HIDE DEF speakers, one
  <2>3. [m EXCEPT !.heard = one] = [plan |-> m.plan, replans |-> m.replans, heard |-> one]
    BY DEF IsMind
  <2>. QED
    BY <2>1, <2>2, <2>3 DEF IsMind
<1>. QED
  BY <1>1, <1>2, <1>3

\* A day that is thrown away leaves the world as it is.
LEMMA LostIsKept ==
    ASSUME Keepable(civ, site, minds, last, worked), NEW why, why # "audit", NEW day, day = Lost(why)
    PROVE  /\ Keepable(day.civ, day.site, day.minds, day.last, day.worked)
           /\ day.failure # "audit"
BY DEF Lost

\* A day whose accounts are closed: the settlers are where they have settled, and
\* everyone's mind and labor are in order.
LEMMA KeptIsKept ==
    ASSUME Keepable(civ, site, minds, last, worked), Deciding(civ, phase, decided), Waiting = {},
           NEW c, IsWorld(c), Colony \in civ.settled => Colony \in c.settled,
           NEW scheduled, LaborOK(scheduled.labor, scheduled.worked, AvailableLabor(civ)),
           NEW policy, NEW routines, NEW day, day = Closed(c, scheduled, policy, routines)
    PROVE  /\ Keepable(day.civ, day.site, day.minds, day.last, day.worked)
           /\ day.failure # "audit"
<1>. DEFINE where == [p \in Citizens |-> IF Colony \in c.settled /\ p \in Settlers(Colony)
                                         THEN SettlersSite ELSE site[p]]
            pairs == Talks(c, where, Paired(scheduled, routines, site, last, c.time, Cooldown))
            Before(p) == IF c.time >= 2
                         THEN Renewed(decided[p].mind, PlannedRoutine(scheduled.civ, policy, p))
                         ELSE decided[p].mind
            all == [p \in Citizens |-> Hears(Before(p), p, pairs)]
            met == [p \in Citizens |-> IF \E pair \in pairs : p \in pair THEN c.time ELSE last[p]]
            w == [given |-> AvailableLabor(civ), taken |-> scheduled.worked]
<1>1. day = [failure |-> None, civ |-> c, site |-> where, minds |-> all, last |-> met, worked |-> w]
  BY DEF Closed, Kept
<1>2. SettledAt(where, c)
  <2>1. Settlers(Colony) \subseteq Citizens
    BY DayAssumption DEF DaysAccepted, Settlers
  <2>. QED
    BY <2>1 DEF SettledAt, Keepable
<1>3. AreMinds(all)
  <2>1. ASSUME NEW p \in Citizens PROVE IsMind(all[p])
    <3>1. IsMind(decided[p].mind)
      BY DEF Waiting, Deciding
    <3>2. IsMind(Before(p))
      BY <3>1, MindsStay
    <3>. HIDE DEF Before, pairs
    <3>3. IsMind(Hears(Before(p), p, pairs))
      BY <3>2, MindsStay
    <3>. QED
      BY <3>3
  <2>. HIDE DEF pairs, Before
  <2>. QED
    BY <2>1 DEF AreMinds
<1>4. met \in [Citizens -> 0..Horizon]
  <2>1. c.time \in 0..Horizon /\ last \in [Citizens -> 0..Horizon]
    BY DEF IsWorld, Keepable
  <2>. HIDE DEF pairs
  <2>. QED
    BY <2>1
<1>5. WithinCapacity(w)
  BY DEF LaborOK, WithinCapacity
<1>. HIDE DEF where, pairs, all, met, w
<1>6. None # "audit"
  BY DayAssumption DEF DaysAccepted
<1>. QED
  BY <1>1, <1>2, <1>3, <1>4, <1>5, <1>6 DEF Keepable

\* The scheduler's day on a world, from the day's own opening or from a boundary.
LEMMA WorldGoesOn ==
    ASSUME NEW c, Sound(c), Trekked(c), DOMAIN GenesisStocks \subseteq DOMAIN c.stocks,
           c.time + 1 \in 1..Horizon,
           NEW policy, NEW decisions, NEW d, d = AdvanceScheduler(c, policy, decisions), d.ok
    PROVE  /\ IsWorld(d.civ) /\ d.civ.time = c.time + 1 /\ d.civ.settled = c.settled
           /\ IsDay(d) /\ LaborOK(d.labor, d.worked, AvailableLabor(c))
<1>1. DayOK(c, AvailableLabor(c), c.time + 1, d) /\ d.civ.time = c.time + 1
  BY SchedulerGoes
<1>2. IsDay(d) /\ Sound(d.civ) /\ Onward(c, d.civ) /\ LaborOK(d.labor, d.worked, AvailableLabor(c))
  BY <1>1 DEF DayOK, Goes, CallOK
<1>3. Trekked(d.civ)
  BY <1>2, TrekWaits
<1>4. d.civ.settled = c.settled /\ DOMAIN c.stocks \subseteq DOMAIN d.civ.stocks
  BY <1>2 DEF Onward, SamePeople, NothingUndone
<1>5. d.civ.time \in 0..Horizon
  <2>1. Horizon \in Nat
    BY DayAssumption DEF DaysAccepted
  <2>. QED
    BY <1>1, <2>1
<1>. QED
  BY <1>1, <1>2, <1>3, <1>4, <1>5 DEF IsWorld

\* The day, as the code computes it: what it originates, what the scheduler does,
\* the expedition, the audit, which always passes, and the closing.
LEMMA DayIsKept ==
    ASSUME Keepable(civ, site, minds, last, worked), Deciding(civ, phase, decided),
           phase = "deciding", Waiting = {}, NEW day, day = Day
    PROVE  /\ Keepable(day.civ, day.site, day.minds, day.last, day.worked)
           /\ day.failure # "audit"
<1>. DEFINE Fine(x) == /\ Keepable(x.civ, x.site, x.minds, x.last, x.worked)
                       /\ x.failure # "audit"
            originated == Originations(Begin(civ))
            policy == Policy(originated.civ)
            routines == [p \in Citizens |-> decided[p].routine]
            scheduled == AdvanceScheduler(originated.civ, policy, routines)
            moved == Expedition(scheduled, civ.time + 1)
            closed == Checkpoint(moved.civ)
<1>1. ASSUME NEW why, why # "audit", day = Lost(why) PROVE Fine(day)
  BY <1>1, LostIsKept
<1>2. /\ Sound(civ) /\ civ.time \in Nat /\ civ.time < Horizon /\ Horizon \in Nat /\ Trekked(civ)
      /\ DOMAIN GenesisStocks \subseteq DOMAIN civ.stocks
  BY DayAssumption DEF DaysAccepted, Keepable, IsWorld, Deciding
<1>3. CASE ~ originated.ok
  <2>1. day = Lost("originate")
    BY <1>3 DEF Day
  <2>. QED
    BY <1>1, <2>1
<1>4. CASE originated.ok
  <2>. DEFINE a == originated.civ
  <2>1. DayOK(civ, AvailableLabor(civ), civ.time, originated)
    BY <1>2, BeginGoes, OriginationsGo
  <2>2. day = Decided(originated, policy, routines)
    BY <1>4 DEF Day
  <2>. HIDE DEF originated, policy, routines
  <2>3. Sound(a) /\ a.time =< civ.time /\ Onward(civ, a) /\ a.time \in Nat
    BY <1>4, <2>1, SoundFacts DEF DayOK, Goes, CallOK
  <2>4. Trekked(a) /\ a.settled = civ.settled /\ DOMAIN GenesisStocks \subseteq DOMAIN a.stocks
    BY <1>2, <2>3, TrekWaits DEF Onward, SamePeople, NothingUndone
  <2>5. AvailableLabor(a) = AvailableLabor(civ)
    BY <2>3 DEF Onward, SamePeople, AvailableLabor
  <2>6. a.time + 1 \in 1..Horizon
    BY <1>2, <2>3
  <2>7. \/ day = Scheduled(scheduled, policy, routines)
        \/ \E why \in {"heed", "decision"} : day = Lost(why)
    BY <2>2 DEF Decided
  <2>8. CASE \E why \in {"heed", "decision"} : day = Lost(why)
    BY <1>1, <2>8
  <2>9. CASE day = Scheduled(scheduled, policy, routines) /\ ~ scheduled.ok
    <3>1. day = Lost("scheduler")
      BY <2>9 DEF Scheduled
    <3>. QED
      BY <1>1, <3>1
  <2>10. CASE day = Scheduled(scheduled, policy, routines) /\ scheduled.ok
    <3>. DEFINE b == scheduled.civ
    <3>1. /\ IsWorld(b) /\ b.time = a.time + 1 /\ b.settled = a.settled
          /\ IsDay(scheduled) /\ LaborOK(scheduled.labor, scheduled.worked, AvailableLabor(civ))
      BY <2>3, <2>4, <2>5, <2>6, <2>10, WorldGoesOn
    <3>2. day = Audited(moved, scheduled, policy, routines)
      BY <2>10 DEF Scheduled
    <3>. HIDE DEF scheduled
    <3>3. /\ IsDay(moved)
          /\ moved.ok => /\ Steady(b, moved.civ, civ.time + 1) /\ Trekked(moved.civ)
                         /\ Colony \in b.settled => Colony \in moved.civ.settled
      <4>1. civ.time + 1 \in Nat /\ Steady(b, b, civ.time + 1) /\ Trekked(b)
        BY <1>2, <2>3, <3>1 DEF Steady, IsWorld
      <4>. QED
        BY <2>10, <3>1, <4>1, ExpeditionGoes
    <3>. HIDE DEF moved
    <3>4. CASE ~ moved.ok
      <4>1. day = Lost("expedition")
        BY <3>2, <3>4 DEF Audited
      <4>. QED
        BY <1>1, <4>1
    <3>5. CASE moved.ok
      <4>. DEFINE k == moved.civ
      <4>1. Sound(k) /\ k.time =< civ.time + 1 /\ k.stocks = b.stocks /\ Trekked(k)
        BY <3>3, <3>5 DEF Steady
      <4>2. day = Closed(closed, scheduled, policy, routines)
        BY <3>2, <3>5, <4>1, SoundPasses DEF Audited
      <4>3. Sound(closed) /\ closed.time = k.time /\ SameTables(k, closed)
        BY <4>1, CheckpointGoes
      <4>4. Colony \in civ.settled => Colony \in k.settled
        BY <2>4, <3>1, <3>3, <3>5
      <4>. HIDE DEF closed, k
      <4>5. Trekked(closed)
        BY <4>1, <4>3, TrekWaits
      <4>6. k.time \in Nat
        BY <4>1, SoundFacts
      <4>7. closed.time \in 0..Horizon
        BY <1>2, <4>1, <4>3, <4>6
      <4>8. DOMAIN GenesisStocks \subseteq DOMAIN closed.stocks
        BY <3>1, <4>1, <4>3 DEF IsWorld, SameTables
      <4>9. IsWorld(closed)
        BY <4>3, <4>5, <4>7, <4>8 DEF IsWorld
      <4>10. Colony \in civ.settled => Colony \in closed.settled
        BY <4>3, <4>4 DEF SameTables
      <4>. QED
        BY <3>1, <4>2, <4>9, <4>10, KeptIsKept
    <3>. QED
      BY <3>4, <3>5
  <2>. QED
    BY <2>7, <2>8, <2>9, <2>10
<1>. QED
  BY <1>3, <1>4

\* A boundary is a day of the scheduler: the audit never stands against it, and
\* what it keeps is a world.
LEMMA BoundaryGoes ==
    ASSUME IsWorld(civ), SettledAt(site, civ), civ.time < Horizon, NEW routine
    PROVE  /\ Refusal(routine) # "audit"
           /\ Refusal(routine) = None =>
                 /\ IsWorld(Scheduler(routine).civ) /\ SettledAt(site, Scheduler(routine).civ)
                 /\ WithinCapacity([given |-> AvailableLabor(civ),
                                    taken |-> Scheduler(routine).worked])
<1>. DEFINE d == Scheduler(routine)
            w == [given |-> AvailableLabor(civ), taken |-> d.worked]
<1>1. /\ Sound(civ) /\ Trekked(civ) /\ DOMAIN GenesisStocks \subseteq DOMAIN civ.stocks
      /\ civ.time + 1 \in 1..Horizon
  BY DayAssumption DEF IsWorld, DaysAccepted
<1>2. d.ok => /\ IsWorld(d.civ) /\ d.civ.settled = civ.settled
              /\ LaborOK(d.labor, d.worked, AvailableLabor(civ))
  BY <1>1, WorldGoesOn DEF Scheduler
<1>3. d.ok => Audit(d.civ)
  BY <1>2, SoundPasses DEF IsWorld
<1>4. \/ Refusal(routine) \in {"expired", "project", "decision", "scheduler"}
      \/ d.ok /\ Refusal(routine) \in {"away", None}
  <2>. DEFINE legal == LegalDecision(civ, site, BoundaryPolicy, Focal, routine[1], routine[2])
              wrong == IF routine[1] = "construct" /\ routine[2] # Kit THEN "project" ELSE "decision"
  <2>1. Refusal(routine) = IF plan.expiry < civ.time THEN "expired"
                           ELSE IF ~ legal THEN wrong
                           ELSE IF ~ d.ok THEN "scheduler"
                           ELSE IF ~ Audit(d.civ) THEN "audit"
                           ELSE IF ~ Fed(d) THEN "away"
                           ELSE None
    BY DEF Refusal
  <2>2. wrong \in {"project", "decision"}
    OBVIOUS
  <2>. HIDE DEF legal, wrong, d
  <2>. QED
    BY <1>3, <2>1, <2>2
<1>5. None \notin {"open", "accepted", "rejected", "expired"}
      /\ None \notin {"project", "decision", "scheduler", "expedition", "audit", "replan"}
  BY DayAssumption DEF DaysAccepted
<1>6. LaborOK(d.labor, d.worked, AvailableLabor(civ)) => WithinCapacity(w)
  BY DEF LaborOK, WithinCapacity
<1>. HIDE DEF d, w
<1>7. Refusal(routine) = None => IsWorld(d.civ) /\ SettledAt(site, d.civ) /\ WithinCapacity(w)
  BY <1>2, <1>4, <1>5, <1>6 DEF SettledAt
<1>. QED
  BY <1>4, <1>5, <1>7 DEF d, w

\* A step that leaves the world and the decisions as they are.
LEMMA WorldWaits ==
    ASSUME DayInv, UNCHANGED <<civ, site, minds, last, worked, phase, decided, failure>>,
           refused' # "audit", Gateway'
    PROVE  DayInv'
BY DEF DayInv, AuditStands

\* A change of one mind, between the days.
LEMMA OneMindChanges ==
    ASSUME NEW all, AreMinds(all), NEW p \in Citizens, NEW m, IsMind(m)
    PROVE  AreMinds([all EXCEPT ![p] = m])
BY DEF AreMinds

\* The commands of the player.
LEMMA CommandsKeep ==
    ASSUME DayInv, Gateway', Establish \/ Abstain \/ Counsel \/ Resolve \/ LoseBoundary
    PROVE  DayInv'
<1>0. None # "audit"
  BY DayAssumption DEF DaysAccepted
<1>1. CASE Establish \/ Abstain \/ Resolve \/ LoseBoundary
  <2>1. UNCHANGED vars /\ refused' \in {None, "gone"}
    BY <1>1 DEF Establish, Abstain, Resolve, LoseBoundary
  <2>. QED
    BY <1>0, <2>1, WorldWaits DEF vars
<1>2. CASE Counsel
  <2>. DEFINE m == [minds[Focal] EXCEPT !.heard = IF @ = None THEN Focal ELSE @]
  <2>1. /\ minds' = [minds EXCEPT ![Focal].heard = IF @ = None THEN Focal ELSE @]
        /\ UNCHANGED <<civ, site, last, phase, decided, failure, worked>> /\ refused' = None
    BY <1>2 DEF Counsel
  <2>2. minds' = [minds EXCEPT ![Focal] = m]
    BY <2>1
  <2>3. Focal \in Citizens
    BY SponsorAssumption
  <2>4. AreMinds(minds) /\ IsMind(minds[Focal])
    BY <2>3 DEF DayInv, Keepable, AreMinds
  <2>5. IsMind(m)
    <3>. DEFINE old == minds[Focal]
                h == IF old.heard = None THEN Focal ELSE old.heard
    <3>1. m = [old EXCEPT !.heard = h] /\ IsMind(old)
      BY <2>4
    <3>2. h \in Citizens \cup {None}
      BY <2>3, <3>1 DEF IsMind
    <3>. HIDE DEF m, old, h
    <3>3. m = [plan |-> old.plan, replans |-> old.replans, heard |-> h]
      BY <3>1 DEF IsMind
    <3>. QED
      BY <3>1, <3>2, <3>3 DEF IsMind
  <2>. HIDE DEF m
  <2>6. AreMinds(minds')
    BY <2>2, <2>3, <2>4, <2>5, OneMindChanges
  <2>. QED
    BY <1>0, <2>1, <2>6 DEF DayInv, AuditStands, Keepable, Deciding
<1>. QED
  BY <1>1, <1>2

\* What a refused boundary leaves.
LEMMA RefuseKeeps ==
    ASSUME DayInv, Gateway', NEW why, Refuse(why), why # "audit"
    PROVE  DayInv'
BY WorldWaits DEF Refuse, vars

\* What a boundary that is lived leaves: the world it came to, and the minds.
LEMMA RecordKeeps ==
    ASSUME DayInv, Gateway', phase = "idle", civ.time < Horizon, NEW routine, Record(routine),
           Refusal(routine) = None, AreMinds(minds')
    PROVE  DayInv'
<1>. DEFINE c == Scheduler(routine).civ
            w == [given |-> AvailableLabor(civ), taken |-> Scheduler(routine).worked]
<1>1. IsWorld(c) /\ SettledAt(site, c) /\ WithinCapacity(w)
  BY BoundaryGoes DEF DayInv, Keepable
<1>2. /\ civ' = c /\ worked' = w /\ refused' = None
      /\ UNCHANGED <<site, last, phase, decided, failure>>
  BY DEF Record
<1>. HIDE DEF c, w
<1>3. /\ last \in [Citizens -> 0..Horizon] /\ failure # "audit"
      /\ \A p \in DOMAIN decided : IsMind(decided[p].mind)
  BY DEF DayInv, Keepable, AuditStands, Deciding
<1>4. None # "audit"
  BY DayAssumption DEF DaysAccepted
<1>5. Keepable(civ', site', minds', last', worked')
  BY <1>1, <1>2, <1>3 DEF Keepable
<1>6. Deciding(civ', phase', decided')
  BY <1>2, <1>3 DEF Deciding
<1>. QED
  BY <1>2, <1>3, <1>4, <1>5, <1>6 DEF DayInv, AuditStands

\* The boundary of a counsel uses up one replan at most, and there was one.
LEMMA CounselKeeps ==
    ASSUME DayInv, Gateway', CounselBoundary
    PROVE  DayInv'
<1>. DEFINE routine == CounselRoutine(due)
            n == ReplansAfter(due)
<1>1. phase = "idle" /\ civ.time < Horizon
  BY DEF CounselBoundary
<1>2. Refusal(routine) # "audit"
  BY <1>1, BoundaryGoes DEF DayInv, Keepable
<1>3. CounselRefusal(due) # "audit"
      /\ (CounselRefusal(due) = None => Refusal(routine) = None /\ ~ (n < 0))
  <2>1. None \notin {"project", "decision", "scheduler", "expedition", "audit", "replan"}
    BY DayAssumption DEF DaysAccepted
  <2>2. CounselRefusal(due) = IF Refusal(routine) # None THEN Refusal(routine)
                              ELSE IF n < 0 THEN "replan"
                              ELSE IF due = "verify-reserve" /\ ~ HasReserve(civ) THEN "reserve"
                              ELSE None
    BY DEF CounselRefusal
  <2>. HIDE DEF routine, n
  <2>. QED
    BY <1>2, <2>1, <2>2
<1>4. CASE CounselRefusal(due) # None /\ Refuse(CounselRefusal(due))
  BY <1>3, <1>4, RefuseKeeps
<1>5. CASE /\ CounselRefusal(due) = None /\ Record(routine)
           /\ minds' = [minds EXCEPT ![Focal].replans = n]
  <2>. DEFINE old == minds[Focal]
              m == [old EXCEPT !.replans = n]
  <2>1. Focal \in Citizens
    BY SponsorAssumption
  <2>2. AreMinds(minds) /\ IsMind(old)
    BY <2>1 DEF DayInv, Keepable, AreMinds
  <2>3. n \in 0..2
    <3>1. old.replans \in 0..2
      BY <2>2 DEF IsMind
    <3>2. n \in {2, old.replans, old.replans - 1}
      BY <3>1 DEF ReplansAfter
    <3>. HIDE DEF n, old
    <3>. QED
      BY <1>3, <1>5, <3>1, <3>2
  <2>4. minds' = [minds EXCEPT ![Focal] = m]
    BY <1>5
  <2>. HIDE DEF n, old
  <2>5. m = [plan |-> old.plan, replans |-> n, heard |-> old.heard]
    BY <2>2 DEF IsMind
  <2>. HIDE DEF m
  <2>6. IsMind(m)
    BY <2>2, <2>3, <2>5 DEF IsMind
  <2>7. AreMinds(minds')
    BY <2>1, <2>2, <2>4, <2>6, OneMindChanges
  <2>. HIDE DEF routine
  <2>. QED
    BY <1>1, <1>3, <1>5, <2>7, RecordKeeps
<1>. QED
  BY <1>4, <1>5 DEF CounselBoundary

\* The boundary of an abstention.
LEMMA AbstentionKeeps ==
    ASSUME DayInv, Gateway', AdvanceAbstention
    PROVE  DayInv'
<1>. DEFINE routine == minds[Focal].plan
            why == AbstentionRefusal(routine)
<1>1. phase = "idle" /\ civ.time < Horizon
  BY DEF AdvanceAbstention, Between
<1>2. Refusal(routine) # "audit"
  BY <1>1, BoundaryGoes DEF DayInv, Keepable
<1>3. why # "audit" /\ (why = None => Refusal(routine) = None)
  <2>1. why = IF Refusal(routine) # None THEN Refusal(routine)
              ELSE IF ~ Follows(Scheduler(routine), routine) THEN "met" ELSE None
    BY DEF AbstentionRefusal
  <2>2. None # "audit"
    BY DayAssumption DEF DaysAccepted
  <2>. HIDE DEF why, routine
  <2>. QED
    BY <1>2, <2>1, <2>2
<1>4. (why # None /\ Refuse(why)) \/ (why = None /\ Record(routine) /\ UNCHANGED minds)
  BY DEF AdvanceAbstention
<1>. HIDE DEF why, routine
<1>5. AreMinds(minds)
  BY DEF DayInv, Keepable
<1>. QED
  BY <1>1, <1>3, <1>4, <1>5, RefuseKeeps, RecordKeeps

\* The steps of the gateway and the clock of the day.
LEMMA DayStepsKeep ==
    ASSUME DayInv, Gateway', refused' = None,
           StartDay \/ Ask \/ Answer \/ Expire \/ Decide \/ LoseDay
    PROVE  DayInv'
<1>0. /\ None # "audit" /\ Keepable(civ, site, minds, last, worked)
      /\ Deciding(civ, phase, decided) /\ failure # "audit"
  BY DayAssumption DEF DaysAccepted, DayInv, AuditStands
<1>1. CASE StartDay
  <2>1. /\ civ.time < Horizon /\ failure' = None /\ worked' = Unworked
        /\ UNCHANGED <<civ, minds, site, last, decided>>
    BY <1>1 DEF StartDay
  <2>2. WithinCapacity(Unworked)
    BY DEF WithinCapacity, Unworked
  <2>3. Keepable(civ', site', minds', last', worked')
    BY <1>0, <2>1, <2>2 DEF Keepable
  <2>4. Deciding(civ', phase', decided')
    BY <1>0, <2>1 DEF Deciding
  <2>. QED
    BY <1>0, <2>1, <2>3, <2>4 DEF DayInv, AuditStands
<1>2. CASE Ask \/ Answer \/ Expire
  <2>1. UNCHANGED <<civ, site, minds, last, worked, phase, decided, failure>>
    BY <1>2 DEF Ask, Answer, Expire
  <2>. QED
    BY <1>0, <2>1, WorldWaits
<1>3. CASE Decide
  <2>1. PICK option : Decision(Asked, option)
    BY <1>3 DEF Decide
  <2>2. Asked \in Citizens
    BY <1>3, AskedWaits DEF Decide, Undecided, Waiting
  <2>3. UNCHANGED <<civ, site, minds, last, worked>>
    BY <2>1 DEF Decision
  <2>4. CASE ~ HasBudget(minds[Asked], option)
    <3>1. failure' = "replan" /\ phase' = "idle" /\ decided' = <<>>
      BY <2>1, <2>4 DEF Decision, Over
    <3>2. Deciding(civ', phase', decided')
      BY <3>1 DEF Deciding
    <3>. QED
      BY <1>0, <2>3, <3>1, <3>2 DEF DayInv, AuditStands
  <2>5. CASE HasBudget(minds[Asked], option)
    <3>. DEFINE m == Chosen(minds[Asked], option)
                what == [action |-> option[1], routine |-> option[2],
                         source |-> IF race = "accepted" THEN "primary"
                                    ELSE "deterministic-fallback",
                         mind |-> m]
    <3>1. decided' = With(decided, Asked, what) /\ phase' = phase /\ failure' = failure
      BY <2>1, <2>5 DEF Decision
    <3>2. IsMind(minds[Asked])
      BY <1>0, <2>2 DEF Keepable, AreMinds
    <3>3. IsMind(m)
      BY <2>5, <3>2, MindsStay
    <3>4. what.mind = m
      OBVIOUS
    <3>. HIDE DEF m, what
    <3>5. \A p \in DOMAIN decided' : IsMind(decided'[p].mind)
      <4>1. ASSUME NEW p \in DOMAIN decided' PROVE IsMind(decided'[p].mind)
        <5>1. CASE p = Asked
          <6>1. decided'[p] = what
            BY <3>1, <5>1 DEF With
          <6>. QED
            BY <3>3, <3>4, <6>1
        <5>2. CASE p # Asked
          <6>1. p \in DOMAIN decided /\ decided'[p] = decided[p]
            BY <3>1, <5>2 DEF With
          <6>. QED
            BY <1>0, <6>1 DEF Deciding
        <5>. QED
          BY <5>1, <5>2
      <4>. QED
        BY <4>1
    <3>6. Deciding(civ', phase', decided')
      BY <1>0, <2>3, <3>1, <3>5 DEF Deciding
    <3>. QED
      BY <1>0, <2>3, <3>1, <3>6 DEF DayInv, AuditStands
  <2>. QED
    BY <2>4, <2>5
<1>4. CASE LoseDay
  <2>1. /\ phase' = "idle" /\ decided' = <<>> /\ UNCHANGED <<civ, site, minds, last, worked, failure>>
    BY <1>4 DEF LoseDay, Over
  <2>2. Deciding(civ', phase', decided')
    BY <2>1 DEF Deciding
  <2>. QED
    BY <1>0, <2>1, <2>2 DEF DayInv, AuditStands
<1>. QED
  BY <1>1, <1>2, <1>3, <1>4

\* The day is computed.
LEMMA RunDayKeeps ==
    ASSUME DayInv, Gateway', refused' = None, RunDay
    PROVE  DayInv'
<1>1. phase = "deciding" /\ Waiting = {} /\ phase' = "idle" /\ decided' = <<>>
  BY DEF RunDay, Over
<1>2. PICK day \in {Day} :
         /\ civ' = day.civ /\ site' = day.site /\ minds' = day.minds /\ last' = day.last
         /\ worked' = day.worked /\ failure' = day.failure
  BY DEF RunDay
<1>3. /\ Keepable(day.civ, day.site, day.minds, day.last, day.worked)
      /\ day.failure # "audit"
  BY <1>1, DayIsKept DEF DayInv
<1>4. Keepable(civ', site', minds', last', worked') /\ failure' # "audit"
  BY <1>2, <1>3
<1>5. Deciding(civ', phase', decided')
  BY <1>1 DEF Deciding
<1>6. None # "audit"
  BY DayAssumption DEF DaysAccepted
<1>. QED
  BY <1>4, <1>5, <1>6 DEF DayInv, AuditStands

\* Each step of the days, the commands and the boundaries.
LEMMA DaysKeep ==
    ASSUME DayInv, [SponsoredNext]_<<vars, sponsorVars>>
    PROVE  DayInv'
<1>1. Gateway'
  BY GatewayKeeps DEF DayInv
<1>2. CASE UNCHANGED <<vars, sponsorVars>>
  <2>1. UNCHANGED <<civ, site, minds, last, worked, phase, decided, failure>> /\ refused' = refused
    BY <1>2 DEF vars, sponsorVars
  <2>2. refused # "audit"
    BY DEF DayInv, AuditStands
  <2>. QED
    BY <1>1, <2>1, <2>2, WorldWaits
<1>3. CASE Establish \/ Abstain \/ Counsel \/ Resolve \/ LoseBoundary
  BY <1>1, <1>3, CommandsKeep
<1>4. CASE CounselBoundary
  BY <1>1, <1>4, CounselKeeps
<1>5. CASE AdvanceAbstention
  BY <1>1, <1>5, AbstentionKeeps
<1>6. CASE LiveDay
  BY <1>1, <1>6, RunDayKeeps DEF LiveDay
<1>7. CASE OfDay /\ refused' = None
  BY <1>1, <1>7, DayStepsKeep DEF OfDay
<1>. QED
  BY <1>2, <1>3, <1>4, <1>5, <1>6, <1>7 DEF SponsoredNext

\* The world of the bootstrap, before the first day.
LEMMA InitIsWhole == SponsoredInit => DayInv
<1>. SUFFICES ASSUME SponsoredInit
              PROVE  DayInv
  OBVIOUS
<1>1. /\ civ = Bootstrap /\ site = SiteOf /\ last = [p \in Citizens |-> 0] /\ worked = Unworked
      /\ minds = [p \in Citizens |-> [plan |-> PlannedRoutine(Bootstrap, Policy(Bootstrap), p),
                                      replans |-> 2, heard |-> None]]
      /\ provider \in BOOLEAN /\ phase = "idle" /\ decided = <<>> /\ race = None
      /\ open = {} /\ expired = {} /\ failure = None /\ refused = None
  BY DEF SponsoredInit, Init
<1>2. /\ None # "audit" /\ Horizon \in Nat
      /\ \A p \in Settlers(Colony) : p \in Citizens /\ SiteOf[p] # SettlersSite
  BY DayAssumption DEF DaysAccepted, Settlers
<1>3. Gateway
  BY <1>1 DEF Gateway, AnswersInTime
<1>4. IsWorld(civ) /\ civ.settled = {}
  BY <1>1, <1>2, BootstrapIsSound DEF IsWorld, Trekked
<1>5. SettledAt(site, civ)
  BY <1>1, <1>2, <1>4 DEF SettledAt
<1>6. AreMinds(minds)
  BY <1>1 DEF AreMinds, IsMind
<1>7. last \in [Citizens -> 0..Horizon]
  BY <1>1, <1>2
<1>8. WithinCapacity(worked)
  BY <1>1 DEF WithinCapacity, Unworked
<1>9. Deciding(civ, phase, decided)
  BY <1>1 DEF Deciding
<1>. QED
  BY <1>1, <1>2, <1>3, <1>4, <1>5, <1>6, <1>7, <1>8, <1>9 DEF DayInv, AuditStands, Keepable

\* Whatever brains choose, whenever answers come, days are lost or the player acts,
\* the civilization between two steps is in order, its expedition whole.
THEOREM DayCorrectness == SponsoredSpec => []DayInv
<1>1. SponsoredInit => DayInv
  BY InitIsWhole
<1>2. DayInv /\ [SponsoredNext]_<<vars, sponsorVars>> => DayInv'
  BY DaysKeep
<1>. QED
  BY <1>1, <1>2, PTL DEF SponsoredSpec

\* A day, lived or of a boundary, takes of nobody more labor than they have.
THEOREM LaborCorrectness == SponsoredSpec => []LaborWithinCapacity
<1>1. DayInv => LaborWithinCapacity
  BY DEF DayInv, Keepable, WithinCapacity, LaborWithinCapacity
<1>. QED
  BY <1>1, DayCorrectness, PTL

\* Neither a day nor a boundary is ever lost to the audit: what the scheduler and
\* the expedition make of a world can always be closed and kept.
THEOREM DayAuditCorrectness == SponsoredSpec => []AuditStands
<1>1. DayInv => AuditStands
  BY DEF DayInv
<1>. QED
  BY <1>1, DayCorrectness, PTL

\* The fields of the day and of the civilization are of their types.
THEOREM DayTypeCorrectness == SponsoredSpec => []TypeOK
<1>1. ASSUME DayInv PROVE TypeOK
  <2>1. IsWorld(civ) /\ AreMinds(minds) /\ last \in [Citizens -> 0..Horizon] /\ Gateway
    BY <1>1 DEF DayInv, Keepable
  <2>2. civ.time \in 0..Horizon /\ Shelves(civ.stocks)
    BY <2>1 DEF IsWorld, Sound, AccountsOK
  <2>3. \A s \in Stocks : StockInfo[s].capacity \in Nat /\ StockInfo[s].reserved \in Nat
    BY CatalogueAssumption DEF ValidCatalogue
  <2>4. \A s \in DOMAIN civ.stocks : civ.stocks[s] \in 0..StockInfo[s].capacity
    BY <2>2, <2>3 DEF Shelves
  <2>5. \A p \in Citizens : minds[p].replans \in 0..2 /\ minds[p].heard \in Citizens \cup {None}
    BY <2>1 DEF AreMinds, IsMind
  <2>6. /\ provider \in BOOLEAN /\ phase \in {"idle", "deciding"}
        /\ DOMAIN decided \subseteq Citizens /\ open \subseteq Citizens
        /\ race \in {None, "open", "accepted", "rejected", "expired"}
    BY <2>1 DEF Gateway
  <2>7. expired \subseteq Citizens
    <3>1. None # "expired"
      BY DayAssumption DEF DaysAccepted
    <3>2. race = "expired" => Asked \in Citizens
      BY <2>1, <3>1, AskedWaits DEF Gateway, Undecided, Waiting
    <3>. QED
      BY <2>1, <3>2 DEF Gateway
  <2>. QED
    BY <2>1, <2>2, <2>4, <2>5, <2>6, <2>7 DEF TypeOK
<1>. QED
  BY <1>1, DayCorrectness, PTL

\* The founding, the journey, the migrants and the map tell of one expedition.
THEOREM ExpeditionCorrectness == SponsoredSpec => []ExpeditionIsWhole
<1>1. ASSUME DayInv PROVE ExpeditionIsWhole
  <2>1. IsWorld(civ) /\ SettledAt(site, civ)
    BY <1>1 DEF DayInv, Keepable
  <2>2. Trekked(civ) /\ Sound(civ)
    BY <2>1 DEF IsWorld
  <2>3. civ.settled \subseteq DOMAIN civ.foundings
    BY <2>2, SocietyFacts DEF Sound, Colonies
  <2>4. \A m \in DOMAIN civ.journeys :
           (civ.migrations[m] = "arrived") = AtEnd(m, civ.journeys[m])
    BY <2>2 DEF Sound, AccountsOK, Walks
  <2>5. Done(civ.projects, Kit) => Is(civ, Kit, {"completed"}) /\ Kit \in DOMAIN civ.built
    BY <2>2 DEF Sound, BuiltUp, Done, Is
  <2>6. ASSUME NEW p \in Settlers(Colony)
        PROVE  (site[p] = SettlersSite) = (Colony \in civ.settled)
    BY <2>1 DEF SettledAt
  <2>7. CASE NotGone(civ)
    BY <2>3, <2>6, <2>7 DEF ExpeditionIsWhole, NotGone, Settling, Residence
  <2>8. CASE OnTheRoad(civ)
    BY <2>4, <2>5, <2>6, <2>8 DEF ExpeditionIsWhole, OnTheRoad, Gone, Settling, Residence
  <2>9. CASE There(civ)
    BY <2>4, <2>5, <2>6, <2>9 DEF ExpeditionIsWhole, There, Gone, Settling, Residence
  <2>. QED
    BY <2>2, <2>7, <2>8, <2>9 DEF Trekked
<1>. QED
  BY <1>1, DayCorrectness, PTL
=============================================================================
