----------------------------- MODULE ResourceLedger -----------------------------
(***************************************************************************)
(* What the civilization kernel promises of matter: a resource comes with  *)
(* a new stock, or out of a recipe that has taken what it needs, once per  *)
(* run; and it goes into a recipe or is used up.  Nothing else makes or    *)
(* unmakes it, however often it changes hands.                             *)
(***************************************************************************)
EXTENDS Integers, FiniteSets

CONSTANTS Resources, Recipes, Stocks,
          In, Out       \* In[r][g], Out[r][g] \in Nat: what a run of r takes, gives

VARIABLES stocks,   \* the stocks there are
          held,     \* per resource, what they hold
          running   \* per recipe, the runs that have taken and not yet given

Init == /\ stocks \subseteq Stocks
        /\ held \in [Resources -> Nat] /\ running = [r \in Recipes |-> 0]

Endow(s, g) ==
    /\ s \notin stocks /\ stocks' = stocks \cup {s}
    /\ held'[g] \in Nat /\ held'[g] >= held[g]
    /\ held' = [held EXCEPT ![g] = held'[g]]
    /\ UNCHANGED running

Begin(r) ==
    /\ \A g \in Resources : held[g] >= In[r][g]
    /\ held' = [g \in Resources |-> held[g] - In[r][g]]
    /\ running' = [running EXCEPT ![r] = @ + 1]
    /\ UNCHANGED stocks

Finish(r) ==
    /\ running[r] > 0
    /\ held' = [g \in Resources |-> held[g] + Out[r][g]]
    /\ running' = [running EXCEPT ![r] = @ - 1]
    /\ UNCHANGED stocks

\* People eat and projects build, of anything that is there.
Use == /\ held' \in [Resources -> Nat]
       /\ \A g \in Resources : held'[g] =< held[g]
       /\ UNCHANGED <<stocks, running>>

Next == \/ \E s \in Stocks, g \in Resources : Endow(s, g)
        \/ \E r \in Recipes : Begin(r) \/ Finish(r)
        \/ Use

Spec == Init /\ [][Next]_<<stocks, held, running>>
=============================================================================
