--------------------------- MODULE QuotaEnforcer ---------------------------
(***************************************************************************)
(* quotas/resource_quota.py: the QuotaEnforcer, shared by several threads. *)
(* Every method is one critical section.  check_and_record() tests and     *)
(* books in one of them; the documented idiom                              *)
(*     if enforcer.check(...): enforcer.record(...)                        *)
(* takes two, and anything may happen in between.                          *)
(*                                                                         *)
(* Amounts are whole numbers here; the code compares and adds floats.      *)
(***************************************************************************)
EXTENDS Integers, FiniteSets, FiniteSetsExt

CONSTANTS
  Agents,
  Clients,       \* threads that use check() followed by record()
  Dimensions,    \* "tokens", "memory_mb", "cpu_seconds", "api_calls", all treated alike
  Unlimited,     \* a limit of None
  NoQuota,       \* the agent is not registered
  Nothing,       \* the client has no checked request to record
  Quotas,        \* the quotas that are registered, each a limit per dimension
  Requests,      \* the requests that are made, each an amount per dimension
  Environments,  \* the environments considered, see env
  MaxUsage       \* bound: no usage is booked beyond it

\* ResourceQuota.__post_init__ rejects negative limits.
ASSUME QuotasAssumption ==
  /\ Quotas \subseteq [Dimensions -> Nat \union {Unlimited}]
  /\ Unlimited \notin Int
  /\ NoQuota \notin Quotas

ASSUME RequestsAssumption ==
  /\ IsFiniteSet(Clients)
  /\ IsFiniteSet(Requests)
  /\ Requests \subseteq [Dimensions -> Int]
  /\ Nothing \notin [agent: Agents, amount: Requests]
  /\ Environments \subseteq SUBSET {"split", "unchecked", "replace", "negative"}
  /\ MaxUsage \in Nat

VARIABLES
  quota,    \* self._quotas
  usage,    \* self._usage, zero for an agent without an entry
  pending,  \* the request each client has checked and not recorded yet
  env       \* how the enforcer is used, chosen once for a behaviour

quotaVars == <<quota, usage, pending, env>>
-----------------------------------------------------------------------------
\* Clients call check() and, if it says yes, record().
Split == "split" \in env

\* record() is called without a check.
Unchecked == "unchecked" \in env

\* register() replaces the quota of a registered agent.
Replacing == "replace" \in env

\* Amounts may be negative.
Negative == "negative" \in env

NonNegative(r) == \A d \in Dimensions : r[d] >= 0

\* The requests of this environment.
Asked == {r \in Requests : Negative \/ NonNegative(r)}

Registered(a) == quota[a] # NoQuota

\* _zero_usage
Zero == [d \in Dimensions |-> 0]

QuotaInit ==
  /\ quota = [a \in Agents |-> NoQuota]
  /\ usage = [a \in Agents |-> Zero]
  /\ pending = [c \in Clients |-> Nothing]
  /\ env \in Environments
-----------------------------------------------------------------------------
\* What register() leaves of an agent's usage: a replaced quota keeps it.
UsageKept(a) == IF Registered(a) THEN usage[a] ELSE Zero

Register(a, q) ==
  /\ Registered(a) => Replacing
  /\ quota' = [quota EXCEPT ![a] = q]
  /\ usage' = [usage EXCEPT ![a] = UsageKept(a)]
  /\ UNCHANGED <<pending, env>>

Unregister(a) ==
  /\ Registered(a)
  /\ quota' = [quota EXCEPT ![a] = NoQuota]
  /\ usage' = [usage EXCEPT ![a] = Zero]
  /\ UNCHANGED <<pending, env>>

\* Mutant of Remaining: what was used is not subtracted.
RemainingAll(a, d) == quota[a][d]

\* max(0, limit - used)
Remaining(a, d) ==
  IF quota[a][d] > usage[a][d] THEN quota[a][d] - usage[a][d] ELSE 0

\* Mutant of Allowed: one dimension within its limit is enough.
AllowedBySome(a, r) ==
  \E d \in Dimensions : r[d] > 0 /\ quota[a][d] # Unlimited => r[d] <= Remaining(a, d)

\* The loop of check() and check_and_record(): amounts that are not positive and
\* dimensions without a limit are not tested.
Allowed(a, r) ==
  \A d \in Dimensions : r[d] > 0 /\ quota[a][d] # Unlimited => r[d] <= Remaining(a, d)

Plus(u, r) == [d \in Dimensions |-> u[d] + r[d]]

WithinBound(u) == \A d \in Dimensions : u[d] \in -MaxUsage..MaxUsage

\* The four "current[...] += ..." lines.
Book(a, r) ==
  /\ WithinBound(Plus(usage[a], r))
  /\ usage' = [usage EXCEPT ![a] = Plus(@, r)]

\* check_and_record() that returns True.  (One that refuses changes nothing.)
CheckAndRecord(a, r) ==
  /\ Registered(a)
  /\ Allowed(a, r)
  /\ Book(a, r)
  /\ UNCHANGED <<quota, pending, env>>

\* check() that returns True, in the two-step idiom.
Check(c, a, r) ==
  /\ Split
  /\ pending[c] = Nothing
  /\ Registered(a)
  /\ Allowed(a, r)
  /\ pending' = [pending EXCEPT ![c] = [agent |-> a, amount |-> r]]
  /\ UNCHANGED <<quota, usage, env>>

\* record(), in the two-step idiom.
Record(c) ==
  /\ pending[c] # Nothing
  /\ NonNegative(pending[c].amount)
  /\ Registered(pending[c].agent)
  /\ Book(pending[c].agent, pending[c].amount)
  /\ pending' = [pending EXCEPT ![c] = Nothing]
  /\ UNCHANGED <<quota, env>>

\* record() that raises: ValueError for a negative amount, KeyError for an agent that
\* was unregistered since the check.
RecordRaises(c) ==
  /\ pending[c] # Nothing
  /\ ~NonNegative(pending[c].amount) \/ ~Registered(pending[c].agent)
  /\ pending' = [pending EXCEPT ![c] = Nothing]
  /\ UNCHANGED <<quota, usage, env>>

\* record() of a consumption that nobody checked.
RecordUnchecked(a, r) ==
  /\ Unchecked
  /\ NonNegative(r)
  /\ Registered(a)
  /\ Book(a, r)
  /\ UNCHANGED <<quota, pending, env>>

Reset(a) ==
  /\ Registered(a)
  /\ usage' = [usage EXCEPT ![a] = Zero]
  /\ UNCHANGED <<quota, pending, env>>

ResetAll ==
  /\ usage' = [a \in Agents |-> Zero]
  /\ UNCHANGED <<quota, pending, env>>

QuotaNext ==
  \/ \E a \in Agents, q \in Quotas : Register(a, q)
  \/ \E a \in Agents : Unregister(a) \/ Reset(a)
  \/ \E a \in Agents, r \in Asked :
       \/ CheckAndRecord(a, r)
       \/ RecordUnchecked(a, r)
       \/ \E c \in Clients : Check(c, a, r)
  \/ \E c \in Clients : Record(c) \/ RecordRaises(c)
  \/ ResetAll

QuotaSpec == QuotaInit /\ [][QuotaNext]_quotaVars
-----------------------------------------------------------------------------
\* The state stays in its types, and an agent without a quota has no usage.
QuotaTypeOK ==
  /\ quota \in [Agents -> Quotas \union {NoQuota}]
  /\ usage \in [Agents -> [Dimensions -> Int]]
  /\ pending \in [Clients -> [agent: Agents, amount: Requests] \union {Nothing}]
  /\ env \in Environments
  /\ \A a \in Agents : ~Registered(a) => usage[a] = Zero

Limited(a) == {d \in Dimensions : Registered(a) /\ quota[a][d] # Unlimited}

\* The check-and-record operation is atomic: when usage is booked by
\* check_and_record() alone and quotas are not replaced, no interleaving of the
\* threads takes an agent beyond a limit, negative amounts included.
WithinLimits ==
  ~Split /\ ~Unchecked /\ ~Replacing =>
    \A a \in Agents : \A d \in Limited(a) : usage[a][d] <= quota[a][d]

\* What clients have checked and not recorded yet, per agent and dimension.
Outstanding(a, d) ==
  LET checked == {c \in Clients : pending[c] # Nothing /\ pending[c].agent = a}
  IN  SumFunction([c \in checked |-> pending[c].amount[d]])

LargestRequest(d) == Max({r[d] : r \in Requests} \union {0})

\* The two-step idiom can overshoot, but boundedly: what is booked and checked exceeds
\* a limit by at most one request per client, whatever is reset or re-registered
\* between the two steps.
OvershootBounded ==
  ~Unchecked /\ ~Replacing /\ ~Negative =>
    \A a \in Agents : \A d \in Limited(a) :
      usage[a][d] + Outstanding(a, d)
        <= quota[a][d] + Cardinality(Clients) * LargestRequest(d)

\* A replaced quota may leave an agent beyond its new limit, but then the agent is
\* refused until its usage is forgiven: check_and_record() never takes a usage
\* up to a value beyond the limit.
NeverPushedOver ==
  [][~Split /\ ~Unchecked =>
       \A a \in Agents : \A d \in Limited(a) :
         usage'[a][d] > usage[a][d] => usage'[a][d] <= quota[a][d]]_quotaVars

\* Usage is forgiven as a whole and on purpose: it only falls when reset() or
\* unregister() clears the account, never because the quota was replaced.
ForgivenOnPurpose ==
  [][~Negative =>
       \A a \in Agents :
         (\E d \in Dimensions : usage'[a][d] < usage[a][d]) =>
           usage'[a] = Zero /\ quota'[a] \in {quota[a], NoQuota}]_quotaVars
=============================================================================
