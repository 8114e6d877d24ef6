----------------------------- MODULE Validators -----------------------------
(***************************************************************************)
(* The validator set of a shard (types/validator_set.go): its priorities,  *)
(* its changes, the rotation of the proposer over the rounds of a height   *)
(* (consensus/state.go) and over heights (updateState of                   *)
(* state/execution.go), and what of it the state database keeps            *)
(* (state/store.go).                                                       *)
(*                                                                         *)
(* A set is a record: vals, from addresses (ordered as numbers) to         *)
(* [power, priority], and the proposer, 0 for nil.  The cached total is    *)
(* always the sum of the powers and is written as that sum.                *)
(***************************************************************************)
EXTENDS Integers, FiniteSets, FiniteSetsExt, Functions

CONSTANTS MaxInt,     \* math.MaxInt64
          Changes,    \* the change sets EndBlock may return: sets of [addr, power]
          Genesis,    \* address -> power
          ParamUpdates,   \* the ConsensusParamUpdates EndBlock may return: fields -> values, <<>> for nil
          GenesisParams,  \* [maxBytes, maxAge]
          MaxBlockSizeBytes,
          Interval,   \* valSetCheckpointInterval
          MaxHeight   \* bound

VARIABLES height,              \* LastBlockHeight
          validators, next,    \* Validators and NextValidators of the state
          lastChanged,         \* LastHeightValidatorsChanged
          info,                \* height -> the ValidatorsInfo saved for it
          round,               \* Validators of the round the consensus is in
          waited,              \* address -> rounds of this height since it was the proposer
          used,                \* height -> the validators and parameters the height started with
          params, paramsChanged,   \* ConsensusParams, LastHeightConsensusParamsChanged
          paramsInfo           \* height -> the ConsensusParamsInfo saved for it

vars == <<height, validators, next, lastChanged, info, round, waited, used, params, paramsChanged, paramsInfo>>

NoOne == 0
MaxTotalVotingPower == MaxInt \div 8
PriorityWindowSizeFactor == 2

Addrs(s) == DOMAIN s.vals
\* The empty set has no members.
EmptySet == [vals |-> <<>>, proposer |-> NoOne]
SumOver(S, op(_)) == MapThenSumSet(op, S)
TotalVotingPower(s) == SumOver(Addrs(s), LAMBDA a : s.vals[a].power)
WithPriorities(s, p(_)) == [s EXCEPT !.vals = [a \in Addrs(s) |-> [@[a] EXCEPT !.priority = p(a)]]]

\* safeAddClip and safeSubClip of an exact result.
Clip(x) == IF x > MaxInt THEN MaxInt ELSE IF x < -MaxInt - 1 THEN -MaxInt - 1 ELSE x

\* Integer division of Go, towards zero.
Quotient(a, b) == IF a >= 0 THEN a \div b ELSE -((-a) \div b)

-----------------------------------------------------------------------------
(* Priorities. *)

MaxMinPriorityDiff(s) ==
  Max({s.vals[a].priority : a \in Addrs(s)}) - Min({s.vals[a].priority : a \in Addrs(s)})

RescalePriorities(s) ==
  LET diffMax == PriorityWindowSizeFactor * TotalVotingPower(s)
      diff    == MaxMinPriorityDiff(s)
      ratio   == (diff + diffMax - 1) \div diffMax
  IN IF diff <= diffMax THEN s
     ELSE WithPriorities(s, LAMBDA a : Quotient(s.vals[a].priority, ratio))

ShiftByAvgProposerPriority(s) ==
  LET avg == SumOver(Addrs(s), LAMBDA a : s.vals[a].priority) \div Cardinality(Addrs(s))
  IN WithPriorities(s, LAMBDA a : Clip(s.vals[a].priority - avg))

\* The highest priority, the lowest address among equals.
ValWithMostPriority(s) ==
  CHOOSE a \in Addrs(s) : \A b \in Addrs(s) \ {a} :
    \/ s.vals[a].priority > s.vals[b].priority
    \/ s.vals[a].priority = s.vals[b].priority /\ a < b

\* The proposer does not pay for its turn.
IncrementOnce_Free(s) ==
  LET t == WithPriorities(s, LAMBDA a : Clip(s.vals[a].priority + s.vals[a].power))
  IN [t EXCEPT !.proposer = ValWithMostPriority(t)]

IncrementOnce(s) ==
  LET t == WithPriorities(s, LAMBDA a : Clip(s.vals[a].priority + s.vals[a].power))
      mostest == ValWithMostPriority(t)
  IN [t EXCEPT !.vals[mostest].priority = Clip(@ - TotalVotingPower(s)), !.proposer = mostest]

IncrementProposerPriority(s, times) ==
  LET start == ShiftByAvgProposerPriority(RescalePriorities(s))
      after[k \in 0 .. times] == IF k = 0 THEN start ELSE IncrementOnce(after[k - 1])
  IN after[times]

-----------------------------------------------------------------------------
(* updateWithChangeSet: an error leaves the set as it is. *)

\* processChanges, verifyRemovals, verifyUpdates: what makes the changes C an error.
Duplicates(C) == \E c, d \in C : c # d /\ c.addr = d.addr
Updates(C) == {c \in C : c.power > 0}
Deletes(C) == {c.addr : c \in {d \in C : d.power = 0}}
Old(s, a) == IF a \in Addrs(s) THEN s.vals[a].power ELSE 0

\* The total after the updates up to address a, in the order of the addresses.
TotalUpTo(s, C, a) ==
  TotalVotingPower(s) + SumOver({c \in Updates(C) : c.addr <= a}, LAMBDA c : c.power - Old(s, c.addr))

\* The limit is not checked.
Overflows_Never(s, C) == FALSE
Overflows(s, C) == \E c \in Updates(C) : TotalUpTo(s, C, c.addr) > MaxTotalVotingPower

Rejected(s, C, allowDeletes) ==
  \/ Duplicates(C)
  \/ \E c \in C : c.power < 0 \/ c.power > MaxTotalVotingPower
  \/ Deletes(C) # {} /\ ~allowDeletes
  \/ ~(Deletes(C) \subseteq Addrs(s))
  \/ Overflows(s, C)
  \/ {c.addr : c \in Updates(C)} \subseteq Addrs(s) /\ Addrs(s) = Deletes(C)

\* computeNewPriorities, applyUpdates, applyRemovals, then scale and centre; the proposer is
\* left as it was.
UpdateWithChangeSet(s, C) ==
  IF C = {} THEN s
  ELSE
    LET total == TotalVotingPower(s) + SumOver(Updates(C), LAMBDA c : c.power - Old(s, c.addr))
        Fresh(p) == [power |-> p, priority |-> -(total + (total \div 8))]
        power(a) == (CHOOSE c \in Updates(C) : c.addr = a).power
        changed == {c.addr : c \in Updates(C)}
    IN ShiftByAvgProposerPriority(RescalePriorities(
         [s EXCEPT !.vals =
            [a \in (Addrs(s) \union changed) \ Deletes(C) |->
               IF a \notin changed THEN @[a]
               ELSE IF a \in Addrs(s) THEN [@[a] EXCEPT !.power = power(a)]
               ELSE Fresh(power(a))]]))

NewValidatorSet(powers) ==
  IncrementProposerPriority(
    UpdateWithChangeSet(EmptySet, {[addr |-> a, power |-> powers[a]] : a \in DOMAIN powers}), 1)

-----------------------------------------------------------------------------
(* The state database: a set is saved when it changed and at checkpoints. *)

NoSet == EmptySet

SaveValidatorsInfo(store, h, changed, s) ==
  [k \in DOMAIN store \union {h} |->
     IF k # h THEN store[k]
     ELSE [lastChanged |-> changed,
           set |-> IF h = changed \/ h % Interval = 0 THEN s ELSE NoSet]]

LastStoredHeightFor(h, changed) == Max({h - (h % Interval), changed})

\* LoadValidators: the last one saved, with its priorities incremented to the height.
LoadValidators(store, h) ==
  LET i == store[h]
      at == LastStoredHeightFor(h, i.lastChanged)
      from == IF at \in DOMAIN store /\ store[at].set # NoSet THEN at ELSE i.lastChanged
  IN IF i.set # NoSet THEN i.set ELSE IncrementProposerPriority(store[from].set, h - from)

\* The parameters are saved only when they changed.
NoParams == <<>>
SaveConsensusParamsInfo(store, h, changed, p) ==
  [k \in DOMAIN store \union {h} |->
     IF k # h THEN store[k] ELSE [lastChanged |-> changed, params |-> IF changed = h THEN p ELSE NoParams]]
LoadConsensusParams(store, h) ==
  IF store[h].params = NoParams THEN store[store[h].lastChanged].params ELSE store[h].params

-----------------------------------------------------------------------------
(* The chain. *)

\* The fields that are given replace those of the parameters.
Update(p, u) == [f \in DOMAIN p |-> IF f \in DOMAIN u THEN u[f] ELSE p[f]]
Validate(p) == p.maxBytes > 0 /\ p.maxBytes <= MaxBlockSizeBytes /\ p.maxAge > 0

\* A change is recorded as one of the height after the block's.
ChangedAt_NextHeight(h, C) == IF C = {} THEN lastChanged ELSE h + 1
ChangedAt(h, C) == IF C = {} THEN lastChanged ELSE h + 1 + 1

\* updateState of the block at h with its validator updates C and parameter updates u: even
\* heights rotate.
UpdateState(h, C, u) ==
  LET s == UpdateWithChangeSet(next, C) IN
  /\ ~Rejected(next, C, TRUE)
  /\ next' = IF h % 2 = 0 THEN IncrementProposerPriority(s, 1) ELSE s
  /\ validators' = next
  /\ lastChanged' = ChangedAt(h, C)
  /\ Validate(Update(params, u)) /\ params' = Update(params, u)
  /\ paramsChanged' = IF u = <<>> THEN paramsChanged ELSE h + 1

\* ApplyBlock, with saveState; the consensus moves to round 0 of the next height.
ApplyBlock(C, u) ==
  LET h == height + 1 IN
  /\ height < MaxHeight /\ height' = h
  /\ UpdateState(h, C, u)
  /\ info' = SaveValidatorsInfo(info, h + 2, lastChanged', next')
  /\ round' = validators' /\ waited' = [a \in Addrs(validators') |-> 0]
  /\ paramsInfo' = SaveConsensusParamsInfo(paramsInfo, h + 1, paramsChanged', params')
  /\ used' = [k \in 1 .. h + 1 |-> IF k = h + 1 THEN [set |-> validators', params |-> params'] ELSE used[k]]

\* enterNewRound: a validator skips n - 1 rounds or none.
EnterNewRound(n) ==
  /\ round' = IncrementProposerPriority(round, n)
  /\ waited' = [a \in Addrs(round) |-> IF n > 1 \/ a = round'.proposer THEN 0 ELSE waited[a] + 1]
  /\ UNCHANGED <<height, validators, next, lastChanged, info, used, params, paramsChanged, paramsInfo>>

Init ==
  LET s == NewValidatorSet(Genesis) IN
  /\ height = 0 /\ validators = s /\ next = IncrementProposerPriority(s, 1)
  /\ lastChanged = 1
  /\ info = SaveValidatorsInfo(SaveValidatorsInfo(<<>>, 1, 1, s), 2, 1, next)
  /\ round = s /\ waited = [a \in DOMAIN Genesis |-> 0]
  /\ params = GenesisParams /\ paramsChanged = 1
  /\ paramsInfo = SaveConsensusParamsInfo(<<>>, 1, 1, GenesisParams)
  /\ used = <<[set |-> s, params |-> GenesisParams]>>

Next == (\E C \in Changes, u \in ParamUpdates : ApplyBlock(C, u)) \/ \E n \in {1, 2} : EnterNewRound(n)
Spec == Init /\ [][Next]_vars

-----------------------------------------------------------------------------
(* The arithmetic of the priorities is exact: MaxTotalVotingPower is small enough "to, in  *)
(* all cases: 1. prevent clipping in incrementProposerPriority()".  Nothing is lost to      *)
(* clipping, so the priorities add up to less than one for each validator, and no two are   *)
(* further apart than the window and one turn.                                              *)
PrioritiesExact ==
  \A s \in {validators, next, round} :
    /\ SumOver(Addrs(s), LAMBDA a : s.vals[a].priority) \in 0 .. Cardinality(Addrs(s)) - 1
    /\ MaxMinPriorityDiff(s) <= (PriorityWindowSizeFactor + 1) * TotalVotingPower(s)
    /\ TotalVotingPower(s) <= MaxTotalVotingPower

(* Every validator gets its turn: however the set was changed before, the rounds a          *)
(* validator waits for its turn are bounded by the window over its power.                   *)
NobodyStarves ==
  \A a \in Addrs(round) :
    waited[a] * round.vals[a].power <= (PriorityWindowSizeFactor + 1) * TotalVotingPower(round)

(* What is loaded for any height that was saved are the validators, powers and parameters  *)
(* the height was decided with, though most heights only refer to another.                  *)
LoadedMembers ==
  \A h \in DOMAIN used :
    LET s == LoadValidators(info, h) IN
    /\ Addrs(s) = Addrs(used[h].set)
    /\ \A a \in Addrs(s) : s.vals[a].power = used[h].set.vals[a].power
    /\ LoadConsensusParams(paramsInfo, h) = used[h].params
=============================================================================
