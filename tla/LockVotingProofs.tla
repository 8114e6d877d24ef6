-------------------------- MODULE LockVotingProofs -------------------------
(***************************************************************************)
(* Agreement of LockVoting, for every validator set, every family of       *)
(* quorums of which two always share a validator that follows the rules,   *)
(* and every number of rounds and blocks.                                  *)
(***************************************************************************)
EXTENDS LockVoting, TLAPS

IInv ==
    /\ TypeOK
    /\ PrecommitsBacked
    /\ LockKept
    /\ UnlockIsSafe
    /\ DecisionsCommitted

(* What every handler does, whichever votes it casts: n prevotes the values of *)
(* V and precommits those of W in round r, and ends with the lock l or with a  *)
(* decision.                                                                   *)
Effect(n, r, V, W, l) ==
    /\ n \in Honest /\ decision[n] = None
    /\ l \in Locks /\ V \subseteq Values /\ W \subseteq Values
    /\ V # {} => r \in Rounds /\ PrevoteTurn(n, r)
    /\ W # {} => r \in Rounds /\ PrecommitTurn(n, r)
    /\ \A v \in V : \E k \in Locks : MayHold(n, k) /\ MayPrevote(k, v)
    /\ \A v, w \in W : v = w
    /\ \A w \in W : MayPrecommit(n, r, w, l)
    /\ W = {} => MayHold(n, l)
    /\ prevotes' = prevotes \cup {<<n, r, v>> : v \in V}
    /\ precommits' = precommits \cup {<<n, r, v>> : v \in W}
    /\ Conclude(n, l)

LEMMA NextEffect ==
    ASSUME Next
    PROVE  \E n, r, V, W, l : Effect(n, r, V, W, l)
<1>1. PICK n \in Honest :
        /\ decision[n] = None
        /\ \/ UnlockOrDecide(n)
           \/ \E r \in Rounds : \E v \in Values :
                 \/ Prevote(n, r, v)
                 \/ Precommit(n, r, v)
                 \/ \E w \in Values : PrevoteAndPrecommit(n, r, v, w)
  BY DEF Next
<1>2. CASE UnlockOrDecide(n)
  <2>1. PICK l \in Locks : MayHold(n, l) /\ Conclude(n, l)
    BY <1>2 DEF UnlockOrDecide
  <2>2. Effect(n, 0, {}, {}, l)
    BY <1>1, <1>2, <2>1 DEF UnlockOrDecide, Effect
  <2>. QED  BY <2>2
<1>3. ASSUME NEW r \in Rounds, NEW v \in Values, Prevote(n, r, v)
      PROVE  \E p, V, W, l : Effect(n, p, V, W, l)
  <2>1. PICK l \in Locks : MayHold(n, l) /\ MayPrevote(l, v) /\ Conclude(n, l)
    BY <1>3 DEF Prevote
  <2>2. Effect(n, r, {v}, {}, l)
    BY <1>1, <1>3, <2>1 DEF Prevote, Effect
  <2>. QED  BY <2>2
<1>4. ASSUME NEW r \in Rounds, NEW v \in Values, Precommit(n, r, v)
      PROVE  \E p, V, W, l : Effect(n, p, V, W, l)
  <2>1. PICK l \in Locks : MayPrecommit(n, r, v, l) /\ Conclude(n, l)
    BY <1>4 DEF Precommit
  <2>2. Effect(n, r, {}, {v}, l)
    BY <1>1, <1>4, <2>1 DEF Precommit, Effect
  <2>. QED  BY <2>2
<1>5. ASSUME NEW r \in Rounds, NEW v \in Values, NEW w \in Values,
             PrevoteAndPrecommit(n, r, v, w)
      PROVE  \E p, V, W, l : Effect(n, p, V, W, l)
  <2>1. PICK l \in Locks : MayPrecommit(n, r, w, l) /\ Conclude(n, l)
    BY <1>5 DEF PrevoteAndPrecommit
  <2>2. PrevoteTurn(n, r) => PrecommitTurn(n, r)
    BY VotingAssumption DEF PrevoteTurn, PrecommitTurn
  <2>3. Effect(n, r, {v}, {w}, l)
    BY <1>1, <1>5, <2>1, <2>2 DEF PrevoteAndPrecommit, Effect
  <2>. QED  BY <2>3
<1>. QED  BY <1>1, <1>2, <1>3, <1>4, <1>5

(* Votes are never withdrawn, so polkas, commits and whatever they imply stay. *)
LEMMA Monotone ==
    ASSUME prevotes \subseteq prevotes', precommits \subseteq precommits'
    PROVE  /\ \A r, v : Polka(r, v) => Polka(r, v)'
           /\ \A r, v : Committed(r, v) => Committed(r, v)'
           /\ \A r, b : LaterPolka(r, b) => LaterPolka(r, b)'
           /\ \A n, r : Past(n, r) => Past(n, r)'
<1>1. \A r, v : Polka(r, v) => Polka(r, v)'
  BY DEF Polka
<1>2. \A r, v : Committed(r, v) => Committed(r, v)'
  BY DEF Committed
<1>3. \A r, b : LaterPolka(r, b) => LaterPolka(r, b)'
  BY <1>1 DEF LaterPolka
<1>4. \A n, r : Past(n, r) => Past(n, r)'
  BY DEF Past
<1>. QED  BY <1>1, <1>2, <1>3, <1>4

(* The votes a step adds are votes of one validator in one round. *)
LEMMA NewVotes ==
    ASSUME NEW n, NEW r, NEW V, NEW W, NEW l, Effect(n, r, V, W, l)
    PROVE  /\ prevotes \subseteq prevotes' /\ precommits \subseteq precommits'
           /\ \A m, p, v : <<m, p, v>> \in prevotes' =>
                 <<m, p, v>> \in prevotes \/ (m = n /\ p = r /\ v \in V)
           /\ \A m, p, v : <<m, p, v>> \in precommits' =>
                 <<m, p, v>> \in precommits \/ (m = n /\ p = r /\ v \in W)
  BY DEF Effect

LEMMA LockRound ==
    ASSUME TypeOK, NEW n \in Honest
    PROVE  lock[n].round \in Int
<1>1. lock[n] \in Locks
  BY DEF TypeOK
<1>2. CASE lock[n] = NoLock
  <2>1. NoLock.round = -1
    BY DEF NoLock
  <2>. QED  BY <1>2, <2>1
<1>3. CASE lock[n] \in [round : Rounds, block : Blocks]
  <2>1. lock[n].round \in Rounds
    BY <1>3
  <2>2. \A p \in Rounds : p \in Int
    BY VotingAssumption
  <2>. QED  BY <2>1, <2>2, Zenon
<1>. QED  BY <1>1, <1>2, <1>3 DEF Locks

(* Who precommitted b in round r and may now prevote something else, or drop   *)
(* the lock, has a later polka for something else.                             *)
LEMMA UnlockNeedsPolka ==
    ASSUME TypeOK, LockKept,
           NEW n \in Honest, decision[n] = None,
           NEW r \in Rounds, NEW b \in Blocks, <<n, r, b>> \in precommits,
           NEW l \in Locks, MayHold(n, l), l # lock[n]
    PROVE  LaterPolka(r, b)
<1>1. l = NoLock /\ Unlockable(n)
  BY DEF MayHold
<1>2. CASE lock[n].block = b /\ lock[n].round >= r
  <2>1. PICK p \in Rounds, v \in Values : p > lock[n].round /\ v # lock[n].block /\ Polka(p, v)
    BY <1>1 DEF Unlockable
  <2>2. lock[n].round \in Int
    BY LockRound
  <2>. QED  BY <1>2, <2>1, <2>2, VotingAssumption DEF LaterPolka
<1>. QED  BY <1>2 DEF LockKept

LEMMA OtherPrevoteNeedsPolka ==
    ASSUME TypeOK, LockKept,
           NEW n \in Honest, decision[n] = None,
           NEW r \in Rounds, NEW b \in Blocks, <<n, r, b>> \in precommits,
           NEW l \in Locks, MayHold(n, l),
           NEW v \in Values, MayPrevote(l, v), v # b
    PROVE  LaterPolka(r, b)
<1>1. CASE l # lock[n]
  BY <1>1, UnlockNeedsPolka
<1>2. CASE l = lock[n]
  BY <1>2, VotingAssumption DEF LockKept, MayPrevote
<1>. QED  BY <1>1, <1>2

LEMMA TypeStep ==
    ASSUME TypeOK, NEW n, NEW r, NEW V, NEW W, NEW l, Effect(n, r, V, W, l)
    PROVE  TypeOK'
<1>1. prevotes' \subseteq Honest \X Rounds \X Values
  BY DEF TypeOK, Effect
<1>2. precommits' \subseteq Honest \X Rounds \X Values
  BY DEF TypeOK, Effect
<1>3. lock' \in [Honest -> Locks]
  BY DEF TypeOK, Effect, Conclude, Locks
<1>4. decision' \in [Honest -> Blocks \cup {None}]
  BY DEF TypeOK, Effect, Conclude
<1>. QED  BY <1>1, <1>2, <1>3, <1>4 DEF TypeOK

LEMMA BackedStep ==
    ASSUME TypeOK, PrecommitsBacked,
           NEW n, NEW r, NEW V, NEW W, NEW l, Effect(n, r, V, W, l)
    PROVE  PrecommitsBacked'
<1>. SUFFICES ASSUME NEW m \in Honest, NEW p \in Rounds, NEW b \in Blocks,
                     <<m, p, b>> \in precommits'
              PROVE  /\ Polka(p, b)'
                     /\ \A v \in Values : <<m, p, v>> \in precommits' => v = b
  BY DEF PrecommitsBacked
<1>1. CASE <<m, p, b>> \in precommits
  <2>1. Polka(p, b)'
    BY <1>1, NewVotes, Monotone DEF PrecommitsBacked
  <2>2. ASSUME NEW v \in Values, <<m, p, v>> \in precommits'
        PROVE  v = b
    <3>1. CASE <<m, p, v>> \in precommits
      BY <1>1, <3>1 DEF PrecommitsBacked
    <3>2. CASE m = n /\ p = r /\ v \in W
      BY <1>1, <3>2, VotingAssumption DEF Effect, PrecommitTurn, Values
    <3>. QED  BY <2>2, <3>1, <3>2, NewVotes
  <2>. QED  BY <2>1, <2>2
<1>2. CASE <<m, p, b>> \notin precommits
  <2>1. m = n /\ p = r /\ b \in W
    BY <1>2, NewVotes
  <2>2. Polka(p, b)
    BY <2>1, VotingAssumption DEF Effect, MayPrecommit
  <2>3. ASSUME NEW v \in Values, <<m, p, v>> \in precommits'
        PROVE  v = b
    <3>1. <<m, p, v>> \notin precommits
      BY <2>1, VotingAssumption DEF Effect, PrecommitTurn
    <3>. QED  BY <2>1, <2>3, <3>1, NewVotes DEF Effect
  <2>. QED  BY <2>2, <2>3, NewVotes, Monotone
<1>. QED  BY <1>1, <1>2

(* The lock that a step leaves still covers an earlier precommit for b.        *)
LEMMA LockCovers ==
    ASSUME TypeOK, LockKept,
           NEW n, NEW r, NEW V, NEW W, NEW l, Effect(n, r, V, W, l),
           NEW p \in Rounds, NEW b \in Blocks, <<n, p, b>> \in precommits
    PROVE  (l.block = b /\ l.round >= p) \/ LaterPolka(p, b)
<1>0. n \in Honest /\ decision[n] = None /\ l \in Locks
  BY DEF Effect
<1>1. CASE MayHold(n, l)
  <2>1. CASE l = lock[n]
    BY <1>0, <2>1 DEF LockKept
  <2>2. CASE l # lock[n]
    BY <1>0, <1>1, <2>2, UnlockNeedsPolka
  <2>. QED  BY <2>1, <2>2
<1>2. CASE ~MayHold(n, l)
  <2>1. PICK w \in W : w # Nil /\ Polka(r, w) /\ l = [round |-> r, block |-> w]
    BY <1>2 DEF Effect, MayPrecommit
  <2>2. r \in Rounds /\ p < r /\ w \in Values
    BY <2>1, VotingAssumption DEF Effect, PrecommitTurn, Values
  <2>3. p \in Int /\ r \in Int
    BY <2>2, VotingAssumption
  <2>4. CASE w = b
    BY <2>1, <2>2, <2>3, <2>4
  <2>5. CASE w # b
    BY <2>1, <2>2, <2>3, <2>5 DEF LaterPolka
  <2>. QED  BY <2>4, <2>5
<1>. QED  BY <1>1, <1>2

LEMMA LockStep ==
    ASSUME TypeOK, LockKept,
           NEW n, NEW r, NEW V, NEW W, NEW l, Effect(n, r, V, W, l)
    PROVE  LockKept'
<1>. SUFFICES ASSUME NEW m \in Honest, NEW p \in Rounds, NEW b \in Blocks,
                     <<m, p, b>> \in precommits'
              PROVE  /\ \/ decision'[m] # None
                        \/ lock'[m].block = b /\ lock'[m].round >= p
                        \/ LaterPolka(p, b)'
                     /\ \A q \in Rounds : \A v \in Values :
                          <<m, q, v>> \in prevotes' /\ q > p /\ v # b => LaterPolka(p, b)'
  BY DEF LockKept
<1>0. n \in Honest /\ decision[n] = None /\ l \in Locks
  BY DEF Effect
<1>1. LaterPolka(p, b) => LaterPolka(p, b)'
  BY NewVotes, Monotone
<1>2. CASE m # n
  <2>1. <<m, p, b>> \in precommits
    BY <1>2, NewVotes
  <2>2. decision'[m] = decision[m] /\ lock'[m] = lock[m]
    BY <1>2 DEF Effect, Conclude, TypeOK
  <2>3. \A q, v : <<m, q, v>> \in prevotes' => <<m, q, v>> \in prevotes
    BY <1>2, NewVotes
  <2>. QED  BY <1>1, <2>1, <2>2, <2>3 DEF LockKept
<1>3. CASE m = n
  <2>1. \/ decision'[n] # None
        \/ lock'[n] = l
    BY <1>0, VotingAssumption DEF Effect, Conclude, TypeOK
  <2>2. CASE <<n, p, b>> \in precommits
    <3>1. (l.block = b /\ l.round >= p) \/ LaterPolka(p, b)
      BY <2>2, LockCovers
    <3>2. ASSUME NEW q \in Rounds, NEW v \in Values,
                 <<n, q, v>> \in prevotes', q > p, v # b
          PROVE  LaterPolka(p, b)
      <4>1. CASE <<n, q, v>> \in prevotes
        BY <2>2, <3>2, <4>1, <1>0 DEF LockKept
      <4>2. CASE q = r /\ v \in V
        <5>1. PICK k \in Locks : MayHold(n, k) /\ MayPrevote(k, v)
          BY <4>2 DEF Effect
        <5>. QED  BY <1>0, <2>2, <3>2, <5>1, OtherPrevoteNeedsPolka
      <4>. QED  BY <3>2, <4>1, <4>2, NewVotes
    <3>. QED  BY <1>1, <1>3, <2>1, <3>1, <3>2
  <2>3. CASE <<n, p, b>> \notin precommits
    <3>1. p = r /\ b \in W
      BY <1>3, <2>3, NewVotes
    <3>2. l = [round |-> r, block |-> b]
      BY <3>1, VotingAssumption DEF Effect, MayPrecommit
    <3>3. p \in Int
      BY VotingAssumption
    <3>4. ASSUME NEW q \in Rounds, NEW v \in Values, <<n, q, v>> \in prevotes'
          PROVE  ~(q > p)
      <4>1. CASE <<n, q, v>> \in prevotes
        BY <3>1, <4>1, VotingAssumption DEF Effect, PrecommitTurn
      <4>2. CASE q = r
        BY <3>1, <3>3, <4>2
      <4>. QED  BY <3>4, <4>1, <4>2, NewVotes
    <3>5. l.block = b /\ l.round >= p
      BY <3>1, <3>2, <3>3
    <3>. QED  BY <1>3, <2>1, <3>4, <3>5
  <2>. QED  BY <2>2, <2>3
<1>. QED  BY <1>2, <1>3

LEMMA SafeStep ==
    ASSUME TypeOK, LockKept, UnlockIsSafe,
           NEW n, NEW r, NEW V, NEW W, NEW l, Effect(n, r, V, W, l)
    PROVE  UnlockIsSafe'
<1>. SUFFICES ASSUME NEW p \in Rounds, NEW b \in Blocks, LaterPolka(p, b)',
                     NEW Q \in Quorums
              PROVE  \E m \in Honest :
                        m \in Q /\ Past(m, p)' /\ <<m, p, b>> \notin precommits'
  BY DEF UnlockIsSafe
<1>0. n \in Honest /\ decision[n] = None /\ l \in Locks
  BY DEF Effect
<1>1. CASE LaterPolka(p, b)
  <2>1. PICK m \in Honest : m \in Q /\ Past(m, p) /\ <<m, p, b>> \notin precommits
    BY <1>1 DEF UnlockIsSafe
  <2>2. Past(m, p)'
    BY <2>1, NewVotes, Monotone
  <2>3. ASSUME m = n, p = r, b \in W
        PROVE  FALSE
    <3>1. PICK q \in Rounds, v \in Values :
            \/ <<m, q, v>> \in prevotes /\ q > p
            \/ <<m, q, v>> \in precommits /\ q >= p
      BY <2>1 DEF Past
    <3>. QED  BY <2>3, <3>1, VotingAssumption DEF Effect, PrecommitTurn
  <2>4. <<m, p, b>> \notin precommits'
    BY <2>1, <2>3, NewVotes
  <2>. QED  BY <2>1, <2>2, <2>4
<1>2. CASE ~LaterPolka(p, b)
  <2>1. PICK q \in Rounds, v \in Values : q > p /\ v # b /\ Polka(q, v)'
    BY DEF LaterPolka
  <2>2. PICK R \in Quorums : \A m \in R : m \in Faulty \/ <<m, q, v>> \in prevotes'
    BY <2>1 DEF Polka
  <2>3. PICK m \in Honest : m \in Q /\ m \in R
    BY VotingAssumption
  <2>4. <<m, q, v>> \in prevotes'
    BY <2>2, <2>3 DEF Honest
  <2>5. Past(m, p)'
    BY <2>1, <2>4 DEF Past
  <2>6. ASSUME <<m, p, b>> \in precommits
        PROVE  FALSE
    <3>1. CASE <<m, q, v>> \in prevotes
      BY <1>2, <2>1, <2>6, <3>1 DEF LockKept
    <3>2. CASE m = n /\ v \in V
      <4>1. PICK k \in Locks : MayHold(n, k) /\ MayPrevote(k, v)
        BY <3>2 DEF Effect
      <4>. QED  BY SMTT(30), <1>0, <1>2, <2>1, <2>6, <3>2, <4>1, OtherPrevoteNeedsPolka
    <3>. QED  BY <2>4, <3>1, <3>2, NewVotes
  <2>7. ASSUME m = n, p = r, b \in W
        PROVE  FALSE
    <3>1. CASE <<m, q, v>> \in prevotes
      BY <2>1, <2>7, <3>1, VotingAssumption DEF Effect, PrecommitTurn
    <3>2. CASE q = r
      BY <2>1, <2>7, <3>2, VotingAssumption
    <3>. QED  BY SMTT(30), <2>4, <3>1, <3>2, NewVotes
  <2>8. <<m, p, b>> \notin precommits'
    BY <2>6, <2>7, NewVotes
  <2>. QED  BY <2>3, <2>5, <2>8
<1>. QED  BY <1>1, <1>2

LEMMA DecisionStep ==
    ASSUME TypeOK, DecisionsCommitted,
           NEW n, NEW r, NEW V, NEW W, NEW l, Effect(n, r, V, W, l)
    PROVE  DecisionsCommitted'
<1>. SUFFICES ASSUME NEW m \in Honest, NEW b \in Blocks, decision'[m] = b
              PROVE  \E p \in Rounds : Committed(p, b)'
  BY DEF DecisionsCommitted
<1>1. CASE decision[m] = b
  <2>1. PICK p \in Rounds : Committed(p, b)
    BY <1>1 DEF DecisionsCommitted
  <2>. QED  BY <2>1, NewVotes, Monotone
<1>2. CASE decision[m] # b
  <2>1. PICK c \in Blocks, p \in Rounds :
          Committed(p, c) /\ decision' = [decision EXCEPT ![n] = c]
    BY <1>2 DEF Effect, Conclude
  <2>2. c = b
    BY <1>2, <2>1 DEF TypeOK
  <2>. QED  BY SMTT(30), <2>1, <2>2, NewVotes, Monotone
<1>. QED  BY <1>1, <1>2

LEMMA Inductive == IInv /\ [Next]_vars => IInv'
<1>. SUFFICES ASSUME IInv, [Next]_vars
              PROVE  IInv'
  OBVIOUS
<1>1. CASE Next
  <2>1. PICK n, r, V, W, l : Effect(n, r, V, W, l)
    BY <1>1, NextEffect
  <2>. QED  BY <2>1, TypeStep, BackedStep, LockStep, SafeStep, DecisionStep DEF IInv
<1>2. CASE UNCHANGED vars
  <2>1. TypeOK'
    BY <1>2 DEF vars, IInv, TypeOK
  <2>2. PrecommitsBacked'
    BY <1>2 DEF vars, IInv, PrecommitsBacked, Polka
  <2>3. LockKept'
    BY <1>2 DEF vars, IInv, LockKept, LaterPolka, Polka
  <2>4. UnlockIsSafe'
    BY <1>2 DEF vars, IInv, UnlockIsSafe, LaterPolka, Past, Polka
  <2>5. DecisionsCommitted'
    BY <1>2 DEF vars, IInv, DecisionsCommitted, Committed
  <2>. QED  BY <2>1, <2>2, <2>3, <2>4, <2>5 DEF IInv
<1>. QED  BY <1>1, <1>2

LEMMA Initial == Init => IInv
<1>. SUFFICES ASSUME Init
              PROVE  IInv
  OBVIOUS
<1>0. TypeOK
  <2>1. NoLock \in Locks
    BY DEF Locks
  <2>. QED  BY <2>1 DEF Init, TypeOK
<1>1. DecisionsCommitted /\ PrecommitsBacked /\ LockKept
  BY VotingAssumption DEF Init, DecisionsCommitted, PrecommitsBacked, LockKept
<1>2. ASSUME NEW r, NEW b, LaterPolka(r, b)
      PROVE  FALSE
  <2>1. PICK p, v : Polka(p, v)
    BY <1>2 DEF LaterPolka
  <2>. QED  BY <2>1, VotingAssumption DEF Polka, Init, Honest
<1>3. UnlockIsSafe
  BY <1>2 DEF UnlockIsSafe
<1>. QED  BY <1>0, <1>1, <1>3 DEF IInv

(* Two committed blocks are the same: in one round because a validator that    *)
(* follows the rules precommits once, in two rounds because the later block    *)
(* has a polka, after which the earlier one could not be committed.            *)
LEMMA OneBlock ==
    ASSUME IInv,
           NEW p \in Rounds, NEW b \in Blocks, Committed(p, b),
           NEW q \in Rounds, NEW c \in Blocks, Committed(q, c), p <= q
    PROVE  b = c
<1>. SUFFICES ASSUME b # c PROVE FALSE
  OBVIOUS
<1>1. PICK P \in Quorums : \A m \in P : m \in Faulty \/ <<m, p, b>> \in precommits
  BY DEF Committed
<1>2. PICK Q \in Quorums : \A m \in Q : m \in Faulty \/ <<m, q, c>> \in precommits
  BY DEF Committed
<1>3. PICK m \in Honest : m \in P /\ m \in Q
  BY VotingAssumption
<1>4. <<m, p, b>> \in precommits /\ <<m, q, c>> \in precommits
  BY <1>1, <1>2, <1>3 DEF Honest
<1>5. p # q
  BY <1>4 DEF IInv, PrecommitsBacked, Values
<1>6. LaterPolka(p, b)
  BY <1>4, <1>5, VotingAssumption DEF IInv, PrecommitsBacked, LaterPolka, Values
<1>7. \E k \in Honest : k \in P /\ <<k, p, b>> \notin precommits
  BY <1>6 DEF IInv, UnlockIsSafe
<1>. QED  BY <1>1, <1>7 DEF Honest

LEMMA InvAgreement == IInv => Agreement
<1>. SUFFICES ASSUME IInv, NEW n \in Honest, NEW m \in Honest,
                     decision[n] # None, decision[m] # None
              PROVE  decision[n] = decision[m]
  BY DEF Agreement
<1>1. decision[n] \in Blocks /\ decision[m] \in Blocks
  BY DEF IInv, TypeOK
<1>2. PICK p \in Rounds : Committed(p, decision[n])
  BY <1>1 DEF IInv, DecisionsCommitted
<1>3. PICK q \in Rounds : Committed(q, decision[m])
  BY <1>1 DEF IInv, DecisionsCommitted
<1>4. p <= q \/ q <= p
  BY VotingAssumption
<1>. QED  BY <1>1, <1>2, <1>3, <1>4, OneBlock

(* The votes, locks and decisions keep their invariant. *)
LEMMA Invariance == Spec => []IInv
  BY Initial, Inductive, PTL DEF Spec

(* Two validators that follow the voting rules of consensus/state.go never     *)
(* commit different blocks at a height.                                        *)
THEOREM SafeAgreement == Spec => []Agreement
  BY Invariance, InvAgreement, PTL

(* A validator that drops its lock for a more recent polka (addVote,           *)
(* enterPrecommit) never endangers a block that was or could be committed.     *)
THEOREM SafeUnlock == Spec => []UnlockIsSafe
<1>1. IInv => UnlockIsSafe
  BY DEF IInv
<1>. QED  BY <1>1, Invariance, PTL

=============================================================================
