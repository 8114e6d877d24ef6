----------------------------- MODULE LockVoting ----------------------------
(***************************************************************************)
(* What the validators of consensus/state.go promise each other, without   *)
(* messages, timers and block parts: how a validator may vote, given its   *)
(* lock, and when a block is decided.  The rules are those of              *)
(* defaultDoPrevote, enterPrecommit and addVote; Consensus implements this *)
(* specification.                                                          *)
(*                                                                         *)
(* A faulty validator may have sent any vote to anyone, so it counts as a  *)
(* voter for every value in every round.                                   *)
(***************************************************************************)
EXTENDS Integers

CONSTANTS
    Validators,
    Faulty,      \* validators that do not follow the rules
    Quorums,     \* the sets of validators with more than 2/3 of the voting power
    Blocks,
    Nil,         \* the value of a vote for nil
    None,        \* no lock, no decision
    Rounds

Honest == Validators \ Faulty
Values == Blocks \cup {Nil}

(* Any two quorums share a validator that follows the rules: less than one    *)
(* third of the voting power is faulty.                                       *)
ASSUME VotingAssumption ==
    /\ Rounds \subseteq Nat
    /\ Nil \notin Blocks /\ None \notin Blocks
    /\ Quorums \subseteq SUBSET Validators
    /\ \A P, Q \in Quorums : \E n \in Honest : n \in P /\ n \in Q

VARIABLES
    prevotes,    \* {<<n, r, v>>}: honest validator n prevoted v in round r
    precommits,  \* {<<n, r, v>>}: honest validator n precommitted v in round r
    lock,        \* lock[n]: LockedRound and LockedBlock
    decision     \* decision[n]: the committed block

vars == <<prevotes, precommits, lock, decision>>

NoLock == [round |-> -1, block |-> None]

(* A set of more than two thirds prevoted v in round r, in what is sent so far. *)
Polka(r, v) ==
    \E Q \in Quorums : \A n \in Q : n \in Faulty \/ <<n, r, v>> \in prevotes

Committed(r, v) ==
    \E Q \in Quorums : \A n \in Q : n \in Faulty \/ <<n, r, v>> \in precommits

(* A polka more recent than the lock, and not for the locked block, may have   *)
(* removed it.                                                                 *)
Unlockable(n) ==
    \E r \in Rounds : \E v \in Values :
        r > lock[n].round /\ v # lock[n].block /\ Polka(r, v)

MayHold(n, l) == l = lock[n] \/ (l = NoLock /\ Unlockable(n))

(* A validator votes once per round and kind, in the order of the rounds, and  *)
(* its prevote before its precommit.                                           *)
PrevoteTurn(n, r) ==
    \A p \in Rounds : \A v \in Values :
        (<<n, p, v>> \in prevotes \/ <<n, p, v>> \in precommits) => p < r

PrecommitTurn(n, r) ==
    \A p \in Rounds : \A v \in Values :
        /\ <<n, p, v>> \in prevotes => p <= r
        /\ <<n, p, v>> \in precommits => p < r

(* A validator that holds a lock prevotes the locked block and nothing else.   *)
MayPrevote(l, v) == l.block = None \/ v = l.block

MayPrecommit_NoPolka(n, r, v, l) ==
    IF v = Nil THEN MayHold(n, l) ELSE l = [round |-> r, block |-> v]

(* The locks a precommit for v in round r may leave: the block needs a polka,  *)
(* and is locked; nil leaves the lock, or drops it for a recent polka.         *)
MayPrecommit(n, r, v, l) ==
    IF v = Nil THEN MayHold(n, l)
    ELSE Polka(r, v) /\ l = [round |-> r, block |-> v]

Locks == [round : Rounds, block : Blocks] \cup {NoLock}

(* The end of a handler: it leaves the lock l, or it commits a block with +2/3 *)
(* precommits, and the lock goes with the rest of the height's round state.    *)
Conclude(n, l) ==
    \/ /\ lock' = [lock EXCEPT ![n] = l]
       /\ UNCHANGED decision
    \/ \E b \in Blocks :
          /\ \E r \in Rounds : Committed(r, b)
          /\ lock' = [lock EXCEPT ![n] = NoLock]
          /\ decision' = [decision EXCEPT ![n] = b]

Prevote(n, r, v) ==
    /\ PrevoteTurn(n, r)
    /\ \E l \in Locks : MayHold(n, l) /\ MayPrevote(l, v) /\ Conclude(n, l)
    /\ prevotes' = prevotes \cup {<<n, r, v>>}
    /\ UNCHANGED precommits

Precommit(n, r, v) ==
    /\ PrecommitTurn(n, r)
    /\ \E l \in Locks : MayPrecommit(n, r, v, l) /\ Conclude(n, l)
    /\ precommits' = precommits \cup {<<n, r, v>>}
    /\ UNCHANGED prevotes

(* The block of a polka arrives: the validator prevotes and precommits at once. *)
PrevoteAndPrecommit(n, r, v, w) ==
    /\ PrevoteTurn(n, r)
    /\ \E l \in Locks : MayHold(n, l) /\ MayPrevote(l, v)
    /\ \E l \in Locks : MayPrecommit(n, r, w, l) /\ Conclude(n, l)
    /\ prevotes' = prevotes \cup {<<n, r, v>>}
    /\ precommits' = precommits \cup {<<n, r, w>>}

(* No vote: a lock is dropped, or a block is committed. *)
UnlockOrDecide(n) ==
    /\ \E l \in Locks : MayHold(n, l) /\ Conclude(n, l)
    /\ UNCHANGED <<prevotes, precommits>>

Init ==
    /\ prevotes = {} /\ precommits = {}
    /\ lock = [n \in Honest |-> NoLock]
    /\ decision = [n \in Honest |-> None]

(* A validator that has committed takes no further part in the height. *)
Next ==
    \E n \in Honest :
        /\ decision[n] = None
        /\ \/ UnlockOrDecide(n)
           \/ \E r \in Rounds : \E v \in Values :
                 \/ Prevote(n, r, v)
                 \/ Precommit(n, r, v)
                 \/ \E w \in Values : PrevoteAndPrecommit(n, r, v, w)

Spec == Init /\ [][Next]_vars

----------------------------------------------------------------------------
(* Type invariant of the votes, locks and decisions. *)
TypeOK ==
    /\ prevotes \subseteq Honest \X Rounds \X Values
    /\ precommits \subseteq Honest \X Rounds \X Values
    /\ lock \in [Honest -> Locks]
    /\ decision \in [Honest -> Blocks \cup {None}]

(* Two validators that follow the rules never commit different blocks of a     *)
(* height (enterCommit, finalizeCommit), in whatever rounds they do so.        *)
Agreement ==
    \A n, m \in Honest :
        decision[n] # None /\ decision[m] # None => decision[n] = decision[m]

(* A later round has a polka for something else than b. *)
LaterPolka(r, b) ==
    \E p \in Rounds : \E v \in Values : p > r /\ v # b /\ Polka(p, v)

(* n will not precommit in round r any more. *)
Past(n, r) ==
    \E p \in Rounds : \E v \in Values :
        \/ <<n, p, v>> \in prevotes /\ p > r
        \/ <<n, p, v>> \in precommits /\ p >= r

(* Once a later round has a polka for something else, the block of round r can *)
(* no longer be committed: every quorum holds a validator that follows the     *)
(* rules, has not precommitted the block in round r and never will.  This is   *)
(* what makes it safe to unlock on a more recent polka (addVote,               *)
(* enterPrecommit).                                                            *)
UnlockIsSafe ==
    \A r \in Rounds : \A b \in Blocks : LaterPolka(r, b) =>
        \A Q \in Quorums : \E n \in Honest :
            n \in Q /\ Past(n, r) /\ <<n, r, b>> \notin precommits

(* A validator precommits one value per round, and a block only on a polka for *)
(* it in the same round (enterPrecommit).                                      *)
PrecommitsBacked ==
    \A n \in Honest : \A r \in Rounds : \A b \in Blocks :
        <<n, r, b>> \in precommits =>
            Polka(r, b) /\ \A v \in Values : <<n, r, v>> \in precommits => v = b

(* After it precommitted b, a validator is locked on b, or there is a later    *)
(* polka for something else; without one it prevotes nothing but b.            *)
LockKept ==
    \A n \in Honest : \A r \in Rounds : \A b \in Blocks :
        <<n, r, b>> \in precommits =>
            /\ \/ decision[n] # None
               \/ lock[n].block = b /\ lock[n].round >= r
               \/ LaterPolka(r, b)
            /\ \A p \in Rounds : \A v \in Values :
                  <<n, p, v>> \in prevotes /\ p > r /\ v # b => LaterPolka(r, b)

DecisionsCommitted ==
    \A n \in Honest : \A b \in Blocks : decision[n] = b => \E r \in Rounds : Committed(r, b)

=============================================================================
