--------------------------- MODULE MultiSigProofs ---------------------------
(*****************************************************************************)
(* Theorems about the multi-sig protocol, for any number of guards, any      *)
(* losses and delays, and their proofs.                                      *)
(*****************************************************************************)
EXTENDS MultiSig, FiniteSetTheorems, TLAPS

\* Some round is complete: it may be taken for signed.
SomeComplete == \E p \in proofs : Shared!Complete(p.round, proofs)

\* A transaction that was asked for is in the queue and its promise is open, or was
\* rejected as sign failed; while its state context is awaited it is not removed.
Asked ==
  \A g \in Guards : /\ tx[g].asked => Queued(g) /\ promise[g] \in {"open", "rejected"}
                    /\ sem[g].pc = "simulate" => tx[g].asked

\* Proofs that a guard holds, or that are under way, were given.
Given ==
  /\ \A g, h \in Guards : tx[g].signs[h] # NoProof =>
       [by |-> h, n |-> tx[g].signs[h].n, round |-> tx[g].signs[h].round] \in proofs
  /\ \A m \in net : m.type = "sign" => [by |-> m.from, n |-> m.n, round |-> m.round] \in proofs

\* What passes for a valid transaction comes from a complete round.
Backed ==
  /\ \A g \in Guards : TRUE \in signed[g] => SomeComplete
  /\ \A m \in net : m.type = "signed" /\ m.valid => SomeComplete

\* The inductive invariant.
Inv == TypeOK /\ OpenPromiseQueued /\ Asked /\ Given /\ Backed

-----------------------------------------------------------------------------
LEMMA Sizes ==
  /\ N \in Nat \ {0} /\ Required \in Nat \ {0}
  /\ Guards \subseteq Nat /\ 0 \in Guards
  /\ \A t \in Nat : t % N \in Guards
BY SizeAssumption DEF Guards

LEMMA NoneTyped ==
  /\ NoRound \in Round /\ NoProof \in Proof /\ NoTx \in TxQueued
  /\ Free \in [pc : {"free", "simulate", "stuck"}, com : [Guards -> Nat]]
  /\ Stuck \in [pc : {"free", "simulate", "stuck"}, com : [Guards -> Nat]]
<1>1. NoRound \in Round
  BY Sizes DEF NoRound, Round
<1>2. NoProof \in Proof
  BY <1>1 DEF NoProof, Proof
<1>3. NoTx \in TxQueued
  BY <1>2 DEF NoTx, TxQueued, Undefined
<1>4. /\ Free \in [pc : {"free", "simulate", "stuck"}, com : [Guards -> Nat]]
      /\ Stuck \in [pc : {"free", "simulate", "stuck"}, com : [Guards -> Nat]]
  BY DEF Free, Stuck
<1>. QED
  BY <1>1, <1>2, <1>3, <1>4

LEMMA MsgTyped ==
  ASSUME TypeOK, NEW type \in {"generate", "commit", "initiate", "sign", "signed"},
         NEW g \in Guards, NEW h \in Guards, NEW n \in Nat, NEW r \in Round, NEW valid \in BOOLEAN
  PROVE  /\ Msg(type, g, h, n, r, valid) \in Message
         /\ Msg(type, g, h, n, r, valid).type = type
         /\ Msg(type, g, h, n, r, valid).from = g /\ Msg(type, g, h, n, r, valid).n = n
         /\ Msg(type, g, h, n, r, valid).round = r /\ Msg(type, g, h, n, r, valid).valid = valid
BY DEF Msg, Message, TypeOK

LEMMA EntryTyped ==
  ASSUME TypeOK, NEW g \in Guards
  PROVE  /\ Entry(g) \in TxQueued /\ Entry(g).createTime # -1
         /\ Entry(g).asked => tx[g].asked
         /\ \A h \in Guards : Entry(g).signs[h] = tx[g].signs[h] \/ Entry(g).signs[h] = NoProof
<1>1. CASE Queued(g)
  BY <1>1 DEF Entry, TypeOK, Queued
<1>2. CASE ~Queued(g)
  <2>1. Entry(g) = [NoTx EXCEPT !.createTime = turn] /\ turn \in Nat
    BY <1>2 DEF Entry, TypeOK
  <2>2. /\ Entry(g).createTime = turn /\ ~Entry(g).asked
        /\ \A h \in Guards : Entry(g).signs[h] = NoProof
    BY <2>1 DEF NoTx
  <2>3. Entry(g) \in TxQueued
    BY <2>1, NoneTyped DEF TxQueued
  <2>. QED
    BY <2>1, <2>2, <2>3
<1>. QED
  BY <1>1, <1>2

\* More proofs leave a complete round complete.
LEMMA CompleteGrows ==
  ASSUME SomeComplete, proofs \subseteq proofs'
  PROVE  SomeComplete'
BY DEF SomeComplete, Shared!Complete

-----------------------------------------------------------------------------
LEMMA InitInv == Init => Inv
<1> SUFFICES ASSUME Init PROVE Inv
  OBVIOUS
<1>1. TypeOK
  BY NoneTyped DEF Init, TypeOK
<1>2. \A g \in Guards : tx[g] = NoTx /\ sem[g] = Free /\ promise[g] = "none" /\ signed[g] = {}
  BY DEF Init
<1>3. \A g \in Guards : ~tx[g].asked /\ sem[g].pc = "free" /\ \A h \in Guards : tx[g].signs[h] = NoProof
  BY <1>2 DEF NoTx, Free
<1>. QED
  BY <1>1, <1>2, <1>3 DEF Init, Inv, OpenPromiseQueued, Asked, Given, Backed

-----------------------------------------------------------------------------
Types == /\ turn \in Nat /\ calls \in Nat
         /\ sem \in [Guards -> [pc : {"free", "simulate", "stuck"}, com : [Guards -> Nat]]]
         /\ signed \in [Guards -> SUBSET BOOLEAN]
         /\ gens \in [Guards -> Nat] /\ sims \in [Guards -> Nat]
         /\ promise \in [Guards -> {"none", "open", "rejected", "resolved", "invalid", "timed out"}]
         /\ proofs \subseteq [by : Guards, n : Nat, round : Round]

\* Signatures that were given.
Shown(e) ==
  \A h \in Guards : e.signs[h] # NoProof =>
    [by |-> h, n |-> e.signs[h].n, round |-> e.signs[h].round] \in proofs

\* A message that says what is so.
Honest(m) ==
  /\ m \in Message
  /\ m.type = "sign" => [by |-> m.from, n |-> m.n, round |-> m.round] \in proofs
  /\ m.type = "signed" /\ m.valid => SomeComplete

\* What is asked of a guard, and its promise p, go together.
Matches(asked, p) == /\ p = "open" => asked
                     /\ asked => p \in {"open", "rejected"}

\* A step that changes the transaction of one guard, and keeps the promise of
\* the others, keeps the invariant.
LEMMA OneChanged ==
  ASSUME Inv, NEW g \in Guards, NEW e \in TxQueued,
         tx' = [tx EXCEPT ![g] = e],
         Types', proofs \subseteq proofs', Shown(e)',
         Matches(e.asked, promise'[g]), e.asked => e.createTime # -1,
         sem'[g].pc = "simulate" => e.asked,
         \A h \in Guards \ {g} : promise'[h] = promise[h] /\ sem'[h] = sem[h],
         \A m \in net' : m \in net \/ Honest(m)',
         \A h \in Guards : TRUE \in signed'[h] => TRUE \in signed[h] \/ SomeComplete'
  PROVE  Inv'
<1>0. SomeComplete => SomeComplete'
  BY CompleteGrows
<1>1. \A h \in Guards : tx'[h] = IF h = g THEN e ELSE tx[h]
  BY DEF Inv, TypeOK
<1>2. \A m \in net : Honest(m)
  BY DEF Inv, TypeOK, Given, Backed, Honest
<1>3. \A m \in net : Honest(m)'
  BY <1>0, <1>2 DEF Honest
<1>4. TypeOK'
  <2>1. tx' \in [Guards -> TxQueued]
    BY DEF Inv, TypeOK
  <2>2. net' \subseteq Message
    BY <1>3 DEF Honest
  <2>. QED
    BY <2>1, <2>2 DEF TypeOK, Types
<1>5. OpenPromiseQueued' /\ Asked'
  BY <1>1 DEF Inv, OpenPromiseQueued, Asked, Queued, Matches
<1>6. Given'
  <2>1. \A h \in Guards : Shown(tx[h])'
    BY DEF Inv, Given, Shown
  <2>. QED
    BY <1>1, <1>3, <2>1 DEF Given, Shown, Honest
<1>7. Backed'
  BY <1>0, <1>3 DEF Inv, Backed, Honest
<1>. QED
  BY <1>4, <1>5, <1>6, <1>7 DEF Inv
-----------------------------------------------------------------------------
\* A commitment changes neither the signatures nor whether it was asked for.
LEMMA Generated ==
  ASSUME TypeOK, NEW g \in Guards, NEW e \in TxQueued, NEW known \in BOOLEAN, NEW m,
         GenerateCommitment(g, e, known, m)
  PROVE  /\ \E f \in TxQueued : /\ tx' = [tx EXCEPT ![g] = f]
                               /\ f.asked = e.asked /\ f.createTime = e.createTime
                               /\ f.signs = e.signs
         /\ gens' \in [Guards -> Nat]
         /\ \A x \in net' : x \in m \/ (x \in Message /\ x.type = "commit")
<1>1. gens \in [Guards -> Nat] /\ turn \in Nat /\ Leader \in Guards /\ gens[g] + 1 \in Nat
  <2>1. gens \in [Guards -> Nat] /\ turn \in Nat
    BY DEF TypeOK
  <2>2. Leader \in Guards
    BY <2>1, Sizes DEF Leader
  <2>. QED
    BY <2>1, <2>2
<1>2. CASE known /\ e.asked
  <2> DEFINE f == [e EXCEPT !.coordinator = Leader, !.secret = gens[g] + 1,
                            !.commitments[g] = gens[g] + 1]
  <2>1. WithCommitment(g, e) = f
    BY <1>2 DEF WithCommitment
  <2>2. f \in TxQueued /\ f.asked = e.asked /\ f.createTime = e.createTime /\ f.signs = e.signs
    BY <1>1 DEF TxQueued
  <2>3. /\ Msg("commit", g, Leader, gens[g] + 1, NoRound, FALSE) \in Message
        /\ Msg("commit", g, Leader, gens[g] + 1, NoRound, FALSE).type = "commit"
    BY <1>1, NoneTyped DEF Msg, Message
  <2>. QED
    BY <1>1, <1>2, <2>1, <2>2, <2>3 DEF GenerateCommitment
<1>3. CASE ~(known /\ e.asked)
  BY <1>1, <1>3 DEF GenerateCommitment
<1>. QED
  BY <1>2, <1>3

\* What the invariant says of the transaction of one guard.
LEMMA Facts ==
  ASSUME Inv, NEW g \in Guards
  PROVE  /\ TypeOK /\ Types
         /\ tx[g] \in TxQueued /\ Shown(tx[g])
         /\ Matches(tx[g].asked, promise[g])
         /\ tx[g].asked => tx[g].createTime # -1
         /\ sem[g].pc = "simulate" => tx[g].asked
         /\ Entry(g) \in TxQueued /\ Shown(Entry(g)) /\ Entry(g).asked = tx[g].asked
         /\ Entry(g).createTime # -1
<1>1. /\ TypeOK /\ Types
      /\ tx[g] \in TxQueued /\ Shown(tx[g])
      /\ Matches(tx[g].asked, promise[g])
      /\ tx[g].asked => tx[g].createTime # -1
      /\ sem[g].pc = "simulate" => tx[g].asked
  BY DEF Inv, TypeOK, Types, Given, Shown, Asked, OpenPromiseQueued, Queued, Matches
<1>2. Entry(g) \in TxQueued /\ Entry(g).createTime # -1 /\ Shown(Entry(g))
  BY <1>1, EntryTyped DEF Shown
<1>3. Entry(g).asked = tx[g].asked
  BY <1>1 DEF Entry, Queued, TxQueued, NoTx
<1>. QED
  BY <1>1, <1>2, <1>3

LEMMA SignInv == ASSUME Inv, NEW g \in Guards, Sign(g) PROVE Inv'
<1> DEFINE e == [Entry(g) EXCEPT !.asked = TRUE]
<1>1. PICK known \in BOOLEAN : GenerateCommitment(g, e, known, net)
  BY SizeAssumption DEF Sign, MayKnow
<1>2. e \in TxQueued /\ e.asked /\ e.createTime # -1 /\ Shown(e)
  <2>1. e \in TxQueued /\ e.asked /\ e.createTime = Entry(g).createTime /\ e.signs = Entry(g).signs
    BY Facts DEF TxQueued
  <2>. QED
    BY <2>1, Facts DEF Shown
<1>. HIDE DEF e
<1>3. PICK f \in TxQueued : /\ tx' = [tx EXCEPT ![g] = f]
                           /\ f.asked = e.asked /\ f.createTime = e.createTime
                           /\ f.signs = e.signs
  <2>1. TypeOK
    BY Facts
  <2>. QED
    BY <1>1, <1>2, <2>1, Generated, Zenon
<1>4. /\ promise' = [promise EXCEPT ![g] = "open"]
      /\ UNCHANGED <<turn, calls, sem, signed, sims, proofs>>
  BY DEF Sign
<1>5. gens' \in [Guards -> Nat] /\ \A x \in net' : x \in net \/ (x \in Message /\ x.type = "commit")
  BY <1>1, <1>2, Facts, Generated
<1>6. Types' /\ proofs \subseteq proofs'
  BY <1>4, <1>5, Facts DEF Types
<1>7. promise'[g] = "open" /\ \A h \in Guards \ {g} : promise'[h] = promise[h]
  BY <1>4, Facts DEF Types
<1>. QED
  BY <1>2, <1>3, <1>4, <1>5, <1>6, <1>7, OneChanged DEF Shown, Honest, Matches

LEMMA SignFailsInv == ASSUME Inv, NEW g \in Guards, SignFails(g) PROVE Inv'
<1> DEFINE e == [Entry(g) EXCEPT !.asked = TRUE]
<1>1. e \in TxQueued /\ e.asked /\ e.createTime # -1 /\ Shown(e)
  <2>1. e \in TxQueued /\ e.asked /\ e.createTime = Entry(g).createTime /\ e.signs = Entry(g).signs
    BY Facts DEF TxQueued
  <2>. QED
    BY <2>1, Facts DEF Shown
<1>2. /\ promise' = [promise EXCEPT ![g] = "rejected"]
      /\ UNCHANGED <<turn, calls, sem, signed, net, sims, proofs>>
      /\ \/ tx' = [tx EXCEPT ![g] = e] /\ UNCHANGED gens
         \/ /\ gens' = [gens EXCEPT ![g] = @ + 1]
            /\ tx' = [tx EXCEPT ![g] = WithCommitment(g, e)]
  BY DEF SignFails
<1>3. gens \in [Guards -> Nat] /\ Leader \in Guards /\ gens[g] + 1 \in Nat
  <2>1. gens \in [Guards -> Nat] /\ turn \in Nat
    BY Facts DEF Types
  <2>2. Leader \in Guards
    BY <2>1, Sizes DEF Leader
  <2>. QED
    BY <2>1, <2>2
<1>. HIDE DEF e
<1>4. PICK f \in TxQueued : /\ tx' = [tx EXCEPT ![g] = f]
                           /\ f.asked = e.asked /\ f.createTime = e.createTime
                           /\ f.signs = e.signs
  <2> DEFINE c == [e EXCEPT !.coordinator = Leader, !.secret = gens[g] + 1,
                            !.commitments[g] = gens[g] + 1]
  <2>1. WithCommitment(g, e) = c
    BY <1>1 DEF WithCommitment
  <2>2. c \in TxQueued /\ c.asked = e.asked /\ c.createTime = e.createTime /\ c.signs = e.signs
    BY <1>1, <1>3 DEF TxQueued
  <2>. QED
    BY <1>1, <1>2, <2>1, <2>2
<1>5. Types' /\ proofs \subseteq proofs'
  BY <1>2, <1>3, Facts DEF Types
<1>6. promise'[g] = "rejected" /\ \A h \in Guards \ {g} : promise'[h] = promise[h]
  BY <1>2, Facts DEF Types
<1>7. Shown(f)' /\ Matches(f.asked, promise'[g])
  BY <1>1, <1>2, <1>4, <1>6 DEF Shown, Matches
<1>. QED
  BY <1>1, <1>2, <1>4, <1>5, <1>6, <1>7, Facts, OneChanged

LEMMA MyTurnInv == ASSUME Inv, NEW g \in Guards, HandleMyTurn(g) PROVE Inv'
<1> DEFINE e == Reset(tx[g])
           c == [e EXCEPT !.coordinator = g]
           m == net \cup {Msg("generate", g, h, 0, NoRound, FALSE) : h \in Others(g)}
<1>0. Types /\ net \subseteq Message
  BY Facts DEF TypeOK
<1>1. /\ calls' = calls + 1
      /\ UNCHANGED <<turn, sem, signed, sims, promise, proofs>>
  BY DEF HandleMyTurn
<1>. calls' \in Nat
  <2>1. calls \in Nat
    BY <1>0 DEF Types
  <2>2. calls' = calls + 1
    BY <1>1
  <2>. QED
    BY <2>1, <2>2
<1>2. /\ e \in TxQueued /\ e.asked = tx[g].asked /\ e.createTime = tx[g].createTime /\ Shown(e)
  <2>1. /\ e \in TxQueued /\ e.asked = tx[g].asked /\ e.createTime = tx[g].createTime
        /\ e.signs = [h \in Guards |-> NoProof]
    BY Facts, NoneTyped DEF Reset, TxQueued, EmptyBag, NoTx
  <2>. QED
    BY <2>1 DEF Shown
<1>3. /\ c \in TxQueued /\ c.asked = tx[g].asked /\ c.createTime = tx[g].createTime /\ Shown(c)
  <2>1. /\ c \in TxQueued /\ c.asked = e.asked /\ c.createTime = e.createTime /\ c.signs = e.signs
    BY <1>2 DEF TxQueued
  <2>. QED
    BY <1>2, <2>1 DEF Shown
<1>4. \A x \in m : x \in net \/ (x \in Message /\ x.type = "generate")
  <2>1. 0 \in Nat /\ turn \in Nat /\ NoRound \in Round
    BY <1>0, NoneTyped DEF Types
  <2>2. \A h \in Others(g) : /\ Msg("generate", g, h, 0, NoRound, FALSE) \in Message
                             /\ Msg("generate", g, h, 0, NoRound, FALSE).type = "generate"
    BY <2>1 DEF Msg, Message, Others
  <2>. QED
    BY <2>2
<1>5. CASE ~Queued(g)
  <2>1. UNCHANGED <<tx, gens, net>>
    BY <1>5 DEF HandleMyTurn
  <2>2. Types'
    BY <1>0, <1>1, <2>1, Zenon DEF Types
  <2>3. tx' = [tx EXCEPT ![g] = tx[g]] /\ Shown(tx[g])'
    BY <1>1, <2>1, Facts DEF Shown, TypeOK
  <2>. QED
    BY <1>1, <2>1, <2>2, <2>3, Facts, OneChanged
<1>6. CASE Queued(g) /\ e.coordinator = g
  <2>1. tx' = [tx EXCEPT ![g] = e] /\ UNCHANGED <<gens, net>>
    BY <1>6 DEF HandleMyTurn
  <2>2. Types'
    BY <1>0, <1>1, <2>1, Zenon DEF Types
  <2>. HIDE DEF e
  <2>. QED
    BY <1>1, <1>2, <2>1, <2>2, Facts, OneChanged DEF Shown
<1>7. CASE Queued(g) /\ e.coordinator # g
  <2>1. GenerateCommitment(g, c, TRUE, m)
    BY <1>7 DEF HandleMyTurn
  <2>. HIDE DEF c, m
  <2>2. TypeOK
    BY Facts
  <2>3. PICK f \in TxQueued : /\ tx' = [tx EXCEPT ![g] = f]
                             /\ f.asked = c.asked /\ f.createTime = c.createTime
                             /\ f.signs = c.signs
    BY <1>3, <2>1, <2>2, Generated, Zenon
  <2>4. gens' \in [Guards -> Nat] /\ \A x \in net' : x \in m \/ (x \in Message /\ x.type = "commit")
    BY <1>3, <2>1, <2>2, Generated, ZenonT(120)
  <2>5. Types' /\ proofs \subseteq proofs'
    BY <1>0, <1>1, <2>4, Zenon DEF Types
  <2>6. Shown(f)'
    BY <1>1, <1>3, <2>3 DEF Shown
  <2>7. \A x \in net' : x \in net \/ Honest(x)'
    BY <1>4, <2>4 DEF Honest
  <2>. QED
    BY <1>1, <1>3, <2>3, <2>5, <2>6, <2>7, Facts, OneChanged
<1>. QED
  BY <1>5, <1>6, <1>7

LEMMA GenerateInv == ASSUME Inv, NEW m \in net, HandleGenerate(m) PROVE Inv'
<1> DEFINE g == m.to
           e == tx[g]
<1>1. g \in Guards /\ TypeOK
  BY DEF Inv, TypeOK, Message
<1>2. PICK known \in BOOLEAN : GenerateCommitment(g, e, known, net \ {m})
  BY SizeAssumption DEF HandleGenerate, MayKnow
<1>3. UNCHANGED <<turn, calls, sem, signed, sims, promise, proofs>>
  BY DEF HandleGenerate
<1>4. e \in TxQueued /\ Shown(e)
  BY <1>1, Facts
<1>. HIDE DEF e
<1>5. PICK f \in TxQueued : /\ tx' = [tx EXCEPT ![g] = f]
                           /\ f.asked = e.asked /\ f.createTime = e.createTime
                           /\ f.signs = e.signs
  BY <1>1, <1>2, <1>4, Generated, ZenonT(120)
<1>6. gens' \in [Guards -> Nat]
      /\ \A x \in net' : x \in net \ {m} \/ (x \in Message /\ x.type = "commit")
  BY <1>1, <1>2, <1>4, Generated
<1>7. Types' /\ proofs \subseteq proofs' /\ Shown(f)'
  BY <1>1, <1>3, <1>4, <1>5, <1>6, Facts DEF Types, Shown
<1>8. \A x \in net' : x \in net \/ Honest(x)'
  BY <1>6 DEF Honest
<1>. QED
  BY <1>1, <1>3, <1>5, <1>7, <1>8, Facts, OneChanged DEF e
-----------------------------------------------------------------------------
LEMMA CommitmentInv == ASSUME Inv, NEW m \in net, HandleCommitment(m) PROVE Inv'
<1> DEFINE g == m.to
           e == Entry(g)
           com == [e.commitments EXCEPT ![m.from] = m.n]
           f == IF Wanted(e) THEN [e EXCEPT !.commitments = com] ELSE e
           s == IF Wanted(e) /\ Cardinality(Committed(com)) >= Required
                THEN [sem EXCEPT ![g] = [pc |-> "simulate", com |-> com]] ELSE sem
<1>1. g \in Guards /\ m.from \in Guards /\ m.n \in Nat
  BY DEF Inv, TypeOK, Message
<1>2. /\ UNCHANGED <<turn, calls, signed, gens, sims, promise, proofs>>
      /\ net' = net \ {m}
  BY DEF HandleCommitment
<1>3. e \in TxQueued /\ Shown(e) /\ e.asked = tx[g].asked /\ e.createTime # -1
  BY <1>1, Facts
<1>4. com \in [Guards -> Nat]
  BY <1>1, <1>3 DEF TxQueued
<1>5. CASE UNCHANGED <<tx, sem>>
  <2>1. UNCHANGED <<tx, sem>>
    BY <1>5
  <2>2. tx' = [tx EXCEPT ![g] = tx[g]] /\ Shown(tx[g])' /\ Types'
    BY <1>1, <1>2, <2>1, Facts DEF Shown, TypeOK, Types
  <2>. QED
    BY <1>1, <1>2, <2>1, <2>2, Facts, OneChanged
<1>6. CASE Acquired(g) /\ tx' = [tx EXCEPT ![g] = f] /\ sem' = s
  <2>1. Acquired(g) /\ tx' = [tx EXCEPT ![g] = f] /\ sem' = s
    BY <1>6
  <2>. HIDE DEF com
  <2>2. /\ f \in TxQueued /\ f.asked = tx[g].asked /\ f.createTime # -1 /\ f.signs = e.signs
    BY <1>3, <1>4 DEF TxQueued
  <2>3. sem \in [Guards -> [pc : {"free", "simulate", "stuck"}, com : [Guards -> Nat]]]
        /\ sem[g].pc = "free"
    <3>1. Types
      BY <1>1, Facts
    <3>2. sem[g] = Free
      BY <2>1 DEF Acquired
    <3>3. sem[g].pc = "free"
      BY <3>2 DEF Free
    <3>. QED
      BY <3>1, <3>3 DEF Types
  <2>4. /\ s \in [Guards -> [pc : {"free", "simulate", "stuck"}, com : [Guards -> Nat]]]
        /\ \A h \in Guards \ {g} : s[h] = sem[h]
        /\ s[g].pc = "simulate" => Wanted(e)
    BY <1>1, <1>4, <2>3
  <2>5. Wanted(e) => tx[g].asked
    BY <1>3 DEF Wanted
  <2>. HIDE DEF f, s, e
  <2>6. PICK x : x = f
    OBVIOUS
  <2>a. Shown(x)'
    BY <1>2, <1>3, <2>2, <2>6 DEF Shown
  <2>7. Types'
    <3>1. Types
      BY <1>1, Facts
    <3>. QED
      BY <1>2, <2>1, <2>4, <3>1 DEF Types
  <2>8. /\ x \in TxQueued /\ tx' = [tx EXCEPT ![g] = x]
        /\ Matches(x.asked, promise'[g])
        /\ x.asked => x.createTime # -1
        /\ sem'[g].pc = "simulate" => x.asked
        /\ \A h \in Guards \ {g} : promise'[h] = promise[h] /\ sem'[h] = sem[h]
    BY <1>1, <1>2, <2>1, <2>2, <2>4, <2>5, <2>6, Facts
  <2>9. /\ proofs' = proofs /\ \A y \in net' : y \in net
        /\ \A h \in Guards : TRUE \in signed'[h] => TRUE \in signed[h]
    BY <1>2
  <2>. QED
    BY <1>1, <2>a, <2>7, <2>8, <2>9, OneChanged
<1>. QED
  BY <1>5, <1>6 DEF HandleCommitment

LEMMA InitiateInv == ASSUME Inv, NEW g \in Guards, InitiateSign(g) PROVE Inv'
<1> DEFINE r == [by |-> g, k |-> sims[g] + 1, com |-> sem[g].com]
           now == tx[g].commitments
           given == [n |-> tx[g].secret, round |-> r]
           e == [tx[g] EXCEPT !.simulatedBag = r.k, !.signs[g] = given]
           asks == {Msg("initiate", g, h, 0, [r EXCEPT !.com = now], FALSE) :
                      h \in Committed(now) \ {g}}
<1>1. /\ sem[g].pc = "simulate" /\ sem' = [sem EXCEPT ![g] = Free]
      /\ sims' = [sims EXCEPT ![g] = @ + 1]
      /\ tx' = [tx EXCEPT ![g] = e]
      /\ proofs' = proofs \cup {[by |-> g, n |-> tx[g].secret, round |-> r]}
      /\ net' = net \cup asks
      /\ UNCHANGED <<turn, calls, signed, gens, promise>>
  BY DEF InitiateSign
<1>0. TypeOK /\ Types
  BY Facts
<1>2. /\ sims \in [Guards -> Nat] /\ sims[g] + 1 \in Nat
      /\ sem \in [Guards -> [pc : {"free", "simulate", "stuck"}, com : [Guards -> Nat]]]
  <2>1. /\ sims \in [Guards -> Nat]
        /\ sem \in [Guards -> [pc : {"free", "simulate", "stuck"}, com : [Guards -> Nat]]]
    BY <1>0 DEF Types
  <2>2. sims[g] \in Nat
    BY <2>1
  <2>. QED
    BY <2>1, <2>2
<1>3. r \in Round /\ r.k = sims[g] + 1 /\ [r EXCEPT !.com = now] \in Round
  BY <1>2, Facts DEF Round, TxQueued
<1>4. given \in Proof /\ given.n = tx[g].secret /\ given.round = r
  BY <1>3, Facts DEF Proof, TxQueued
<1>. HIDE DEF r, given
<1>5. e \in TxQueued /\ e.asked = tx[g].asked /\ e.createTime = tx[g].createTime
  BY <1>2, <1>3, <1>4, Facts, ZenonT(120) DEF TxQueued
<1>6. \A h \in Guards : e.signs[h] = IF h = g THEN given ELSE tx[g].signs[h]
  BY Facts DEF TxQueued
<1>. HIDE DEF e, asks
<1>a. PICK f : f = e
  OBVIOUS
<1>7. Shown(f)'
  <2> SUFFICES ASSUME NEW h \in Guards, f.signs[h] # NoProof
               PROVE  [by |-> h, n |-> f.signs[h].n, round |-> f.signs[h].round] \in proofs'
    BY DEF Shown
  <2>1. CASE h = g
    BY <1>1, <1>4, <1>6, <1>a, <2>1
  <2>2. CASE h # g
    <3>1. Shown(tx[g])
      BY Facts
    <3>. QED
      BY <1>1, <1>6, <1>a, <2>2, <3>1 DEF Shown
  <2>. QED
    BY <2>1, <2>2
<1>8. \A x \in asks : x \in Message /\ x.type = "initiate"
  <2>1. turn \in Nat /\ 0 \in Nat
    BY <1>0 DEF Types
  <2>2. \A h \in Guards : /\ Msg("initiate", g, h, 0, [r EXCEPT !.com = now], FALSE) \in Message
                          /\ Msg("initiate", g, h, 0, [r EXCEPT !.com = now], FALSE).type = "initiate"
    BY <1>3, <2>1 DEF Msg, Message
  <2>. QED
    BY <2>2 DEF Committed, asks
<1>9. Types'
  <2>1. /\ sem' \in [Guards -> [pc : {"free", "simulate", "stuck"}, com : [Guards -> Nat]]]
        /\ sims' \in [Guards -> Nat]
    BY <1>1, <1>2, NoneTyped
  <2>2. proofs' \subseteq [by : Guards, n : Nat, round : Round]
    <3>1. tx[g].secret \in Nat /\ proofs \subseteq [by : Guards, n : Nat, round : Round]
      BY Facts DEF TxQueued, Types
    <3>. QED
      BY <1>1, <1>3, <3>1
  <2>. QED
    BY <1>1, <2>1, <2>2, Facts DEF Types
<1>10. /\ sem'[g].pc = "free" /\ \A h \in Guards \ {g} : sem'[h] = sem[h]
  BY <1>1, <1>2 DEF Free
<1>11. \A x \in net' : x \in net \/ Honest(x)'
  BY <1>1, <1>8 DEF Honest
<1>12. tx[g].asked /\ Matches(tx[g].asked, promise[g]) /\ tx[g].createTime # -1
  BY <1>1, Facts
<1>13. /\ proofs \subseteq proofs' /\ promise' = promise
       /\ \A h \in Guards : TRUE \in signed'[h] => TRUE \in signed[h]
  BY <1>1
<1>. QED
  BY <1>1, <1>5, <1>a, <1>7, <1>9, <1>10, <1>11, <1>12, <1>13, OneChanged

LEMMA InitiateFailsInv == ASSUME Inv, NEW g \in Guards, InitiateFails(g) PROVE Inv'
<1>1. /\ sem' = [sem EXCEPT ![g] = Free]
      /\ UNCHANGED <<turn, calls, signed, net, gens, promise, proofs>>
  BY DEF InitiateFails
<1>0. TypeOK /\ Types
  BY Facts
<1>2. /\ sims \in [Guards -> Nat] /\ sims[g] + 1 \in Nat
      /\ sem \in [Guards -> [pc : {"free", "simulate", "stuck"}, com : [Guards -> Nat]]]
  <2>1. /\ sims \in [Guards -> Nat]
        /\ sem \in [Guards -> [pc : {"free", "simulate", "stuck"}, com : [Guards -> Nat]]]
    BY <1>0 DEF Types
  <2>2. sims[g] \in Nat
    BY <2>1
  <2>. QED
    BY <2>1, <2>2
<1>3. /\ sem' \in [Guards -> [pc : {"free", "simulate", "stuck"}, com : [Guards -> Nat]]]
      /\ sem'[g].pc = "free" /\ \A h \in Guards \ {g} : sem'[h] = sem[h]
  BY <1>1, <1>2, NoneTyped DEF Free
<1>4. PICK e \in TxQueued : /\ tx' = [tx EXCEPT ![g] = e]
                           /\ e.asked = tx[g].asked /\ e.createTime = tx[g].createTime
                           /\ e.signs = tx[g].signs
  <2>1. CASE UNCHANGED <<tx, sims>>
    BY <2>1, Facts DEF TypeOK
  <2>2. CASE tx' = [tx EXCEPT ![g].simulatedBag = sims[g] + 1]
    <3> DEFINE e == [tx[g] EXCEPT !.simulatedBag = sims[g] + 1]
    <3>1. /\ e \in TxQueued /\ e.asked = tx[g].asked /\ e.createTime = tx[g].createTime
          /\ e.signs = tx[g].signs
      BY <1>2, Facts DEF TxQueued
    <3>. QED
      BY <2>2, <3>1
  <2>. QED
    BY <2>1, <2>2 DEF InitiateFails
<1>5. sims' \in [Guards -> Nat]
  BY <1>2 DEF InitiateFails
<1>6. Types' /\ Shown(e)'
  <2>1. Types'
    BY <1>0, <1>1, <1>3, <1>5 DEF Types
  <2>2. Shown(tx[g])
    BY Facts
  <2>. QED
    BY <1>1, <1>4, <2>1, <2>2 DEF Shown
<1>. QED
  BY <1>1, <1>3, <1>4, <1>6, Facts, OneChanged, ZenonT(120)
LEMMA InitiatedInv == ASSUME Inv, NEW m \in net, HandleInitiate(m) PROVE Inv'
<1> DEFINE g == m.to
           e == Entry(g)
<1>0. TypeOK /\ Types /\ m \in Message /\ g \in Guards /\ m.from \in Guards /\ m.round \in Round
  <2>1. m \in Message /\ g \in Guards /\ m.from \in Guards /\ m.round \in Round
    BY DEF Inv, TypeOK, Message
  <2>. QED
    BY <2>1, Facts
<1>1. UNCHANGED <<turn, calls, signed, gens, sims, promise>>
  BY DEF HandleInitiate
<1>2. e \in TxQueued /\ Shown(e) /\ e.asked = tx[g].asked /\ e.createTime # -1
  BY <1>0, Facts
<1>3. e.secret \in Nat /\ turn \in Nat
  BY <1>0, <1>2 DEF TxQueued, Types
<1>4. CASE net' = net \ {m} /\ UNCHANGED <<tx, sem, proofs>>
  <2>1. net' = net \ {m} /\ UNCHANGED <<tx, sem, proofs>>
    BY <1>4
  <2>2. tx' = [tx EXCEPT ![g] = tx[g]] /\ Types'
    BY <1>0, <1>1, <2>1 DEF TypeOK, Types
  <2>3. PICK f : f = tx[g]
    OBVIOUS
  <2>4. Shown(f)'
    BY <1>0, <2>1, <2>3, Facts DEF Shown
  <2>. QED
    BY <1>0, <1>1, <2>1, <2>2, <2>3, <2>4, Facts, OneChanged
<1>5. CASE ~(net' = net \ {m} /\ UNCHANGED <<tx, sem, proofs>>)
  <2>. HIDE DEF e
  <2>1. PICK f : f = e
    OBVIOUS
  <2>2. Acquired(g) /\ tx' = [tx EXCEPT ![g] = f]
    BY <1>5, <2>1 DEF HandleInitiate, e
  <2>3. sem[g].pc = "free" /\ Stuck.pc = "stuck"
    BY <2>2 DEF Acquired, Free, Stuck
  <2>4. /\ proofs \subseteq proofs' /\ proofs' \subseteq [by : Guards, n : Nat, round : Round]
        /\ \A x \in net' : x \in net \/ Honest(x)'
    <3>1. proofs \subseteq [by : Guards, n : Nat, round : Round]
      BY <1>0 DEF Types
    <3>2. CASE /\ proofs' = proofs \cup {[by |-> g, n |-> e.secret, round |-> m.round]}
               /\ net' = (net \ {m}) \cup {Msg("sign", g, m.from, e.secret, m.round, FALSE)}
      <4>1. PICK x : x = Msg("sign", g, m.from, e.secret, m.round, FALSE)
        OBVIOUS
      <4>2. /\ x \in Message /\ x.type = "sign" /\ x.from = g /\ x.n = e.secret
            /\ x.round = m.round
        BY <1>0, <1>3, <4>1 DEF Msg, Message
      <4>3. Honest(x)'
        BY <3>2, <4>2 DEF Honest
      <4>4. [by |-> g, n |-> e.secret, round |-> m.round] \in [by : Guards, n : Nat, round : Round]
        BY <1>0, <1>3
      <4>5. proofs \subseteq proofs' /\ proofs' \subseteq [by : Guards, n : Nat, round : Round]
        BY <3>1, <3>2, <4>4
      <4>6. \A y \in net' : y \in net \/ Honest(y)'
        BY <3>2, <4>1, <4>3
      <4>. QED
        BY <4>5, <4>6
    <3>3. CASE proofs' = proofs /\ net' = net \ {m}
      BY <3>1, <3>3
    <3>. QED
      BY <1>5, <3>2, <3>3 DEF HandleInitiate, e
  <2>5. sem' = sem \/ sem' = [sem EXCEPT ![g] = Stuck]
    BY <1>5 DEF HandleInitiate
  <2>6. /\ sem' \in [Guards -> [pc : {"free", "simulate", "stuck"}, com : [Guards -> Nat]]]
        /\ sem'[g].pc # "simulate" /\ \A h \in Guards \ {g} : sem'[h] = sem[h]
    <3>1. sem \in [Guards -> [pc : {"free", "simulate", "stuck"}, com : [Guards -> Nat]]]
      BY <1>0 DEF Types
    <3>. QED
      <4>1. CASE sem' = sem
        BY <1>0, <2>3, <3>1, <4>1
      <4>2. CASE sem' = [sem EXCEPT ![g] = Stuck]
        <5>1. \A h \in Guards : sem'[h] = IF h = g THEN Stuck ELSE sem[h]
          BY <1>0, <3>1, <4>2
        <5>2. sem' \in [Guards -> [pc : {"free", "simulate", "stuck"}, com : [Guards -> Nat]]]
          BY <3>1, <4>2, NoneTyped
        <5>. QED
          BY <1>0, <2>3, <5>1, <5>2
      <4>. QED
        BY <2>5, <4>1, <4>2
  <2>7. Types'
    BY <1>0, <1>1, <2>4, <2>6 DEF Types
  <2>8. Shown(f)'
    BY <1>2, <2>1, <2>4 DEF Shown
  <2>9. \A h \in Guards : promise'[h] = promise[h] /\ signed'[h] = signed[h]
    BY <1>1
  <2>10. f \in TxQueued /\ Matches(f.asked, promise'[g]) /\ f.createTime # -1
    BY <1>0, <1>2, <2>1, <2>9, Facts
  <2>. QED
    BY <1>0, <2>2, <2>4, <2>6, <2>7, <2>8, <2>9, <2>10, OneChanged
<1>. QED
  BY <1>4, <1>5

-----------------------------------------------------------------------------
\* The proofs of a valid transaction are those of a complete round.
LEMMA FitsComplete ==
  ASSUME NEW g \in Guards, NEW e \in TxQueued, Shown(e), Fits(g, e)
  PROVE  SomeComplete
<1> DEFINE com == e.commitments
<1>1. PICK r : r = [by |-> g, k |-> e.simulatedBag, com |-> com]
  OBVIOUS
<1>2. com \in [Guards -> Nat] /\ r.com = com
  BY <1>1 DEF TxQueued
<1>3. Cardinality(Committed(com)) >= Required
  BY DEF Fits
<1>4. e.signs = [h \in Guards |-> IF com[h] = 0 THEN NoProof ELSE [n |-> com[h], round |-> r]]
  BY <1>1 DEF Fits
<1>. HIDE DEF com
<1>5. ASSUME NEW h \in Committed(com)
      PROVE  /\ h \in Guards
             /\ [by |-> h, n |-> com[h], round |-> r] \in proofs
  <2>1. h \in Guards /\ com[h] # 0 /\ NoProof.n = 0
    BY DEF Committed, NoProof
  <2>2. e.signs[h] = [n |-> com[h], round |-> r]
    BY <1>4, <2>1
  <2>3. e.signs[h].n = com[h] /\ e.signs[h].round = r
    BY <2>2
  <2>. QED
    BY <2>1, <2>3 DEF Shown
<1>6. Shared!Signers(r) = Committed(com)
  BY <1>2 DEF Shared!Signers, Committed
<1>7. \A h \in Shared!Signers(r) : [by |-> h, n |-> r.com[h], round |-> r] \in proofs
  BY <1>2, <1>5, <1>6
<1>8. Shared!Complete(r, proofs)
  <2>1. Shared!Cardinality(Committed(com)) = Cardinality(Committed(com))
    BY Zenon DEF Shared!Cardinality, Cardinality
  <2>. QED
    BY <1>3, <1>6, <1>7, <2>1 DEF Shared!Complete
<1>9. PICK h : h \in Committed(com)
  <2>1. Cardinality(Committed(com)) # 0
    BY <1>3, SizeAssumption
  <2>. QED
    BY <2>1, FS_EmptySet
<1>10. PICK p : p = [by |-> h, n |-> com[h], round |-> r]
  OBVIOUS
<1>11. p \in proofs /\ p.round = r
  BY <1>5, <1>9, <1>10
<1>. QED
  BY <1>8, <1>11 DEF SomeComplete

LEMMA SignedInv == ASSUME Inv, NEW m \in net, HandleSign(m) PROVE Inv'
<1> DEFINE g == m.to
           e == Entry(g)
           given == [n |-> m.n, round |-> m.round]
           new == [e EXCEPT !.signs[m.from] = given]
<1>0. /\ TypeOK /\ Types /\ m \in Message /\ g \in Guards /\ m.from \in Guards
      /\ m.n \in Nat /\ m.round \in Round
  <2>1. /\ m \in Message /\ g \in Guards /\ m.from \in Guards /\ m.n \in Nat /\ m.round \in Round
    BY DEF Inv, TypeOK, Message
  <2>. QED
    BY <2>1, Facts
<1>1. /\ UNCHANGED <<turn, calls, gens, sims, promise, proofs>>
      /\ net' = net \ {m} /\ m.type = "sign" /\ Acquired(g)
  BY DEF HandleSign
<1>2. e \in TxQueued /\ Shown(e) /\ e.asked = tx[g].asked /\ e.createTime # -1
  BY <1>0, Facts
<1>3. given \in Proof /\ given.n = m.n /\ given.round = m.round
  BY <1>0 DEF Proof
<1>4. [by |-> m.from, n |-> m.n, round |-> m.round] \in proofs
  BY <1>1 DEF Inv, Given
<1>. HIDE DEF e, given
<1>5. /\ new \in TxQueued /\ new.asked = e.asked /\ new.createTime = e.createTime
      /\ \A h \in Guards : new.signs[h] = IF h = m.from THEN given ELSE e.signs[h]
  BY <1>0, <1>2, <1>3 DEF TxQueued
<1>6. PICK n : n = new
  OBVIOUS
<1>7. n \in TxQueued /\ Shown(n) /\ n.asked = tx[g].asked /\ n.createTime # -1
  BY <1>2, <1>3, <1>4, <1>5, <1>6 DEF Shown
<1>8. /\ sem' \in [Guards -> [pc : {"free", "simulate", "stuck"}, com : [Guards -> Nat]]]
      /\ sem'[g].pc # "simulate" /\ \A h \in Guards \ {g} : sem'[h] = sem[h]
      /\ promise' = promise /\ proofs' = proofs
      /\ \A y \in net' : y \in net
  <2>1. sem[g].pc = "free" /\ Stuck.pc = "stuck"
    BY <1>1 DEF Acquired, Free, Stuck
  <2>2. sem' = sem \/ sem' = [sem EXCEPT ![g] = Stuck]
    BY DEF HandleSign
  <2>3. sem \in [Guards -> [pc : {"free", "simulate", "stuck"}, com : [Guards -> Nat]]]
    BY <1>0 DEF Types
  <2>. QED
    BY <1>0, <1>1, <2>1, <2>2, <2>3, NoneTyped
<1>9. Matches(tx[g].asked, promise[g])
  BY <1>0, Facts
<1>. HIDE DEF new
<1>10. CASE e.asked /\ e.simulatedBag # Undefined
  <2>1. tx' = [tx EXCEPT ![g] = n]
    BY <1>6, <1>10 DEF HandleSign, new, given, e
  <2>2. signed' = signed \/ signed' = [signed EXCEPT ![g] = @ \cup {Fits(g, n)}]
    BY <1>6, <1>10 DEF HandleSign, new, given, e
  <2>3. Fits(g, n) \in BOOLEAN
    BY DEF Fits
  <2>4. Types'
    <3>1. signed \in [Guards -> SUBSET BOOLEAN]
      BY <1>0 DEF Types
    <3>2. signed' \in [Guards -> SUBSET BOOLEAN]
      BY <2>2, <2>3, <3>1
    <3>. QED
      BY <1>0, <1>1, <1>8, <3>2, Zenon DEF Types
  <2>5. \A h \in Guards : TRUE \in signed'[h] => TRUE \in signed[h] \/ SomeComplete'
    <3>1. signed \in [Guards -> SUBSET BOOLEAN]
      BY <1>0 DEF Types
    <3>2. \A h \in Guards : TRUE \in signed'[h] => TRUE \in signed[h] \/ Fits(g, n)
      BY <2>2, <3>1, ZenonT(120)
    <3>3. Fits(g, n) => SomeComplete
      BY <1>0, <1>7, FitsComplete
    <3>4. SomeComplete => SomeComplete'
      BY <1>8, CompleteGrows
    <3>. QED
      BY <3>2, <3>3, <3>4
  <2>6. Shown(n)'
    BY <1>7, <1>8 DEF Shown
  <2>. QED
    BY <1>0, <1>7, <1>8, <1>9, <2>1, <2>4, <2>5, <2>6, OneChanged
<1>11. CASE ~(e.asked /\ e.simulatedBag # Undefined)
  <2>1. PICK f : f = e
    OBVIOUS
  <2>2. tx' = [tx EXCEPT ![g] = f] /\ signed' = signed
    BY <1>11, <2>1 DEF HandleSign, e
  <2>3. Types'
    BY <1>0, <1>1, <1>8, <2>2, Zenon DEF Types
  <2>4. Shown(f)'
    BY <1>2, <1>8, <2>1 DEF Shown
  <2>. QED
    BY <1>0, <1>2, <1>8, <1>9, <2>1, <2>2, <2>3, <2>4, OneChanged
<1>. QED
  BY <1>10, <1>11

-----------------------------------------------------------------------------
\* handleSignedTx: what it changes, whichever way it ends.
LEMMA HandledSigned ==
  ASSUME Inv, NEW g \in Guards, NEW valid \in BOOLEAN, HandleSignedTx(g, valid),
         UNCHANGED <<turn, calls, gens, sims, proofs>>,
         signed' \in [Guards -> SUBSET BOOLEAN],
         \A h \in Guards : TRUE \in signed'[h] => TRUE \in signed[h],
         \A x \in net' : x \in net \/ Honest(x)'
  PROVE  Inv'
<1>0. TypeOK /\ Types
  BY Facts
<1>1. /\ sem \in [Guards -> [pc : {"free", "simulate", "stuck"}, com : [Guards -> Nat]]]
      /\ promise \in [Guards -> {"none", "open", "rejected", "resolved", "invalid", "timed out"}]
  BY <1>0 DEF Types
<1>2. /\ sem[g].pc = "free" /\ Stuck.pc = "stuck"
      /\ SettledAs(g, Outcome(valid)) \in {"rejected", "resolved", "invalid", "timed out", "none"}
  <2>1. promise[g] \in {"none", "open", "rejected", "resolved", "invalid", "timed out"}
    BY <1>1
  <2>2. SettledAs(g, Outcome(valid)) \in {"rejected", "resolved", "invalid", "timed out", "none"}
    <3>1. PICK o : o = Outcome(valid)
      OBVIOUS
    <3>2. o \in {"resolved", "invalid"}
      BY <3>1 DEF Outcome
    <3>3. PICK p : p = promise[g]
      OBVIOUS
    <3>. QED
      BY <2>1, <3>1, <3>2, <3>3 DEF SettledAs
  <2>3. sem[g].pc = "free" /\ Stuck.pc = "stuck"
    BY DEF HandleSignedTx, Acquired, Free, Stuck
  <2>. QED
    BY <2>2, <2>3
<1>3. PICK e : e = Entry(g)
  OBVIOUS
<1>4. /\ e \in TxQueued /\ Shown(e) /\ e.createTime # -1
      /\ Matches(e.asked, promise[g])
  BY <1>3, Facts
<1>5. CASE /\ promise' = [promise EXCEPT ![g] = SettledAs(g, Outcome(valid))]
           /\ tx' = [tx EXCEPT ![g] = NoTx] /\ UNCHANGED sem
  <2>1. Types'
    BY <1>0, <1>1, <1>2, <1>5 DEF Types
  <2>2. PICK f : f = NoTx
    OBVIOUS
  <2>3. f \in TxQueued /\ ~f.asked /\ Shown(f)'
    BY <2>2, NoneTyped DEF NoTx, Shown
  <2>4. promise'[g] # "open" /\ \A h \in Guards \ {g} : promise'[h] = promise[h]
    BY <1>1, <1>2, <1>5
  <2>5. Matches(f.asked, promise'[g])
    BY <2>3, <2>4 DEF Matches
  <2>. QED
    BY <1>2, <1>5, <2>1, <2>2, <2>3, <2>4, <2>5, OneChanged
<1>6. CASE /\ sem' = [sem EXCEPT ![g] = Stuck]
           /\ tx' = [tx EXCEPT ![g] = e] /\ UNCHANGED promise
  <2>1. /\ sem' \in [Guards -> [pc : {"free", "simulate", "stuck"}, com : [Guards -> Nat]]]
        /\ sem'[g].pc = "stuck" /\ \A h \in Guards \ {g} : sem'[h] = sem[h]
    BY <1>1, <1>2, <1>6, NoneTyped
  <2>2. Types'
    BY <1>0, <1>6, <2>1 DEF Types
  <2>3. Shown(e)'
    BY <1>4 DEF Shown
  <2>. QED
    BY <1>4, <1>6, <2>1, <2>2, <2>3, OneChanged
<1>. QED
  BY <1>3, <1>5, <1>6 DEF HandleSignedTx

LEMMA SendSignedInv == ASSUME Inv, NEW g \in Guards, SendSignedTx(g) PROVE Inv'
<1>0. Types
  BY Facts
<1>1. signed \in [Guards -> SUBSET BOOLEAN] /\ turn \in Nat
  BY <1>0 DEF Types
<1>2. PICK valid \in signed[g] :
        /\ HandleSignedTx(g, valid)
        /\ signed' = [signed EXCEPT ![g] = @ \ {valid}]
        /\ net' = net \cup {Msg("signed", g, h, 0, NoRound, valid) : h \in Others(g)}
        /\ UNCHANGED <<turn, calls, gens, sims, proofs>>
  BY DEF SendSignedTx
<1>3. valid \in BOOLEAN
  BY <1>1, <1>2
<1>4. valid => SomeComplete'
  <2>1. valid => SomeComplete
    BY <1>2, <1>3 DEF Inv, Backed
  <2>. QED
    BY <1>2, <2>1, CompleteGrows
<1>5. ASSUME NEW x \in net', x \notin net PROVE Honest(x)'
  <2>1. PICK h \in Others(g) : x = Msg("signed", g, h, 0, NoRound, valid)
    BY <1>2, <1>5
  <2>2. h \in Guards /\ NoRound \in Round
    BY NoneTyped DEF Others
  <2>3. x \in Message /\ x.type = "signed" /\ x.valid = valid
    BY <1>1, <1>3, <2>1, <2>2 DEF Msg, Message
  <2>. QED
    BY <1>4, <2>3 DEF Honest
<1>6. \A h \in Guards : TRUE \in signed'[h] => TRUE \in signed[h]
  BY <1>1, <1>2
<1>7. signed' \in [Guards -> SUBSET BOOLEAN]
  BY <1>1, <1>2
<1>. QED
  BY <1>2, <1>3, <1>5, <1>6, <1>7, HandledSigned

LEMMA HandleSignedInv == ASSUME Inv, NEW m \in net, HandleSigned(m) PROVE Inv'
<1>1. m.to \in Guards /\ m.valid \in BOOLEAN
  BY DEF Inv, TypeOK, Message
<1>2. signed \in [Guards -> SUBSET BOOLEAN]
  BY <1>1, Facts DEF Types
<1>. QED
  BY <1>1, <1>2, HandledSigned DEF HandleSigned

LEMMA CleanupInv == ASSUME Inv, NEW g \in Guards, Cleanup(g) PROVE Inv'
<1>0. Types
  BY Facts
<1>1. /\ sem[g].pc = "free" /\ tx' = [tx EXCEPT ![g] = NoTx]
      /\ promise' = [promise EXCEPT ![g] = ExpiredPromise(g)]
      /\ UNCHANGED <<turn, calls, sem, signed, net, gens, sims, proofs>>
  BY DEF Cleanup, Acquired, Free
<1>2. /\ promise \in [Guards -> {"none", "open", "rejected", "resolved", "invalid", "timed out"}]
      /\ ExpiredPromise(g) \in {"none", "rejected", "resolved", "invalid", "timed out"}
  BY <1>0, Facts DEF Types, ExpiredPromise, SettledAs, Matches
<1>3. Types'
  BY <1>0, <1>1, <1>2 DEF Types
<1>4. PICK f : f = NoTx
  OBVIOUS
<1>5. f \in TxQueued /\ ~f.asked /\ Shown(f)'
  BY <1>4, NoneTyped DEF NoTx, Shown
<1>6. promise'[g] # "open" /\ \A h \in Guards \ {g} : promise'[h] = promise[h]
  BY <1>1, <1>2
<1>7. Matches(f.asked, promise'[g])
  BY <1>5, <1>6 DEF Matches
<1>. QED
  BY <1>1, <1>3, <1>4, <1>5, <1>6, <1>7, OneChanged

LEMMA TickInv == ASSUME Inv, Tick PROVE Inv'
<1>1. /\ turn \in Nat /\ turn' = turn + 1 /\ calls' = 0 /\ net' \subseteq net
      /\ UNCHANGED <<tx, sem, signed, gens, sims, promise, proofs>>
  BY DEF Tick, Inv, TypeOK
<1>a. turn' \in Nat /\ calls' \in Nat
  BY <1>1
<1>2. TypeOK'
  BY <1>1, <1>a, Zenon DEF Inv, TypeOK
<1>3. OpenPromiseQueued' /\ Asked'
  BY <1>1 DEF Inv, OpenPromiseQueued, Asked, Queued
<1>4. Given'
  BY <1>1 DEF Inv, Given
<1>5. SomeComplete' = SomeComplete
  BY <1>1 DEF SomeComplete
<1>6. Backed'
  BY <1>1, <1>5 DEF Inv, Backed
<1>. QED
  BY <1>2, <1>3, <1>4, <1>6 DEF Inv

LEMMA StepInv == Inv /\ [Next]_vars => Inv'
<1> SUFFICES ASSUME Inv, [Next]_vars PROVE Inv'
  OBVIOUS
<1>1. CASE UNCHANGED vars
  <2>1. TypeOK' /\ OpenPromiseQueued' /\ Asked' /\ Given'
    BY <1>1 DEF vars, Inv, TypeOK, OpenPromiseQueued, Asked, Given, Queued
  <2>2. SomeComplete' = SomeComplete
    BY <1>1 DEF vars, SomeComplete
  <2>3. Backed'
    BY <1>1, <2>2 DEF vars, Inv, Backed
  <2>. QED
    BY <2>1, <2>3 DEF Inv
<1>2. ASSUME NEW g \in Guards,
             Sign(g) \/ SignFails(g) \/ HandleMyTurn(g) \/ InitiateSign(g)
               \/ InitiateFails(g) \/ SendSignedTx(g) \/ Cleanup(g)
      PROVE  Inv'
  BY <1>2, SignInv, SignFailsInv, MyTurnInv, InitiateInv, InitiateFailsInv, SendSignedInv, CleanupInv
<1>3. ASSUME NEW m \in net, Receive(m) PROVE Inv'
  BY <1>3, GenerateInv, CommitmentInv, InitiatedInv, SignedInv, HandleSignedInv DEF Receive
<1>4. CASE Tick
  BY <1>4, TickInv
<1>. QED
  BY <1>1, <1>2, <1>3, <1>4 DEF Next

-----------------------------------------------------------------------------
\* The invariant holds in every reachable state.
LEMMA Invariant == Spec => []Inv
<1>1. Init => Inv
  BY InitInv
<1>2. Inv /\ [Next]_vars => Inv'
  BY StepInv
<1>. QED
  BY <1>1, <1>2, PTL DEF Spec

\* Every variable has its type, for any number of guards and turns.
THEOREM TypeCorrect == Spec => []TypeOK
<1>1. Inv => TypeOK
  BY DEF Inv
<1>. QED
  BY <1>1, Invariant, PTL

\* A guard never loses a transaction whose promise is open, whatever messages
\* are lost, late or fail (handleSignedTx, cleanup).
THEOREM PromiseKept == Spec => []OpenPromiseQueued
<1>1. Inv => OpenPromiseQueued
  BY DEF Inv
<1>. QED
  BY <1>1, Invariant, PTL

-----------------------------------------------------------------------------
\* Steps of SharedTx, in terms of what the promises and the proofs become.
LEMMA Stutters ==
  ASSUME promise' = promise, proofs' = proofs
  PROVE  [Shared!Next]_(Shared!vars)
BY DEF Shared!vars

LEMMA Asks ==
  ASSUME TypeOK, NEW g \in Guards, promise[g] # "resolved", NEW x \in {"open", "rejected"},
         promise' = [promise EXCEPT ![g] = x], proofs' = proofs
  PROVE  [Shared!Next]_(Shared!vars)
<1>1. \A h \in Guards : promise'[h] = IF h = g THEN x ELSE promise[h]
  BY DEF TypeOK
<1>2. Shared!Ask(g)
  BY <1>1 DEF Shared!Ask
<1>. QED
  BY <1>2 DEF Shared!Next

LEMMA Proves ==
  ASSUME NEW g \in Guards, promise[g] # "none", promise' = promise,
         NEW p, proofs' = proofs \cup {p}, p.by = g
  PROVE  [Shared!Next]_(Shared!vars)
<1>1. Shared!Prove(g)
  BY DEF Shared!Prove
<1>. QED
  BY <1>1 DEF Shared!Next

\* A promise is settled, resolved only with a complete round.
LEMMA Settled ==
  ASSUME TypeOK, NEW g \in Guards, promise[g] = "open", NEW x \in {"resolved", "invalid", "timed out"},
         promise' = [promise EXCEPT ![g] = x], proofs' = proofs,
         x = "resolved" => SomeComplete
  PROVE  [Shared!Next]_(Shared!vars)
<1>1. \A h \in Guards : promise'[h] = IF h = g THEN x ELSE promise[h]
  BY DEF TypeOK
<1>2. CASE x = "resolved"
  <2>1. Shared!Resolve(g)
    BY <1>1, <1>2 DEF Shared!Resolve, SomeComplete
  <2>. QED
    BY <2>1 DEF Shared!Next
<1>3. CASE x # "resolved"
  BY <1>1, <1>3 DEF Shared!vars
<1>. QED
  BY <1>2, <1>3

LEMMA SettledTx ==
  ASSUME Inv, NEW g \in Guards, NEW valid \in BOOLEAN, HandleSignedTx(g, valid),
         valid => SomeComplete, proofs' = proofs
  PROVE  [Shared!Next]_(Shared!vars)
<1>1. TypeOK
  BY Facts
<1>2. CASE promise' = promise
  BY <1>2, Stutters
<1>3. CASE Entry(g).asked /\ promise' = [promise EXCEPT ![g] = SettledAs(g, Outcome(valid))]
  <2>1. CASE promise[g] = "open"
    <3>1. /\ SettledAs(g, Outcome(valid)) \in {"resolved", "invalid"}
          /\ SettledAs(g, Outcome(valid)) = "resolved" => SomeComplete
      BY <2>1 DEF SettledAs, Outcome
    <3>. QED
      BY <1>1, <1>3, <2>1, <3>1, Settled
  <2>2. CASE promise[g] # "open"
    <3>1. promise' = promise
      BY <1>1, <1>3, <2>2 DEF SettledAs, TypeOK
    <3>. QED
      BY <3>1, Stutters
  <2>. QED
    BY <2>1, <2>2
<1>. QED
  BY <1>2, <1>3 DEF HandleSignedTx

LEMMA StepShared == Inv /\ [Next]_vars => [Shared!Next]_(Shared!vars)
<1> SUFFICES ASSUME Inv, [Next]_vars PROVE [Shared!Next]_(Shared!vars)
  OBVIOUS
<1>0. TypeOK
  BY DEF Inv
<1>1. CASE UNCHANGED vars
  BY <1>1, Stutters DEF vars
<1>2. ASSUME NEW g \in Guards, Sign(g) \/ SignFails(g) PROVE [Shared!Next]_(Shared!vars)
  <2>1. /\ promise[g] # "resolved" /\ proofs' = proofs
        /\ \E x \in {"open", "rejected"} : promise' = [promise EXCEPT ![g] = x]
    BY <1>2, SignAgainAssumption DEF Sign, SignFails, MaySign
  <2>. QED
    BY <1>0, <2>1, Asks
<1>3. ASSUME NEW g \in Guards, InitiateSign(g) PROVE [Shared!Next]_(Shared!vars)
  <2>1. PICK p : p = [by |-> g, n |-> tx[g].secret,
                      round |-> [by |-> g, k |-> sims[g] + 1, com |-> sem[g].com]]
    OBVIOUS
  <2>2. p.by = g /\ proofs' = proofs \cup {p} /\ promise' = promise
    BY <1>3, <2>1 DEF InitiateSign
  <2>3. promise[g] # "none"
    <3>1. sem[g].pc = "simulate"
      BY <1>3 DEF InitiateSign
    <3>. QED
      BY <3>1, Facts DEF Matches
  <2>. QED
    BY <2>2, <2>3, Proves
<1>4. ASSUME NEW g \in Guards, SendSignedTx(g) PROVE [Shared!Next]_(Shared!vars)
  <2>1. PICK valid \in signed[g] : HandleSignedTx(g, valid) /\ proofs' = proofs
    BY <1>4 DEF SendSignedTx
  <2>2. valid \in BOOLEAN
    BY <1>0, <2>1 DEF TypeOK
  <2>3. valid => SomeComplete
    BY <2>1, <2>2 DEF Inv, Backed
  <2>. QED
    BY <2>1, <2>2, <2>3, SettledTx
<1>5. ASSUME NEW g \in Guards, Cleanup(g) PROVE [Shared!Next]_(Shared!vars)
  <2>1. promise' = [promise EXCEPT ![g] = ExpiredPromise(g)] /\ proofs' = proofs
    BY <1>5 DEF Cleanup
  <2>2. CASE tx[g].asked /\ promise[g] = "open"
    <3>1. ExpiredPromise(g) = "timed out"
      BY <2>2 DEF ExpiredPromise, SettledAs
    <3>. QED
      BY <1>0, <2>1, <2>2, <3>1, Settled
  <2>3. CASE ~tx[g].asked \/ promise[g] # "open"
    <3>1. promise' = promise
      BY <1>0, <2>1, <2>3 DEF ExpiredPromise, SettledAs, TypeOK
    <3>. QED
      BY <2>1, <3>1, Stutters
  <2>. QED
    BY <2>2, <2>3
<1>6. ASSUME NEW g \in Guards, HandleMyTurn(g) \/ InitiateFails(g)
      PROVE  [Shared!Next]_(Shared!vars)
  BY <1>6, Stutters DEF HandleMyTurn, InitiateFails
<1>7. ASSUME NEW m \in net, HandleInitiate(m) PROVE [Shared!Next]_(Shared!vars)
  <2>1. m.to \in Guards /\ promise' = promise
    BY <1>0, <1>7 DEF TypeOK, Message, HandleInitiate
  <2>2. CASE proofs' = proofs
    BY <2>1, <2>2, Stutters
  <2>3. CASE Entry(m.to).asked
             /\ proofs' = proofs \cup {[by |-> m.to, n |-> Entry(m.to).secret, round |-> m.round]}
    <3>1. PICK p : p = [by |-> m.to, n |-> Entry(m.to).secret, round |-> m.round]
      OBVIOUS
    <3>2. p.by = m.to /\ proofs' = proofs \cup {p}
      BY <2>3, <3>1
    <3>3. promise[m.to] # "none"
      BY <2>1, <2>3, Facts DEF Matches
    <3>. QED
      BY <2>1, <3>2, <3>3, Proves
  <2>. QED
    BY <1>7, <2>2, <2>3 DEF HandleInitiate
<1>8. ASSUME NEW m \in net, HandleSigned(m) PROVE [Shared!Next]_(Shared!vars)
  <2>1. m.to \in Guards /\ m.valid \in BOOLEAN /\ (m.valid => SomeComplete)
    BY <1>0, <1>8 DEF TypeOK, Message, Inv, Backed, HandleSigned
  <2>. QED
    BY <1>8, <2>1, SettledTx DEF HandleSigned
<1>9. ASSUME NEW m \in net, HandleGenerate(m) \/ HandleCommitment(m) \/ HandleSign(m)
      PROVE  [Shared!Next]_(Shared!vars)
  BY <1>9, Stutters DEF HandleGenerate, HandleCommitment, HandleSign
<1>10. CASE Tick
  BY <1>10, Stutters DEF Tick
<1>. QED
  BY <1>1, <1>2, <1>3, <1>4, <1>5, <1>6, <1>7, <1>8, <1>9, <1>10 DEF Next, Receive

\* Whoever takes a transaction for signed has it signed by enough guards whose
\* applications asked for it, each with the secret of its own commitment, in one
\* round: MultiSig implements SharedTx, for any number of guards and faults.
THEOREM Refinement == Spec => Implements
<1>1. Init => Shared!Init
  BY DEF Init, Shared!Init
<1>2. Inv /\ [Next]_vars => [Shared!Next]_(Shared!vars)
  BY StepShared
<1>. QED
  BY <1>1, <1>2, Invariant, PTL DEF Spec, Implements, Shared!Spec

-----------------------------------------------------------------------------
\* The good turn

\* The guard of the turn PromptFrom, and what it has of the transaction.
Lead == PromptFrom % N
Rest == Guards \ {Lead}
Com == tx[Lead].commitments
TheRound == [by |-> Lead, k |-> tx[Lead].simulatedBag, com |-> Com]
Right(h) == [n |-> Com[h], round |-> TheRound]

\* The requests of Lead, and what it tells the others in the end.
Asking(h) ==
  [type |-> "generate", from |-> Lead, to |-> h, at |-> PromptFrom, n |-> 0,
   round |-> NoRound, valid |-> FALSE]
Telling(h) ==
  [type |-> "signed", from |-> Lead, to |-> h, at |-> PromptFrom, n |-> 0,
   round |-> NoRound, valid |-> TRUE]

Idle(g) == sem[g] = Free /\ signed[g] = {}

\* The application of g waits, and the transaction does not expire in this turn.
Pending(g) == promise[g] = "open" /\ tx[g].createTime + TxTimeout >= PromptFrom
Resolved(g) == promise[g] = "resolved"

\* Who took the lead of a transaction did so while it was in the queue, and not
\* yet in the good turn before handleMyTurn was called.
Led(g) ==
  /\ tx[g].createTime <= turn
  /\ tx[g].coordinator # -1 =>
       \E t \in Nat : /\ t <= turn /\ tx[g].createTime <= t
                      /\ tx[g].coordinator = t % N
                      /\ turn = PromptFrom /\ calls = 0 => t < turn
LedInv == \A g \in Guards : Led(g)

\* Before handleMyTurn.
Beginning ==
  /\ turn = PromptFrom /\ calls = 0 /\ net = {}
  /\ \A g \in Guards : Pending(g) /\ Idle(g)
  /\ tx[Lead].coordinator # Lead

\* All that is under way was sent in this turn, between Lead and the others.
Addressed(m) ==
  /\ m.type = "generate" => m.to # Lead /\ m = Asking(m.to)
  /\ m.type = "initiate" => m.to # Lead /\ m.from = Lead
  /\ m.type \in {"commit", "sign"} => m.to = Lead /\ m.from # Lead
  /\ m.type = "signed" => m.to # Lead /\ m = Telling(m.to)

\* A commitment of this turn is of the secret that its guard has: a guard that
\* committed is not asked again.
Fresh(m) ==
  /\ m.type = "commit" => m.n = tx[m.from].secret /\ m.n # 0
  /\ m.type = "generate" =>
       Com[m.to] = 0 /\ \A k \in net : k.type = "commit" => k.from # m.to
  /\ m.type # "signed"
Joined ==
  /\ \A g \in Guards : Pending(g) /\ Com[g] \in {0, tx[g].secret}
  /\ Com[Lead] # 0
  /\ \A m \in net : Fresh(m)

\* Nobody gave a proof yet.
NoneSigned ==
  /\ tx[Lead].signs = NoTx.signs /\ tx[Lead].simulatedBag = EmptyBag
  /\ \A m \in net : m.type \notin {"initiate", "sign"}

\* h is asked for its commitment, or it is under way, or Lead has it.
Commits(h) ==
  Com[h] # 0 \/ \E m \in net : \/ m.type = "generate" /\ m.to = h
                               \/ m.type = "commit" /\ m.from = h
\* The same of its proof.
Signs(h) ==
  tx[Lead].signs[h] # NoProof \/ \E m \in net : \/ m.type = "initiate" /\ m.to = h
                                                \/ m.type = "sign" /\ m.from = h

Gathering ==
  /\ Idle(Lead) /\ NoneSigned
  /\ Cardinality(Committed(Com)) < Required
  /\ \A h \in Guards : Commits(h)

Simulating ==
  /\ sem[Lead] = [pc |-> "simulate", com |-> Com] /\ signed[Lead] = {} /\ NoneSigned
  /\ Cardinality(Committed(Com)) = Required

\* The messages of the round are of TheRound.
OfRound(m) ==
  /\ m.type = "initiate" => Com[m.to] # 0 /\ m.round = TheRound
  /\ m.type = "sign" => /\ Com[m.from] # 0
                        /\ m.n = Com[m.from] /\ m.round = TheRound

Collecting ==
  /\ sem[Lead] = Free /\ tx[Lead].simulatedBag # Undefined
  /\ Cardinality(Committed(Com)) = Required
  /\ \A h \in Guards : tx[Lead].signs[h] # NoProof => Com[h] # 0 /\ tx[Lead].signs[h] = Right(h)
  /\ \A h \in Committed(Com) : Signs(h)
  /\ \A m \in net : OfRound(m)
  /\ signed[Lead] = IF Cardinality(Signed(tx[Lead].signs)) >= Required THEN {TRUE} ELSE {}

\* Lead has the transaction signed, and the others have it or are told.
Ending ==
  /\ Idle(Lead) /\ Resolved(Lead)
  /\ \A h \in Rest : IF Telling(h) \in net THEN Pending(h) ELSE Resolved(h)

GoodTurn ==
  /\ turn = PromptFrom /\ calls = 1
  /\ \A m \in net : Addressed(m)
  /\ \A h \in Rest : Idle(h)
  /\ \/ Joined /\ (Gathering \/ Simulating \/ Collecting)
     \/ Ending

Afterwards == turn > PromptFrom /\ \A g \in Guards : Resolved(g)

Recovering == Beginning \/ GoodTurn \/ Afterwards
-----------------------------------------------------------------------------
\* What the theorem about the good turn assumes: a leader cannot sign alone, and a
\* transaction does not stay in the queue until its guard has the turn again.
TwoOrMore == Required \in 2 .. N
ShortLived == TxTimeout < N

LEMMA GuardFacts ==
  /\ Lead \in Guards /\ Rest \subseteq Guards /\ PromptFrom \in Nat /\ TxTimeout \in Nat
  /\ \A g \in Guards : g \in Rest <=> g # Lead
BY Sizes, SizeAssumption DEF Lead, Rest

\* Two turns of one guard are N turns apart, or more.
LEMMA TurnsApart ==
  ASSUME NEW t \in Nat, NEW u \in Nat, t < u, t % N = u % N
  PROVE  t + N <= u
<1>1. N \in Nat \ {0}
  BY Sizes
<1>2. PICK q \in Int : t = N * q + (t % N)
  <2>1. t = N * (t \div N) + (t % N) /\ t \div N \in Int
    BY <1>1
  <2>. QED
    BY <2>1
<1>3. PICK p \in Int : u = N * p + (u % N)
  <2>1. u = N * (u \div N) + (u % N) /\ u \div N \in Int
    BY <1>1
  <2>. QED
    BY <2>1
<1>4. PICK r \in Int : r = t % N
  BY <1>1
<1>5. p > q
  <2>1. SUFFICES ASSUME p <= q PROVE FALSE
    OBVIOUS
  <2>2. N * p <= N * q
    BY <1>1, <2>1
  <2>. QED
    BY <1>1, <1>2, <1>3, <1>4, <2>2
<1>6. N * (q + 1) <= N * p
  BY <1>1, <1>5
<1>7. N * (q + 1) = N * q + N
  BY <1>1
<1>. QED
  BY <1>1, <1>2, <1>3, <1>4, <1>6, <1>7

LEMMA LedInit == Init => LedInv
BY Sizes DEF Init, LedInv, Led, NoTx

\* A transaction that stays as it is, or is new.
LEMMA LedKept ==
  ASSUME Inv, NEW g \in Guards, Led(g),
         turn' = turn, calls' \in Nat, calls' >= calls,
         \/ /\ tx'[g].createTime = tx[g].createTime
            /\ tx'[g].coordinator = tx[g].coordinator
         \/ tx'[g].coordinator = -1 /\ tx'[g].createTime <= turn
  PROVE  Led(g)'
<1>0. turn \in Nat /\ calls \in Nat
  BY Facts DEF Types
<1>1. turn \in Nat /\ (calls' = 0 => calls = 0)
  BY <1>0
<1>2. CASE tx'[g].coordinator = -1 /\ tx'[g].createTime <= turn
  BY <1>2 DEF Led
<1>3. CASE tx'[g].createTime = tx[g].createTime /\ tx'[g].coordinator = tx[g].coordinator
  BY <1>1, <1>3 DEF Led
<1>. QED
  BY <1>2, <1>3

\* A transaction that g or the guard of the turn takes the lead of.
LEMMA LedNow ==
  ASSUME Inv, NEW g \in Guards, turn' = turn, tx'[g].createTime <= turn,
         tx'[g].coordinator = Leader, turn = PromptFrom => calls' # 0
  PROVE  Led(g)'
<1>1. turn \in Nat
  BY Facts DEF Types
<1>2. PICK t \in Nat : t = turn
  BY <1>1
<1>3. t <= turn' /\ tx'[g].createTime <= t /\ tx'[g].coordinator = t % N
  BY <1>1, <1>2 DEF Leader
<1>. QED
  BY <1>2, <1>3 DEF Led

LEMMA EntryLed ==
  ASSUME Inv, NEW g \in Guards, Led(g)
  PROVE  /\ Entry(g).createTime <= turn
         /\ \/ /\ Entry(g).createTime = tx[g].createTime
               /\ Entry(g).coordinator = tx[g].coordinator
            \/ Entry(g).coordinator = -1
         /\ Queued(g) => Entry(g) = tx[g]
<1>1. turn \in Nat
  BY Facts DEF Types
<1>. QED
  BY <1>1 DEF Entry, NoTx, Led

\* generateCommitment keeps when the transaction was queued, and who has the lead,
\* unless the guard commits.
LEMMA GeneratedLed ==
  ASSUME Inv, NEW g \in Guards, NEW e \in TxQueued, NEW known \in BOOLEAN, NEW m,
         GenerateCommitment(g, e, known, m)
  PROVE  /\ tx'[g].createTime = e.createTime
         /\ tx'[g].coordinator = IF known /\ e.asked THEN Leader ELSE e.coordinator
         /\ \A h \in Guards \ {g} : tx'[h] = tx[h]
<1>1. tx \in [Guards -> TxQueued] /\ Leader \in Guards
  BY Sizes DEF Inv, TypeOK, Leader
<1>2. CASE known /\ e.asked
  <2>1. tx' = [tx EXCEPT ![g] = WithCommitment(g, e)]
    BY <1>2 DEF GenerateCommitment
  <2>2. WithCommitment(g, e).createTime = e.createTime /\ WithCommitment(g, e).coordinator = Leader
    BY <1>2 DEF WithCommitment, TxQueued
  <2>. QED
    BY <1>1, <1>2, <2>1, <2>2
<1>3. CASE ~(known /\ e.asked)
  BY <1>1, <1>3 DEF GenerateCommitment
<1>. QED
  BY <1>2, <1>3

LEMMA LedStep == Inv /\ LedInv /\ [Next]_vars => LedInv'
<1> SUFFICES ASSUME Inv, LedInv, [Next]_vars, NEW g \in Guards PROVE Led(g)'
  BY DEF LedInv
<1>0. Types /\ tx \in [Guards -> TxQueued] /\ net \subseteq Message /\ Led(g) /\ turn \in Nat /\ calls \in Nat
  BY Facts DEF LedInv, TypeOK, Types
<1>a. \A h \in Guards : Entry(h) \in TxQueued /\ Led(h)
  BY Facts DEF LedInv
<1>1. CASE UNCHANGED vars
  BY <1>0, <1>1, LedKept DEF vars
<1>2. ASSUME NEW h \in Guards, Sign(h) PROVE Led(g)'
  <2> DEFINE e == [Entry(h) EXCEPT !.asked = TRUE]
  <2>1. PICK known \in BOOLEAN : GenerateCommitment(h, e, known, net)
    BY <1>2, SizeAssumption DEF Sign, MayKnow
  <2>2. e \in TxQueued /\ e.createTime = Entry(h).createTime /\ e.coordinator = Entry(h).coordinator /\ e.asked
    BY <1>a DEF TxQueued
  <2>3. turn' = turn /\ calls' = calls /\ (turn = PromptFrom => calls = 1)
    BY <1>0, <1>2 DEF Sign, MaySign, Begun, Prompt
  <2>. HIDE DEF e
  <2>4. /\ tx'[h].createTime = e.createTime
        /\ tx'[h].coordinator = IF known THEN Leader ELSE e.coordinator
        /\ \A k \in Guards \ {h} : tx'[k] = tx[k]
    BY <2>1, <2>2, GeneratedLed
  <2>5. CASE g # h
    BY <1>0, <2>3, <2>4, <2>5, LedKept
  <2>6. CASE g = h
    BY <1>0, <2>2, <2>3, <2>4, <2>6, LedKept, LedNow, EntryLed
  <2>. QED
    BY <2>5, <2>6
<1>3. ASSUME NEW h \in Guards, HandleMyTurn(h) PROVE Led(g)'
  <2> DEFINE e == Reset(tx[h])
             c == [e EXCEPT !.coordinator = h]
             m == net \cup {Msg("generate", h, k, 0, NoRound, FALSE) : k \in Others(h)}
  <2>1. h = Leader /\ calls' = calls + 1 /\ turn' = turn
    BY <1>3 DEF HandleMyTurn
  <2>2. /\ e.createTime = tx[h].createTime /\ e.coordinator = tx[h].coordinator
        /\ e \in TxQueued
    BY <1>0, NoneTyped DEF Reset, TxQueued, EmptyBag, NoTx
  <2>3. c \in TxQueued /\ c.createTime = tx[h].createTime /\ c.coordinator = h
    BY <2>2 DEF TxQueued
  <2>4. CASE UNCHANGED tx
    BY <1>0, <2>1, <2>4, LedKept
  <2>5. CASE tx' = [tx EXCEPT ![h] = e]
    <3>. HIDE DEF e
    <3>1. tx'[h] = e /\ \A k \in Guards \ {h} : tx'[k] = tx[k]
      BY <1>0, <2>5
    <3>2. tx'[g].createTime = tx[g].createTime /\ tx'[g].coordinator = tx[g].coordinator
      BY <2>2, <3>1
    <3>. QED
      BY <1>0, <2>1, <3>2, LedKept
  <2>6. CASE GenerateCommitment(h, c, TRUE, m)
    <3>. HIDE DEF c, m
    <3>1. /\ tx'[h].createTime = c.createTime
          /\ tx'[h].coordinator = Leader
          /\ \A k \in Guards \ {h} : tx'[k] = tx[k]
      BY <2>1, <2>3, <2>6, GeneratedLed
    <3>2. CASE g # h
      BY <1>0, <2>1, <3>1, <3>2, LedKept
    <3>3. CASE g = h
      BY <1>0, <2>1, <2>3, <3>1, <3>3, LedNow DEF Led
    <3>. QED
      BY <3>2, <3>3
  <2>. QED
    BY <1>3, <2>4, <2>5, <2>6 DEF HandleMyTurn
<1>4. ASSUME NEW m \in net, Receive(m), HandleGenerate(m) PROVE Led(g)'
  <2>1. PICK known \in BOOLEAN : GenerateCommitment(m.to, tx[m.to], known, net \ {m})
    BY <1>4, SizeAssumption DEF HandleGenerate, MayKnow
  <2>2. m.to \in Guards /\ tx[m.to] \in TxQueued
    BY <1>0 DEF Message
  <2>3. turn' = turn /\ calls' = calls /\ (turn = PromptFrom => calls = 1)
    BY <1>0, <1>4 DEF HandleGenerate, Receive, Begun, Prompt
  <2>4. /\ tx'[m.to].createTime = tx[m.to].createTime
        /\ tx'[m.to].coordinator = Leader \/ tx'[m.to].coordinator = tx[m.to].coordinator
        /\ \A k \in Guards \ {m.to} : tx'[k] = tx[k]
    BY <2>1, <2>2, GeneratedLed
  <2>. QED
    BY <1>0, <2>3, <2>4, LedKept, LedNow DEF Led
<1>5. ASSUME NEW h \in Guards, NEW e \in TxQueued, tx' = [tx EXCEPT ![h] = e],
             \/ e.createTime = Entry(h).createTime /\ e.coordinator = Entry(h).coordinator
             \/ e.createTime = tx[h].createTime /\ e.coordinator = tx[h].coordinator
             \/ e.createTime = -1 /\ e.coordinator = -1,
             turn' = turn, calls' = calls
      PROVE  Led(g)'
  <2>1. tx'[h] = e /\ \A k \in Guards \ {h} : tx'[k] = tx[k]
    BY <1>0, <1>5
  <2>. QED
    BY <1>0, <1>5, <2>1, LedKept, EntryLed
<1>6. ASSUME NEW m \in net, HandleCommitment(m) PROVE Led(g)'
  <2>1. turn' = turn /\ calls' = calls /\ m.to \in Guards /\ m.from \in Guards /\ m.n \in Nat
    BY <1>0, <1>6 DEF HandleCommitment, Message
  <2>2. CASE UNCHANGED tx
    BY <1>0, <2>1, <2>2, LedKept
  <2>3. PICK com : com = [Entry(m.to).commitments EXCEPT ![m.from] = m.n]
    OBVIOUS
  <2>4. com \in [Guards -> Nat]
    BY <1>a, <2>1, <2>3 DEF TxQueued
  <2>5. CASE tx' = [tx EXCEPT ![m.to] = Entry(m.to)]
    BY <1>a, <1>5, <2>1, <2>5
  <2>6. CASE tx' = [tx EXCEPT ![m.to] = [Entry(m.to) EXCEPT !.commitments = com]]
    <3>1. PICK e : e = [Entry(m.to) EXCEPT !.commitments = com]
      OBVIOUS
    <3>2. e \in TxQueued /\ e.createTime = Entry(m.to).createTime /\ e.coordinator = Entry(m.to).coordinator
      BY <1>a, <2>1, <2>4, <3>1 DEF TxQueued
    <3>. QED
      BY <1>5, <2>1, <2>6, <3>1, <3>2
  <2>. QED
    BY <1>6, <2>2, <2>3, <2>5, <2>6 DEF HandleCommitment
<1>7. ASSUME NEW h \in Guards, InitiateSign(h) PROVE Led(g)'
  <2>1. PICK given, k : /\ given = [n |-> tx[h].secret, round |-> [by |-> h, k |-> sims[h] + 1, com |-> sem[h].com]]
                     /\ k = sims[h] + 1
    OBVIOUS
  <2>2. given \in Proof /\ k \in Nat
    <3>1. tx[h] \in TxQueued /\ sem[h].com \in [Guards -> Nat] /\ sims[h] + 1 \in Nat
      <4>1. tx[h] \in TxQueued /\ Types
        BY <1>0
      <4>2. sem[h] \in [pc : {"free", "simulate", "stuck"}, com : [Guards -> Nat]] /\ sims[h] \in Nat
        BY <4>1 DEF Types
      <4>. QED
        BY <4>1, <4>2
    <3>. QED
      BY <2>1, <3>1 DEF Proof, Round, TxQueued
  <2>3. tx' = [tx EXCEPT ![h].simulatedBag = k, ![h].signs[h] = given]
    BY <1>7, <2>1 DEF InitiateSign
  <2>4. PICK e : e = [tx[h] EXCEPT !.simulatedBag = k, !.signs[h] = given]
    OBVIOUS
  <2>5. e \in TxQueued /\ e.createTime = tx[h].createTime /\ e.coordinator = tx[h].coordinator
    BY <1>0, <2>2, <2>4, ZenonT(120) DEF TxQueued
  <2>6. tx' = [tx EXCEPT ![h] = e]
    BY <1>0, <2>3, <2>4
  <2>7. turn' = turn /\ calls' = calls
    BY <1>7 DEF InitiateSign
  <2>. QED
    BY <1>5, <2>5, <2>6, <2>7
<1>8. ASSUME NEW h \in Guards, InitiateFails(h) PROVE Led(g)'
  <2>1. turn' = turn /\ calls' = calls
    BY <1>8 DEF InitiateFails
  <2>2. CASE UNCHANGED tx
    BY <1>0, <2>1, <2>2, LedKept
  <2>3. CASE tx' = [tx EXCEPT ![h].simulatedBag = sims[h] + 1]
    <3>1. PICK e : e = [tx[h] EXCEPT !.simulatedBag = sims[h] + 1]
      OBVIOUS
    <3>2. e \in TxQueued /\ e.createTime = tx[h].createTime /\ e.coordinator = tx[h].coordinator
      <4>1. tx[h] \in TxQueued /\ sims[h] + 1 \in Nat
        <5>1. tx[h] \in TxQueued /\ Types
          BY <1>0
        <5>2. sims[h] \in Nat
          BY <5>1 DEF Types
        <5>. QED
          BY <5>1, <5>2
      <4>. QED
        BY <3>1, <4>1 DEF TxQueued
    <3>3. tx' = [tx EXCEPT ![h] = e]
      BY <1>0, <2>3, <3>1
    <3>. QED
      BY <1>5, <2>1, <3>2, <3>3
  <2>. QED
    BY <1>8, <2>2, <2>3 DEF InitiateFails
<1>9. ASSUME NEW m \in net, HandleInitiate(m) PROVE Led(g)'
  <2>1. turn' = turn /\ calls' = calls /\ m.to \in Guards
    BY <1>0, <1>9 DEF HandleInitiate, Message
  <2>2. UNCHANGED tx \/ tx' = [tx EXCEPT ![m.to] = Entry(m.to)]
    BY <1>9 DEF HandleInitiate
  <2>. QED
    BY <1>0, <1>5, <1>a, <2>1, <2>2, LedKept
<1>10. ASSUME NEW m \in net, HandleSign(m) PROVE Led(g)'
  <2>1. turn' = turn /\ calls' = calls /\ m.to \in Guards /\ m.from \in Guards /\ [n |-> m.n, round |-> m.round] \in Proof
    BY <1>0, <1>10 DEF HandleSign, Message, Proof
  <2>2. PICK p : p = [n |-> m.n, round |-> m.round]
    OBVIOUS
  <2>3. PICK e : e = [Entry(m.to) EXCEPT !.signs[m.from] = p]
    OBVIOUS
  <2>4. e \in TxQueued /\ e.createTime = Entry(m.to).createTime /\ e.coordinator = Entry(m.to).coordinator
    BY <1>a, <2>1, <2>2, <2>3 DEF TxQueued
  <2>5. tx' = [tx EXCEPT ![m.to] = e] \/ tx' = [tx EXCEPT ![m.to] = Entry(m.to)]
    BY <1>10, <2>2, <2>3 DEF HandleSign
  <2>. QED
    BY <1>5, <1>a, <2>1, <2>4, <2>5
<1>11. ASSUME NEW h \in Guards, NEW valid, HandleSignedTx(h, valid), turn' = turn, calls' = calls
       PROVE  Led(g)'
  <2>1. tx' = [tx EXCEPT ![h] = NoTx] \/ tx' = [tx EXCEPT ![h] = Entry(h)]
    BY <1>11 DEF HandleSignedTx
  <2>2. PICK e : e = NoTx
    OBVIOUS
  <2>3. e \in TxQueued /\ e.createTime = -1 /\ e.coordinator = -1
    BY <2>2, NoneTyped DEF NoTx
  <2>. QED
    BY <1>5, <1>11, <1>a, <2>1, <2>2, <2>3
<1>12. ASSUME NEW h \in Guards, SendSignedTx(h) PROVE Led(g)'
  BY <1>11, <1>12 DEF SendSignedTx
<1>13. ASSUME NEW m \in net, HandleSigned(m) PROVE Led(g)'
  <2>1. m.to \in Guards
    BY <1>0 DEF Message
  <2>. QED
    BY <1>11, <1>13, <2>1 DEF HandleSigned
<1>14. ASSUME NEW h \in Guards, Cleanup(h) PROVE Led(g)'
  <2>2. PICK e : e = NoTx
    OBVIOUS
  <2>3. e \in TxQueued /\ e.createTime = -1 /\ e.coordinator = -1
    BY <2>2, NoneTyped DEF NoTx
  <2>4. tx' = [tx EXCEPT ![h] = e] /\ turn' = turn /\ calls' = calls
    BY <1>14, <2>2 DEF Cleanup
  <2>. QED
    BY <1>5, <2>3, <2>4
<1>15. CASE Tick
  <2>1. turn' = turn + 1 /\ tx' = tx
    BY <1>15 DEF Tick
  <2>. QED
    BY <1>0, <2>1 DEF Led, TxQueued
<1>16. ASSUME NEW m \in net, Receive(m) PROVE Led(g)'
  BY <1>4, <1>6, <1>9, <1>10, <1>13, <1>16 DEF Receive
<1>17. ASSUME NEW h \in Guards, SignFails(h) PROVE Led(g)'
  <2>1. PICK e : e = [Entry(h) EXCEPT !.asked = TRUE]
    OBVIOUS
  <2>2. e \in TxQueued /\ e.createTime = Entry(h).createTime /\ e.coordinator = Entry(h).coordinator /\ e.asked
    BY <1>a, <2>1 DEF TxQueued
  <2>3. turn' = turn /\ calls' = calls /\ turn # PromptFrom
    BY <1>0, <1>17, SizeAssumption DEF SignFails, Prompt
  <2>4. CASE tx' = [tx EXCEPT ![h] = e]
    BY <1>5, <2>2, <2>3, <2>4
  <2>5. CASE tx' = [tx EXCEPT ![h] = WithCommitment(h, e)]
    <3>1. WithCommitment(h, e).createTime = e.createTime /\ WithCommitment(h, e).coordinator = Leader
      <4>1. Leader \in Guards
        BY <1>0, Sizes DEF Leader
      <4>. QED
        BY <2>2, <4>1 DEF WithCommitment, TxQueued
    <3>2. tx'[h] = WithCommitment(h, e) /\ \A k \in Guards \ {h} : tx'[k] = tx[k]
      BY <1>0, <2>5
    <3>3. CASE g # h
      BY <1>0, <2>3, <3>2, <3>3, LedKept
    <3>4. CASE g = h
      BY <1>0, <2>2, <2>3, <3>1, <3>2, <3>4, LedNow, EntryLed
    <3>. QED
      BY <3>3, <3>4
  <2>. QED
    BY <1>17, <2>1, <2>4, <2>5 DEF SignFails
<1>. QED
  BY <1>1, <1>2, <1>3, <1>7, <1>8, <1>12, <1>14, <1>15, <1>16, <1>17 DEF Next
-----------------------------------------------------------------------------
\* What is known of a prompt turn, of a guard that waits, of numbers of guards.
LEMMA InTurn ==
  ASSUME Inv, turn = PromptFrom
  PROVE  /\ Leader = Lead /\ Prompt /\ ~NoContext
         /\ \A g \in Guards : MayKnow(g) = {TRUE}
BY GuardFacts DEF Leader, Lead, Prompt, NoContext, MayKnow

LEMMA PendingFacts ==
  ASSUME Inv, NEW g \in Guards
  PROVE  /\ tx \in [Guards -> TxQueued] /\ tx[g] \in TxQueued /\ turn \in Nat
         /\ Pending(g) => /\ tx[g].asked /\ Queued(g) /\ Entry(g) = tx[g]
         /\ Resolved(g) => ~tx[g].asked /\ ~Entry(g).asked
         /\ Queued(g) => Entry(g) = tx[g]
<1>1. tx \in [Guards -> TxQueued] /\ turn \in Nat
  BY DEF Inv, TypeOK
<1>2. Pending(g) => tx[g].asked /\ Queued(g)
  BY Facts DEF Pending, Queued, Matches
<1>3. Queued(g) => Entry(g) = tx[g]
  BY DEF Entry
<1>4. Resolved(g) => ~tx[g].asked /\ ~Entry(g).asked
  BY Facts DEF Resolved, Matches
<1>. QED
  BY <1>1, <1>2, <1>3, <1>4

LEMMA GuardsFinite == IsFiniteSet(Guards) /\ Cardinality(Guards) = N
<1>1. N \in Nat \ {0} /\ 0 \in Int /\ N - 1 \in Int
  BY Sizes
<1>. QED
  BY <1>1, FS_Interval DEF Guards

LEMMA SomeGuards ==
  ASSUME NEW S \in SUBSET Guards
  PROVE  /\ IsFiniteSet(S) /\ Cardinality(S) \in Nat /\ Cardinality(S) <= N
         /\ \A T \in SUBSET S : /\ Cardinality(T) <= Cardinality(S)
                                /\ Cardinality(T) >= Cardinality(S) => T = S
         /\ \A g \in Guards : Cardinality(S \cup {g}) <= Cardinality(S) + 1
<1>1. IsFiniteSet(S)
  BY GuardsFinite, FS_Subset
<1>2. Cardinality(S) \in Nat /\ Cardinality(S) <= N
  BY <1>1, GuardsFinite, FS_Subset, FS_CardinalityType
<1>3. ASSUME NEW T \in SUBSET S
      PROVE  /\ Cardinality(T) <= Cardinality(S)
             /\ Cardinality(T) >= Cardinality(S) => T = S
  <2>1. IsFiniteSet(T) /\ Cardinality(T) \in Nat /\ Cardinality(T) <= Cardinality(S)
    BY <1>1, FS_Subset, FS_CardinalityType
  <2>2. Cardinality(T) = Cardinality(S) => T = S
    BY <1>1, FS_Subset
  <2>. QED
    BY <1>2, <2>1, <2>2
<1>4. ASSUME NEW g \in Guards PROVE Cardinality(S \cup {g}) <= Cardinality(S) + 1
  BY <1>1, <1>2, FS_AddElement
<1>. QED
  BY <1>1, <1>2, <1>3, <1>4

LEMMA BeginsWell ==
  ASSUME Inv, LedInv, ShortLived,
         turn = PromptFrom, calls = 0, net = {},
         \A g \in Guards : promise[g] = "open" /\ sem[g] = Free /\ signed[g] = {}
                           /\ tx[g].createTime + TxTimeout >= turn
  PROVE  Beginning
<1>1. \A g \in Guards : Pending(g) /\ Idle(g)
  BY DEF Pending, Idle
<1>2. tx[Lead].coordinator # Lead
  <2>1. SUFFICES ASSUME tx[Lead].coordinator = Lead PROVE FALSE
    OBVIOUS
  <2>2. Lead \in Guards /\ Lead \in Nat /\ tx[Lead] \in TxQueued /\ TxTimeout \in Nat /\ turn \in Nat
    BY GuardFacts, PendingFacts, Sizes
  <2>3. PICK t \in Nat : /\ t < turn /\ tx[Lead].createTime <= t
                         /\ Lead = t % N
    BY <2>1, <2>2 DEF LedInv, Led
  <2>4. t + N <= turn
    BY <2>2, <2>3, TurnsApart DEF Lead
  <2>5. tx[Lead].createTime + TxTimeout >= turn
    BY <2>2
  <2>6. tx[Lead].createTime \in Int
    BY <2>2 DEF TxQueued
  <2>7. N \in Nat
    BY Sizes
  <2>. QED
    BY <2>2, <2>3, <2>4, <2>5, <2>6, <2>7 DEF ShortLived
<1>. QED
  BY <1>1, <1>2 DEF Beginning

LEMMA MyTurnGood ==
  ASSUME Inv, TwoOrMore, Beginning, NEW g \in Guards, HandleMyTurn(g)
  PROVE  GoodTurn'
<1> DEFINE e == Reset(tx[Lead])
           c == [e EXCEPT !.coordinator = Lead]
           f == [c EXCEPT !.coordinator = Lead, !.secret = gens[Lead] + 1,
                          !.commitments[Lead] = gens[Lead] + 1]
           m == net \cup {Msg("generate", Lead, h, 0, NoRound, FALSE) : h \in Others(Lead)}
<1>1. /\ g = Lead /\ turn' = turn /\ calls' = 1 /\ turn = PromptFrom /\ Lead \in Guards
      /\ UNCHANGED <<sem, signed, promise>> /\ net = {}
  BY InTurn, GuardFacts DEF Beginning, HandleMyTurn
<1>2. /\ tx[Lead] \in TxQueued /\ tx[Lead].asked /\ Queued(Lead) /\ tx[Lead].coordinator # Lead
      /\ gens[Lead] \in Nat /\ Leader = Lead /\ tx \in [Guards -> TxQueued]
  <2>1. gens[Lead] \in Nat
    BY <1>1 DEF Inv, TypeOK
  <2>. QED
    BY <1>1, <2>1, InTurn, PendingFacts DEF Beginning
<1>3. /\ e \in TxQueued /\ e.asked /\ e.coordinator = tx[Lead].coordinator
      /\ e.commitments = NoTx.commitments /\ e.signs = NoTx.signs
      /\ e.simulatedBag = EmptyBag /\ e.createTime = tx[Lead].createTime
  <2>1. NoTx \in TxQueued /\ EmptyBag \in Nat
    BY NoneTyped DEF EmptyBag
  <2>. QED
    BY <1>2, <2>1 DEF Reset, TxQueued
<1>4. GenerateCommitment(Lead, c, TRUE, m)
  BY <1>1, <1>2, <1>3 DEF HandleMyTurn
<1>5. /\ c \in TxQueued /\ c.asked
      /\ c.commitments = NoTx.commitments /\ c.signs = NoTx.signs
      /\ c.simulatedBag = EmptyBag /\ c.createTime = tx[Lead].createTime
  BY <1>1, <1>3 DEF TxQueued
<1>6. tx' = [tx EXCEPT ![Lead] = f] /\ net' = m
  <2>. HIDE DEF c, m
  <2>1. WithCommitment(Lead, c) = f
    BY <1>2, <1>5 DEF WithCommitment
  <2>. QED
    BY <1>2, <1>4, <1>5, <2>1 DEF GenerateCommitment
<1>7. /\ f.commitments = [NoTx.commitments EXCEPT ![Lead] = gens[Lead] + 1]
      /\ f.secret = gens[Lead] + 1 /\ f.signs = NoTx.signs /\ f.simulatedBag = EmptyBag
      /\ f.createTime = tx[Lead].createTime
  <2>. HIDE DEF c
  <2>. QED
    BY <1>1, <1>2, <1>5 DEF TxQueued
<1>. HIDE DEF f, c, e
<1>8. /\ tx'[Lead] = f /\ \A h \in Guards \ {Lead} : tx'[h] = tx[h]
      /\ Com' = f.commitments
  BY <1>1, <1>2, <1>6 DEF Com, Lead
<1>9. \A h \in Guards : Com'[h] = IF h = Lead THEN gens[Lead] + 1 ELSE 0
  BY <1>1, <1>7, <1>8 DEF NoTx
<1>10. net' = {Asking(h) : h \in Rest}
  BY <1>1, <1>6 DEF Msg, Asking, Others, Rest
<1>11. \A k \in net' : k = Asking(k.to) /\ k.to \in Rest /\ k.type = "generate"
  BY <1>10 DEF Asking
<1>12. \A k \in net' : Addressed(k)'
  BY <1>1, <1>11 DEF Addressed, Rest, Asking, Lead
<1>13. \A h \in Guards : Pending(h)' /\ Idle(h)'
  BY <1>1, <1>7, <1>8 DEF Beginning, Pending, Idle
<1>14. Joined'
  <2>1. \A k \in net' : Fresh(k)'
    BY <1>9, <1>11, GuardFacts DEF Fresh
  <2>2. \A h \in Guards : Com'[h] \in {0, tx'[h].secret}
    BY <1>7, <1>8, <1>9
  <2>3. Com'[Lead] # 0
    BY <1>1, <1>2, <1>9
  <2>. QED
    BY <1>13, <2>1, <2>2, <2>3 DEF Joined, Lead
<1>15. Gathering'
  <2>1. NoneSigned'
    BY <1>7, <1>8, <1>11 DEF NoneSigned, Lead
  <2>2. Committed(Com') = {Lead}
    BY <1>1, <1>2, <1>9 DEF Committed
  <2>3. Cardinality(Committed(Com')) < Required
    <3>1. Cardinality({Lead}) = 1
      BY FS_Singleton, Zenon
    <3>2. Required \in Nat /\ 1 < Required
      BY Sizes DEF TwoOrMore
    <3>. QED
      BY <2>2, <3>1, <3>2
  <2>4. ASSUME NEW h \in Guards PROVE Commits(h)'
    <3>1. CASE h = Lead
      BY <1>1, <1>2, <1>9, <3>1 DEF Commits
    <3>2. CASE h # Lead
      <4>1. Asking(h) \in net' /\ Asking(h).type = "generate" /\ Asking(h).to = h
        BY <1>10, <3>2, GuardFacts DEF Asking
      <4>. QED
        BY <4>1 DEF Commits
    <3>. QED
      BY <3>1, <3>2
  <2>5. Idle(Lead)'
    BY <1>1, <1>13 DEF Lead
  <2>. QED
    BY <2>1, <2>3, <2>4, <2>5 DEF Gathering, Committed
<1>16. \A h \in Rest : Idle(h)'
  BY <1>13, GuardFacts
<1>. QED
  BY <1>1, <1>12, <1>14, <1>15, <1>16 DEF GoodTurn, Rest, Lead

\* Before handleMyTurn is called nothing else may happen in the good turn.
LEMMA BeginningStep ==
  ASSUME Inv, TwoOrMore, Beginning, [Next]_vars
  PROVE  Beginning' \/ GoodTurn'
<1>0. turn = PromptFrom /\ calls = 0 /\ net = {} /\ Prompt /\ ~NoContext /\ ~Begun
  BY InTurn DEF Beginning, Begun
<1>1. CASE UNCHANGED vars
  BY <1>1 DEF vars, Beginning, Pending, Idle, Lead
<1>2. ASSUME NEW g \in Guards,
             \/ Sign(g) \/ SignFails(g) \/ InitiateSign(g) \/ InitiateFails(g)
             \/ SendSignedTx(g) \/ Cleanup(g)
      PROVE  FALSE
  <2>1. Pending(g) /\ Idle(g)
    BY DEF Beginning
  <2>2. sem[g].pc = "free" /\ signed[g] = {}
    BY <2>1 DEF Idle, Free
  <2>3. ~(tx[g].createTime + TxTimeout < turn)
    <3>1. tx[g].createTime \in Int /\ TxTimeout \in Nat /\ turn \in Nat
      BY PendingFacts, GuardFacts DEF TxQueued
    <3>. QED
      BY <1>0, <2>1, <3>1 DEF Pending
  <2>. QED
    BY <1>0, <1>2, <2>2, <2>3
       DEF Sign, SignFails, MaySign, InitiateSign, InitiateFails, SendSignedTx, Cleanup
<1>3. ~Tick
  BY <1>0 DEF Tick
<1>. QED
  BY <1>0, <1>1, <1>2, <1>3, MyTurnGood DEF Next
-----------------------------------------------------------------------------
\* The steps of the good turn
LEMMA SameView ==
  ASSUME tx'[Lead] = tx[Lead]
  PROVE  /\ Com' = Com /\ TheRound' = TheRound
         /\ \A h \in Guards : Right(h)' = Right(h)
BY DEF Com, TheRound, Right, Lead

\* Who is in the good turn, and that nothing expires or fails in it.
LEMMA TurnFacts ==
  ASSUME Inv, GoodTurn
  PROVE  /\ turn = PromptFrom /\ calls = 1 /\ Leader = Lead /\ Prompt /\ Begun /\ ~NoContext
         /\ Lead \in Guards /\ net \subseteq Message
         /\ tx \in [Guards -> TxQueued] /\ gens \in [Guards -> Nat] /\ sims \in [Guards -> Nat]
         /\ sem \in [Guards -> [pc : {"free", "simulate", "stuck"}, com : [Guards -> Nat]]]
         /\ signed \in [Guards -> SUBSET BOOLEAN]
         /\ promise \in [Guards -> {"none", "open", "rejected", "resolved", "invalid", "timed out"}]
         /\ Com \in [Guards -> Nat] /\ Committed(Com) \in SUBSET Guards
         /\ Signed(tx[Lead].signs) \in SUBSET Guards
<1>1. /\ turn = PromptFrom /\ calls = 1 /\ Leader = Lead /\ Prompt /\ Begun /\ ~NoContext
      /\ Lead \in Guards
  BY InTurn, GuardFacts DEF GoodTurn, Begun
<1>2. /\ tx \in [Guards -> TxQueued] /\ gens \in [Guards -> Nat] /\ sims \in [Guards -> Nat]
      /\ sem \in [Guards -> [pc : {"free", "simulate", "stuck"}, com : [Guards -> Nat]]]
      /\ signed \in [Guards -> SUBSET BOOLEAN] /\ net \subseteq Message
      /\ promise \in [Guards -> {"none", "open", "rejected", "resolved", "invalid", "timed out"}]
  BY DEF Inv, TypeOK
<1>3. Com \in [Guards -> Nat] /\ Committed(Com) \in SUBSET Guards
      /\ Signed(tx[Lead].signs) \in SUBSET Guards
  BY <1>1, <1>2 DEF Com, TxQueued, Committed, Signed
<1>. QED
  BY <1>1, <1>2, <1>3

LEMMA GenerateGood ==
  ASSUME Inv, GoodTurn, NEW m \in net, HandleGenerate(m)
  PROVE  GoodTurn'
<1> DEFINE h == m.to
           f == [tx[h] EXCEPT !.coordinator = Lead, !.secret = gens[h] + 1,
                              !.commitments[h] = gens[h] + 1]
           c == Msg("commit", h, Lead, gens[h] + 1, NoRound, FALSE)
<1>0. TypeOK
  BY DEF Inv
<1>1. /\ h \in Guards /\ h # Lead /\ m = Asking(h) /\ m.type = "generate"
      /\ turn' = turn /\ calls' = calls /\ UNCHANGED <<sem, signed, promise>>
      /\ tx[h] \in TxQueued /\ gens[h] \in Nat
  <2>1. m.type = "generate" /\ turn' = turn /\ calls' = calls /\ UNCHANGED <<sem, signed, promise>>
    BY DEF HandleGenerate
  <2>2. h # Lead /\ m = Asking(h)
    BY <2>1 DEF GoodTurn, Addressed
  <2>3. h \in Guards
    <3>1. m \in Message
      BY TurnFacts
    <3>. QED
      BY <3>1 DEF Message
  <2>4. tx[h] \in TxQueued /\ gens[h] \in Nat
    BY <2>3, TurnFacts
  <2>. QED
    BY <2>1, <2>2, <2>3, <2>4
<1>2. GenerateCommitment(h, tx[h], TRUE, net \ {m})
  BY <1>1, InTurn, TurnFacts DEF HandleGenerate
<1>3. /\ f \in TxQueued /\ f.createTime = tx[h].createTime /\ f.secret = gens[h] + 1
      /\ f.asked = tx[h].asked
  <2>1. tx[h] \in TxQueued /\ Lead \in Guards /\ gens[h] + 1 \in Nat
    BY <1>1, GuardFacts
  <2>. QED
    BY <2>1 DEF TxQueued
<1>4. /\ c.type = "commit" /\ c.from = h /\ c.to = Lead /\ c.n = gens[h] + 1
  BY DEF Msg
<1>5. CASE tx[h].asked
  <2>1. tx' = [tx EXCEPT ![h] = f] /\ net' = (net \ {m}) \cup {c}
    <3>1. WithCommitment(h, tx[h]) = f
      BY <1>5, TurnFacts DEF WithCommitment
    <3>. HIDE DEF c, f
    <3>2. Leader = Lead /\ h # Leader
      BY <1>1, TurnFacts
    <3>3. net' = (net \ {m}) \cup {Msg("commit", h, Leader, gens[h] + 1, NoRound, FALSE)}
      BY <1>2, <1>5, <3>2 DEF GenerateCommitment
    <3>. QED
      BY <1>2, <1>5, <3>1, <3>2, <3>3 DEF GenerateCommitment, c
  <2>. HIDE DEF c, f
  <2>2. /\ tx'[h] = f /\ \A x \in Guards \ {h} : tx'[x] = tx[x]
        /\ tx'[Lead] = tx[Lead]
    BY <1>1, <2>1, TurnFacts
  <2>3. Com' = Com /\ TheRound' = TheRound /\ \A x \in Guards : Right(x)' = Right(x)
    BY <2>2, SameView
  <2>4. \A x \in Guards : (Pending(x) => Pending(x)') /\ (Resolved(x) => Resolved(x)')
                          /\ (Idle(x) => Idle(x)')
    BY <1>1, <1>3, <2>2 DEF Pending, Resolved, Idle
  <2>5. \A k \in net' : Addressed(k)'
    BY <1>1, <1>4, <2>1 DEF GoodTurn, Addressed, Asking, Telling, Lead
  <2>6. CASE Joined
    <3>1. Fresh(m)
      BY <2>6 DEF Joined
    <3>2. Com[h] = 0 /\ \A k \in net : k.type = "commit" => k.from # h
      BY <1>1, <3>1 DEF Fresh
    <3>3. \A x \in Guards : Pending(x)' /\ Com'[x] \in {0, tx'[x].secret}
      BY <2>2, <2>3, <2>4, <2>6, <3>2 DEF Joined
    <3>4. ASSUME NEW k \in net' PROVE Fresh(k)'
      <4>1. CASE k = c
        BY <1>1, <1>3, <1>4, <2>2, <4>1 DEF Fresh
      <4>2. CASE k \in net \ {m}
        <5>1. Fresh(k) /\ Addressed(k) /\ k \in Message
          BY <2>6, <4>2, TurnFacts DEF Joined, GoodTurn
        <5>2. CASE k.type = "commit"
          <6>1. k.from \in Guards \ {h}
            BY <3>2, <4>2, <5>1, <5>2 DEF Message
          <6>. QED
            BY <2>2, <5>1, <5>2, <6>1 DEF Fresh
        <5>3. CASE k.type = "generate"
          <6>1. k.to # h
            BY <1>1, <4>2, <5>1, <5>3 DEF Addressed
          <6>2. Com'[k.to] = 0
            BY <2>3, <5>1, <5>3 DEF Fresh
          <6>3. \A j \in net' : j.type = "commit" => j.from # k.to
            BY <1>4, <2>1, <5>1, <5>3, <6>1 DEF Fresh
          <6>. QED
            BY <5>3, <6>2, <6>3 DEF Fresh
        <5>. QED
          BY <5>1, <5>2, <5>3 DEF Fresh
      <4>. QED
        BY <2>1, <4>1, <4>2
    <3>5. Joined'
      BY <2>3, <2>6, <3>3, <3>4 DEF Joined, Lead
    <3>6. NoneSigned => NoneSigned'
      BY <1>4, <2>1, <2>2 DEF NoneSigned, Lead
    <3>7. ASSUME NEW x \in Guards, Commits(x) PROVE Commits(x)'
      <4>1. CASE x = h
        BY <1>4, <2>1, <4>1 DEF Commits
      <4>2. CASE x # h
        BY <1>1, <2>1, <2>3, <3>7, <4>2 DEF Commits
      <4>. QED
        BY <4>1, <4>2
    <3>8. ASSUME NEW x \in Guards, Signs(x) PROVE Signs(x)'
      BY <1>1, <2>1, <2>2, <3>8 DEF Signs, Lead
    <3>9. Gathering => Gathering'
      BY <2>3, <2>4, <3>6, <3>7, TurnFacts DEF Gathering, Committed, Lead
    <3>10. Simulating => Simulating'
      BY <1>1, <2>3, <3>6 DEF Simulating, Committed, Lead
    <3>11. Collecting => Collecting'
      <4>. SUFFICES ASSUME Collecting PROVE Collecting'
        OBVIOUS
      <4>1. \A k \in net' : OfRound(k)'
        BY <1>4, <2>1, <2>3 DEF Collecting, OfRound
      <4>2. \A x \in Committed(Com)' : Signs(x)'
        BY <2>3, <3>8 DEF Collecting, Committed
      <4>3. \A x \in Guards : tx'[Lead].signs[x] # NoProof =>
               Com'[x] # 0 /\ tx'[Lead].signs[x] = Right(x)'
        BY <2>2, <2>3 DEF Collecting
      <4>. QED
        BY <1>1, <2>2, <2>3, <4>1, <4>2, <4>3 DEF Collecting, Committed, Lead, Signed
    <3>. QED
      <4>1. \A x \in Rest : Idle(x)'
        BY <2>4, GuardFacts DEF GoodTurn
      <4>2. Gathering \/ Simulating \/ Collecting \/ Ending
        BY DEF GoodTurn
      <4>3. ~Ending
        BY <2>6, GuardFacts DEF Ending, Joined, Pending, Resolved
      <4>. QED
        BY <1>1, <2>5, <3>5, <3>9, <3>10, <3>11, <4>1, <4>2, <4>3 DEF GoodTurn, Rest, Lead
  <2>7. CASE Ending
    <3>1. \A x \in Guards : Telling(x)' = Telling(x)
      BY DEF Telling, Lead
    <3>2. \A x \in Rest : Telling(x) \in net' <=> Telling(x) \in net
      BY <1>1, <1>4, <2>1 DEF Telling
    <3>3. Ending'
      BY <2>4, <2>7, <3>1, <3>2, GuardFacts DEF Ending, Rest, Lead
    <3>. QED
      BY <1>1, <2>4, <2>5, <3>3, GuardFacts DEF GoodTurn, Rest, Lead
  <2>. QED
    BY <2>6, <2>7 DEF GoodTurn
<1>6. CASE ~tx[h].asked
  <2>1. tx' = tx /\ net' = net \ {m}
    <3>1. tx' = [tx EXCEPT ![h] = tx[h]] /\ net' = net \ {m}
      BY <1>2, <1>6 DEF GenerateCommitment
    <3>. QED
      BY <3>1, TurnFacts
  <2>2. Ending
    <3>1. ~Pending(h)
      BY <1>1, <1>6, PendingFacts
    <3>. QED
      BY <1>1, <3>1 DEF GoodTurn, Joined
  <2>3. \A x \in Rest : Telling(x) \in net' <=> Telling(x) \in net
    BY <1>1, <2>1 DEF Telling
  <2>4. Ending'
    BY <1>1, <2>1, <2>2, <2>3 DEF Ending, Rest, Lead, Telling, Pending, Resolved, Idle
  <2>5. \A k \in net' : Addressed(k)'
    BY <2>1 DEF GoodTurn, Addressed, Asking, Telling, Lead
  <2>. QED
    BY <1>1, <2>4, <2>5 DEF GoodTurn, Rest, Lead, Idle
<1>. QED
  BY <1>5, <1>6

LEMMA CommitmentGood ==
  ASSUME Inv, GoodTurn, NEW m \in net, HandleCommitment(m)
  PROVE  GoodTurn'
<1> DEFINE e == Entry(Lead)
           com == [Com EXCEPT ![m.from] = m.n]
<1>1. /\ m.type = "commit" /\ net' = net \ {m} /\ turn' = turn /\ calls' = calls
      /\ UNCHANGED <<signed, promise>>
  BY DEF HandleCommitment
<1>2. m.to = Lead /\ m.to = Leader /\ m.from # Lead /\ m.from \in Guards /\ m.n \in Nat
  <2>1. m.to = Lead /\ m.from # Lead
    BY <1>1 DEF GoodTurn, Addressed
  <2>. QED
    BY <2>1, TurnFacts DEF Message
<1>3. sem[Lead] = Free
  BY <1>2 DEF HandleCommitment, Acquired
<1>4. ~Simulating
  BY <1>3 DEF Simulating, Free
<1>5. \A k \in net' : Addressed(k)'
  BY <1>1 DEF GoodTurn, Addressed, Asking, Telling, Lead
<1>6. CASE Joined
  <2>1. e = tx[Lead] /\ e \in TxQueued /\ e.asked /\ e.secret # 0 /\ e.commitments = Com
    <3>1. Pending(Lead) /\ Com[Lead] # 0 /\ Com[Lead] \in {0, tx[Lead].secret}
      BY <1>6, TurnFacts DEF Joined
    <3>. QED
      BY <3>1, PendingFacts, TurnFacts DEF Com
  <2>2. Wanted(e) <=> Cardinality(Committed(Com)) < Required
    BY <2>1 DEF Wanted
  <2>3. CASE Gathering
    <3>1. Wanted(e)
      BY <2>2, <2>3 DEF Gathering
    <3> DEFINE f == [e EXCEPT !.commitments = com]
    <3>2. /\ tx' = [tx EXCEPT ![Lead] = f]
          /\ sem' = IF Cardinality(Committed(com)) >= Required
                    THEN [sem EXCEPT ![Lead] = [pc |-> "simulate", com |-> com]] ELSE sem
      BY <1>2, <2>1, <3>1 DEF HandleCommitment
    <3>3. com \in [Guards -> Nat]
      BY <1>2, TurnFacts
    <3>. HIDE DEF com
    <3>4. /\ f.commitments = com /\ f.secret = e.secret /\ f.createTime = e.createTime
          /\ f.signs = e.signs /\ f.simulatedBag = e.simulatedBag
      BY <2>1, <3>3 DEF TxQueued
    <3>. HIDE DEF f, e
    <3>5. tx'[Lead] = f /\ (\A x \in Guards \ {Lead} : tx'[x] = tx[x]) /\ Com' = com
      BY <3>2, <3>4, TurnFacts DEF Com, Lead
    <3>6. \A x \in Guards : com[x] = IF x = m.from THEN m.n ELSE Com[x]
      BY <1>2, TurnFacts DEF com
    <3>7. m.n = tx[m.from].secret /\ m.n # 0
      BY <1>1, <1>6 DEF Joined, Fresh
    <3>8. \A x \in Guards : tx'[x].secret = tx[x].secret /\ tx'[x].createTime = tx[x].createTime
      BY <2>1, <3>4, <3>5
    <3>9. \A x \in Guards : Pending(x)' /\ Com'[x] \in {0, tx'[x].secret}
      BY <1>1, <1>6, <3>5, <3>6, <3>7, <3>8 DEF Joined, Pending
    <3>10. ASSUME NEW k \in net' PROVE Fresh(k)'
      <4>1. Fresh(k) /\ Fresh(m) /\ k \in net /\ k \in Message /\ Addressed(k)
        BY <1>1, <1>6, TurnFacts DEF Joined, GoodTurn
      <4>2. CASE k.type = "commit"
        BY <3>8, <4>1, <4>2 DEF Fresh, Message
      <4>3. CASE k.type = "generate"
        <5>1. k.to # m.from /\ k.to \in Guards
          BY <1>1, <4>1, <4>3 DEF Fresh, Message
        <5>. QED
          BY <1>1, <3>5, <3>6, <4>1, <4>3, <5>1 DEF Fresh
      <4>. QED
        BY <4>1, <4>2, <4>3 DEF Fresh
    <3>11. Joined'
      BY <1>2, <1>6, <3>5, <3>6, <3>9, <3>10, TurnFacts DEF Joined, Lead
    <3>12. NoneSigned'
      BY <1>1, <2>1, <2>3, <3>4, <3>5 DEF Gathering, NoneSigned, Lead
    <3>13. /\ Committed(com) = Committed(Com) \cup {m.from}
           /\ Cardinality(Committed(com)) \in Nat
           /\ Cardinality(Committed(com)) <= Required
      <4>1. Committed(com) = Committed(Com) \cup {m.from}
        BY <1>2, <3>6, <3>7 DEF Committed
      <4>2. Committed(com) \in SUBSET Guards
        BY DEF Committed
      <4>3. /\ Cardinality(Committed(Com)) \in Nat /\ Cardinality(Committed(com)) \in Nat
            /\ Cardinality(Committed(com)) <= Cardinality(Committed(Com)) + 1
        BY <1>2, <4>1, <4>2, TurnFacts, SomeGuards
      <4>4. Cardinality(Committed(Com)) < Required /\ Required \in Nat
        BY <2>3, Sizes DEF Gathering
      <4>. QED
        BY <4>1, <4>3, <4>4
    <3>14. \A x \in Rest : sem'[x] = sem[x]
      BY <3>2, TurnFacts, GuardFacts
    <3>15. \A x \in Rest : Idle(x)'
      BY <1>1, <3>14 DEF GoodTurn, Idle
    <3>16. CASE Cardinality(Committed(com)) >= Required
      <4>1. sem'[Lead] = [pc |-> "simulate", com |-> com] /\ signed'[Lead] = {}
        BY <1>1, <2>3, <3>2, <3>16, TurnFacts DEF Gathering, Idle
      <4>2. Cardinality(Committed(com)) = Required
        BY <3>13, <3>16, Sizes
      <4>3. Simulating'
        BY <3>5, <3>12, <4>1, <4>2 DEF Simulating, Committed, Lead
      <4>. QED
        BY <1>1, <1>5, <3>11, <3>15, <4>3 DEF GoodTurn, Rest, Lead
    <3>17. CASE ~(Cardinality(Committed(com)) >= Required)
      <4>1. sem'[Lead] = sem[Lead] /\ Cardinality(Committed(com)) < Required
        BY <3>2, <3>13, <3>17, Sizes
      <4>2. Idle(Lead)'
        BY <1>1, <2>3, <4>1 DEF Gathering, Idle, Lead
      <4>3. ASSUME NEW x \in Guards PROVE Commits(x)'
        <5>1. CASE x = m.from
          BY <3>5, <3>6, <3>7, <5>1 DEF Commits
        <5>2. CASE x # m.from
          BY <1>1, <2>3, <3>5, <3>6, <5>2 DEF Gathering, Commits
        <5>. QED
          BY <5>1, <5>2
      <4>4. Gathering'
        BY <3>5, <3>12, <4>1, <4>2, <4>3 DEF Gathering, Committed, Lead
      <4>. QED
        BY <1>1, <1>5, <3>11, <3>15, <4>4 DEF GoodTurn, Rest, Lead
    <3>. QED
      BY <3>16, <3>17
  <2>4. CASE Collecting
    <3>1. ~Wanted(e)
      BY <2>2, <2>4, Sizes DEF Collecting
    <3>2. tx' = tx /\ sem' = sem
      <4>1. tx' = [tx EXCEPT ![Lead] = e] /\ sem' = sem
        BY <1>2, <3>1 DEF HandleCommitment
      <4>. QED
        BY <2>1, <4>1, TurnFacts
    <3>3. \A k \in net' : Fresh(k)' /\ OfRound(k)'
      <4>1. Com' = Com /\ UNCHANGED tx /\ net' \subseteq net
        BY <1>1, <3>2 DEF Com, Lead
      <4>2. \A k \in net : Fresh(k) /\ OfRound(k)
        BY <1>6, <2>4 DEF Joined, Collecting
      <4>3. ASSUME NEW k \in net' PROVE Fresh(k)'
        BY <4>1, <4>2, <4>3 DEF Fresh
      <4>4. ASSUME NEW k \in net' PROVE OfRound(k)'
        BY <1>1, <3>2, <4>1, <4>2, <4>4 DEF OfRound, TheRound, Lead
      <4>. QED
        BY <4>3, <4>4
    <3>4. \A x \in Guards : Signs(x) => Signs(x)'
      BY <1>1, <3>2 DEF Signs, Lead
    <3>5. Joined'
      BY <1>1, <1>6, <3>2, <3>3 DEF Joined, Pending, Com, Lead
    <3>6. Com' = Com /\ \A x \in Guards : Right(x)' = Right(x)
      BY <3>2, SameView
    <3>7. \A x \in Committed(Com)' : Signs(x)'
      BY <2>4, <3>4, <3>6 DEF Collecting, Committed
    <3>8. \A x \in Guards : tx'[Lead].signs[x] # NoProof =>
             Com'[x] # 0 /\ tx'[Lead].signs[x] = Right(x)'
      BY <2>4, <3>2, <3>6 DEF Collecting
    <3>9. Collecting'
      BY <1>1, <2>4, <3>2, <3>3, <3>6, <3>7, <3>8 DEF Collecting, Committed, Signed, Lead
    <3>10. \A x \in Rest : Idle(x)'
      BY <1>1, <3>2 DEF GoodTurn, Idle
    <3>. QED
      BY <1>1, <1>5, <3>5, <3>9, <3>10 DEF GoodTurn, Rest, Lead
  <2>5. ~Ending
    BY <1>6, TurnFacts DEF Ending, Joined, Pending, Resolved
  <2>. QED
    BY <1>4, <2>3, <2>4, <2>5 DEF GoodTurn
<1>7. CASE Ending
  <2>1. ~e.asked
    BY <1>7, PendingFacts, TurnFacts DEF Ending
  <2>2. tx' = [tx EXCEPT ![Lead] = e] /\ sem' = sem
    BY <1>2, <2>1 DEF HandleCommitment, Wanted
  <2>. HIDE DEF e
  <2>3. \A x \in Rest : tx'[x] = tx[x]
    BY <2>2, TurnFacts, GuardFacts
  <2>4. \A x \in Rest : Telling(x) \in net' <=> Telling(x) \in net
    BY <1>1 DEF Telling
  <2>5. Ending'
    BY <1>1, <1>7, <2>2, <2>3, <2>4 DEF Ending, Rest, Lead, Telling, Pending, Resolved, Idle
  <2>. QED
    BY <1>1, <1>5, <2>2, <2>5 DEF GoodTurn, Rest, Lead, Idle
<1>. QED
  BY <1>6, <1>7 DEF GoodTurn

\* Lead gives its own proof, and asks those that it chose for theirs.
LEMMA InitiateGood ==
  ASSUME Inv, GoodTurn, TwoOrMore, NEW g \in Guards, InitiateSign(g)
  PROVE  GoodTurn'
<1> DEFINE r == [by |-> Lead, k |-> sims[Lead] + 1, com |-> Com]
           given == [n |-> tx[Lead].secret, round |-> r]
           asks == {Msg("initiate", Lead, h, 0, r, FALSE) : h \in Committed(Com) \ {Lead}}
           e == [tx[Lead] EXCEPT !.simulatedBag = r.k, !.signs[Lead] = given]
<1>1. /\ sem[g].pc = "simulate" /\ sem' = [sem EXCEPT ![g] = Free]
      /\ turn' = turn /\ calls' = calls /\ UNCHANGED <<signed, promise>>
  BY DEF InitiateSign
<1>2. g = Lead /\ Simulating /\ Joined
  <2>1. Free.pc = "free"
    BY DEF Free
  <2>2. g = Lead
    BY <1>1, <2>1, GuardFacts DEF GoodTurn, Idle
  <2>. QED
    BY <1>1, <2>1, <2>2 DEF GoodTurn, Gathering, Collecting, Ending, Idle
<1>3. /\ tx[Lead] \in TxQueued /\ r \in Round /\ sims[Lead] + 1 \in Nat /\ Lead \in Guards
      /\ Com[Lead] # 0 /\ tx[Lead].secret = Com[Lead] /\ given \in Proof
  <2>1. tx[Lead] \in TxQueued /\ sims[Lead] \in Nat /\ Lead \in Guards /\ Com \in [Guards -> Nat]
    BY TurnFacts
  <2>2. Com[Lead] # 0 /\ tx[Lead].secret = Com[Lead]
    BY <1>2, <2>1 DEF Joined
  <2>3. r \in Round
    BY <2>1 DEF Round
  <2>4. given \in Proof
    BY <2>1, <2>3 DEF Proof, TxQueued
  <2>. QED
    BY <2>1, <2>2, <2>3, <2>4
<1>4. sem[Lead].com = Com /\ [r EXCEPT !.com = Com] = r
  BY <1>2 DEF Simulating
<1>5. tx' = [tx EXCEPT ![Lead] = e] /\ net' = net \cup asks
  <2>1. /\ tx' = [tx EXCEPT ![Lead].simulatedBag = r.k, ![Lead].signs[Lead] = given]
        /\ net' = net \cup {Msg("initiate", Lead, h, 0, [r EXCEPT !.com = Com], FALSE) :
                              h \in Committed(Com) \ {Lead}}
    BY <1>2, <1>4 DEF InitiateSign, Com
  <2>2. tx' = [tx EXCEPT ![Lead] = e]
    <3>1. PICK k, p : k = r.k /\ p = given
      OBVIOUS
    <3>2. tx' = [tx EXCEPT ![Lead].simulatedBag = k, ![Lead].signs[Lead] = p]
      BY <2>1, <3>1
    <3>3. e = [tx[Lead] EXCEPT !.simulatedBag = k, !.signs[Lead] = p]
      BY <3>1
    <3>4. tx \in [Guards -> TxQueued] /\ Lead \in Guards
      BY TurnFacts
    <3>. HIDE DEF e, given, r
    <3>. QED
      BY <3>2, <3>3, <3>4
  <2>. HIDE DEF e, given, r
  <2>. QED
    BY <1>4, <2>1, <2>2
<1>6. /\ e.simulatedBag = sims[Lead] + 1 /\ e.signs = [tx[Lead].signs EXCEPT ![Lead] = given]
      /\ e.commitments = Com /\ e.secret = tx[Lead].secret /\ e.createTime = tx[Lead].createTime
  BY <1>3 DEF TxQueued, Com
<1>. HIDE DEF e
<1>7. tx'[Lead] = e /\ \A x \in Guards \ {Lead} : tx'[x] = tx[x]
  BY <1>5, TurnFacts
<1>8. Com' = Com /\ TheRound' = r /\ \A x \in Guards : Right(x)' = [n |-> Com[x], round |-> r]
  BY <1>6, <1>7 DEF Com, TheRound, Right, Lead
<1>. HIDE DEF r
<1>9. \A k \in asks : /\ k.type = "initiate" /\ k.from = Lead /\ k.to \in Committed(Com) \ {Lead}
                      /\ k.round = r
  <2>1. \A h : /\ Msg("initiate", Lead, h, 0, r, FALSE).type = "initiate"
               /\ Msg("initiate", Lead, h, 0, r, FALSE).from = Lead
               /\ Msg("initiate", Lead, h, 0, r, FALSE).to = h
               /\ Msg("initiate", Lead, h, 0, r, FALSE).round = r
    BY DEF Msg
  <2>. QED
    BY <2>1
<1>10. \A x \in Committed(Com) \ {Lead} : \E k \in asks : k.type = "initiate" /\ k.to = x
  <2>1. \A h : /\ Msg("initiate", Lead, h, 0, r, FALSE).type = "initiate"
               /\ Msg("initiate", Lead, h, 0, r, FALSE).to = h
    BY DEF Msg
  <2>. QED
    BY <2>1
<1>. HIDE DEF asks
<1>11. \A k \in net' : Addressed(k)'
  BY <1>5, <1>9 DEF GoodTurn, Addressed, Asking, Telling, Lead
<1>12. \A x \in Guards : tx'[x].secret = tx[x].secret /\ tx'[x].createTime = tx[x].createTime
  BY <1>6, <1>7
<1>13. ASSUME NEW k \in net' PROVE Fresh(k)'
  <2>1. CASE k \in net
    <3>1. Fresh(k) /\ k \in Message
      BY <1>2, <2>1, TurnFacts DEF Joined
    <3>2. \A j \in net' : j.type = "commit" => j \in net
      BY <1>5, <1>9
    <3>. QED
      BY <1>8, <1>12, <3>1, <3>2 DEF Fresh, Message
  <2>2. CASE k \in asks
    BY <1>9, <2>2 DEF Fresh
  <2>. QED
    BY <1>5, <2>1, <2>2
<1>14. Joined'
  BY <1>1, <1>2, <1>8, <1>12, <1>13 DEF Joined, Pending, Lead
<1>15. \A x \in Guards : e.signs[x] = IF x = Lead THEN given ELSE NoProof
  <2>1. tx[Lead].signs = [x \in Guards |-> NoProof]
    BY <1>2 DEF Simulating, NoneSigned, NoTx
  <2>. QED
    BY <1>6, <2>1
<1>16. given.n # 0 /\ given # NoProof /\ given = Right(Lead)'
  BY <1>3, <1>8 DEF NoProof
<1>17. Signed(e.signs) = {Lead} /\ Cardinality(Signed(e.signs)) < Required
  <2>1. Signed(e.signs) = {Lead}
    BY <1>3, <1>15, <1>16 DEF Signed
  <2>2. Cardinality({Lead}) = 1 /\ Required \in 2 .. N
    BY FS_Singleton DEF TwoOrMore
  <2>. QED
    BY <2>1, <2>2, Sizes
<1>. HIDE DEF given
<1>18. Collecting'
  <2>1. sem'[Lead] = Free /\ signed'[Lead] = {}
    BY <1>1, <1>2, TurnFacts DEF Simulating
  <2>2. tx'[Lead].simulatedBag # Undefined
    <3>1. sims[Lead] \in Nat
      BY TurnFacts
    <3>. QED
      BY <1>6, <1>7, <3>1 DEF Undefined
  <2>3. Cardinality(Committed(Com)) = Required
    BY <1>2 DEF Simulating
  <2>4. \A x \in Guards : tx'[Lead].signs[x] # NoProof =>
           Com'[x] # 0 /\ tx'[Lead].signs[x] = Right(x)'
    BY <1>3, <1>7, <1>8, <1>15, <1>16 DEF Lead
  <2>5. ASSUME NEW x \in Committed(Com) PROVE Signs(x)'
    <3>1. CASE x = Lead
      BY <1>3, <1>7, <1>15, <1>16, <3>1 DEF Signs, Lead
    <3>2. CASE x # Lead
      BY <1>5, <1>10, <3>2 DEF Signs
    <3>. QED
      BY <3>1, <3>2
  <2>6. ASSUME NEW k \in net' PROVE OfRound(k)'
    <3>1. CASE k \in net
      BY <1>2, <3>1 DEF Simulating, NoneSigned, OfRound
    <3>2. CASE k \in asks
      BY <1>8, <1>9, <3>2 DEF OfRound, Committed
    <3>. QED
      BY <1>5, <3>1, <3>2
  <2>7. ~(Cardinality(Signed(e.signs)) >= Required)
    <3>1. Cardinality(Signed(e.signs)) \in Nat
      BY <1>3, <1>15, <1>16, SomeGuards DEF Signed
    <3>. QED
      BY <1>17, <3>1, Sizes
  <2>. QED
    BY <1>7, <1>8, <2>1, <2>2, <2>3, <2>4, <2>5, <2>6, <2>7 DEF Collecting, Committed, Signed, Lead
<1>19. \A x \in Rest : Idle(x)'
  BY <1>1, <1>2, TurnFacts, GuardFacts DEF GoodTurn, Idle
<1>. QED
  BY <1>1, <1>11, <1>14, <1>18, <1>19, TurnFacts DEF GoodTurn, Rest, Lead

LEMMA InitiatedGood ==
  ASSUME Inv, GoodTurn, NEW m \in net, HandleInitiate(m)
  PROVE  GoodTurn'
<1> DEFINE h == m.to
           e == Entry(h)
           c == Msg("sign", h, Lead, e.secret, m.round, FALSE)
<1>1. /\ m.type = "initiate" /\ turn' = turn /\ calls' = calls
      /\ UNCHANGED <<signed, promise>>
  BY DEF HandleInitiate
<1>2. h \in Guards /\ h # Lead /\ m.from = Lead /\ Leader = Lead
  <2>1. h # Lead /\ m.from = Lead
    BY <1>1 DEF GoodTurn, Addressed
  <2>2. m \in Message /\ Leader = Lead
    BY TurnFacts
  <2>. QED
    BY <2>1, <2>2 DEF Message
<1>3. tx' = [tx EXCEPT ![h] = e] /\ sem' = sem
      /\ IF e.asked /\ e.secret # 0 THEN net' = (net \ {m}) \cup {c} ELSE net' = net \ {m}
  <2>1. ~NoContext
    BY TurnFacts
  <2>. HIDE DEF e
  <2>2. tx' = [tx EXCEPT ![h] = e]
    BY <1>2 DEF HandleInitiate, e
  <2>3. CASE e.asked /\ e.secret # 0
    BY <1>2, <2>1, <2>3 DEF HandleInitiate, e
  <2>4. CASE ~(e.asked /\ e.secret # 0)
    BY <1>2, <2>1, <2>4 DEF HandleInitiate, e
  <2>. QED
    BY <2>2, <2>3, <2>4
<1>4. c.type = "sign" /\ c.from = h /\ c.to = Lead /\ c.n = e.secret /\ c.round = m.round
  BY DEF Msg
<1>5. \A k \in net' : Addressed(k)'
  BY <1>2, <1>3, <1>4 DEF GoodTurn, Addressed, Asking, Telling, Lead
<1>6. \A x \in Guards \ {h} : tx'[x] = tx[x]
  BY <1>3, TurnFacts
<1>7. \A x \in Rest : Idle(x)'
  BY <1>1, <1>3 DEF GoodTurn, Idle
<1>8. CASE Joined
  <2>1. Collecting
    <3>1. ~Gathering /\ ~Simulating
      BY <1>1 DEF Gathering, Simulating, NoneSigned
    <3>2. ~Ending
      BY <1>8, GuardFacts DEF Ending, Joined, Pending, Resolved
    <3>. QED
      BY <3>1, <3>2 DEF GoodTurn
  <2>2. Com[h] # 0 /\ m.round = TheRound
    BY <1>1, <2>1 DEF Collecting, OfRound
  <2>3. e = tx[h] /\ e.asked /\ e.secret = Com[h]
    <3>1. Pending(h) /\ Com[h] \in {0, tx[h].secret}
      BY <1>2, <1>8 DEF Joined
    <3>. QED
      BY <1>2, <2>2, <3>1, PendingFacts
  <2>4. tx' = tx /\ net' = (net \ {m}) \cup {c} /\ c.n = Com[h] /\ c.round = TheRound
    BY <1>3, <1>4, <2>2, <2>3, TurnFacts
  <2>. HIDE DEF c
  <2>5. Com' = Com /\ TheRound' = TheRound /\ \A x \in Guards : Right(x)' = Right(x)
    BY <2>4, SameView
  <2>6. \A k \in net' : Fresh(k)'
    BY <1>4, <1>8, <2>4, <2>5 DEF Joined, Fresh
  <2>7. Joined'
    BY <1>1, <1>8, <2>4, <2>5, <2>6 DEF Joined, Pending, Lead
  <2>8. \A k \in net' : OfRound(k)'
    BY <1>4, <2>1, <2>2, <2>4, <2>5 DEF Collecting, OfRound
  <2>9. ASSUME NEW x \in Guards, Signs(x) PROVE Signs(x)'
    <3>1. CASE x = h
      BY <1>4, <2>4, <3>1 DEF Signs
    <3>2. CASE x # h
      BY <1>1, <2>4, <2>9, <3>2 DEF Signs, Lead
    <3>. QED
      BY <3>1, <3>2
  <2>10. \A x \in Committed(Com)' : Signs(x)'
    BY <2>1, <2>5, <2>9 DEF Collecting, Committed
  <2>11. Collecting'
    BY <1>1, <1>3, <2>1, <2>4, <2>5, <2>8, <2>10, ZenonT(120) DEF Collecting, Committed, Signed, Lead
  <2>. QED
    BY <1>1, <1>5, <1>7, <2>7, <2>11, TurnFacts DEF GoodTurn, Rest, Lead
<1>9. CASE Ending
  <2>1. \A x \in Rest : Telling(x) \in net' <=> Telling(x) \in net
    <3>. HIDE DEF e
    <3>. QED
      BY <1>1, <1>3 DEF Telling, Msg
  <2>2. \A x \in Rest : (Pending(x) => Pending(x)') /\ (Resolved(x) => Resolved(x)')
    <3>1. ASSUME NEW x \in Rest, Pending(x) PROVE tx'[x] = tx[x]
      BY <1>2, <1>3, <1>6, <3>1, PendingFacts, GuardFacts, TurnFacts
    <3>. QED
      BY <1>1, <3>1 DEF Pending, Resolved
  <2>3. Idle(Lead)' /\ Resolved(Lead)'
    BY <1>1, <1>3, <1>9 DEF Ending, Idle, Resolved, Lead
  <2>4. Ending'
    BY <1>9, <2>1, <2>2, <2>3 DEF Ending, Rest, Lead, Telling
  <2>. QED
    BY <1>1, <1>5, <1>7, <2>4, TurnFacts DEF GoodTurn, Rest, Lead
<1>. QED
  BY <1>8, <1>9 DEF GoodTurn

\* Once as many proofs are there as commitments, they are those of the round.
LEMMA CollectedFits ==
  ASSUME NEW e \in TxQueued, NEW g \in Guards,
         Cardinality(Committed(e.commitments)) = Required,
         \A h \in Guards : e.signs[h] # NoProof =>
           /\ e.commitments[h] # 0
           /\ e.signs[h] = [n |-> e.commitments[h],
                            round |-> [by |-> g, k |-> e.simulatedBag, com |-> e.commitments]],
         Cardinality(Signed(e.signs)) >= Required
  PROVE  Fits(g, e)
<1>1. /\ Committed(e.commitments) \in SUBSET Guards
      /\ Signed(e.signs) \in SUBSET Committed(e.commitments)
  BY DEF Committed, Signed
<1>2. Signed(e.signs) = Committed(e.commitments)
  BY <1>1, SomeGuards
<1>3. DOMAIN e.signs = Guards /\ e.signs = [h \in Guards |-> e.signs[h]]
  BY DEF TxQueued
<1>4. \A h \in Guards : e.commitments[h] # 0 <=> e.signs[h] # NoProof
  BY <1>2 DEF Committed, Signed
<1>5. Cardinality(Committed(e.commitments)) >= Required
  BY Sizes
<1>. QED
  BY <1>3, <1>4, <1>5 DEF Fits

LEMMA SignGood ==
  ASSUME Inv, GoodTurn, NEW m \in net, HandleSign(m)
  PROVE  GoodTurn'
<1> DEFINE e == Entry(Lead)
           p == [n |-> m.n, round |-> m.round]
           new == [e EXCEPT !.signs[m.from] = p]
<1>1. /\ m.type = "sign" /\ net' = net \ {m} /\ turn' = turn /\ calls' = calls
      /\ promise' = promise
  BY DEF HandleSign
<1>2. m.to = Lead /\ m.from # Lead /\ m.from \in Guards /\ p \in Proof
  <2>1. m.to = Lead /\ m.from # Lead
    BY <1>1 DEF GoodTurn, Addressed
  <2>2. m \in Message
    BY TurnFacts
  <2>. QED
    BY <2>1, <2>2 DEF Message, Proof
<1>3. \A k \in net' : Addressed(k)'
  BY <1>1 DEF GoodTurn, Addressed, Asking, Telling, Lead
<1>4. CASE Joined
  <2>1. Collecting
    <3>1. ~Gathering /\ ~Simulating
      BY <1>1 DEF Gathering, Simulating, NoneSigned
    <3>2. ~Ending
      BY <1>4, GuardFacts DEF Ending, Joined, Pending, Resolved
    <3>. QED
      BY <3>1, <3>2 DEF GoodTurn
  <2>2. Com[m.from] # 0 /\ p = Right(m.from)
    BY <1>1, <2>1 DEF Collecting, OfRound, Right
  <2>3. e = tx[Lead] /\ e \in TxQueued /\ e.asked /\ e.simulatedBag # Undefined
    <3>1. Pending(Lead)
      BY <1>4, TurnFacts DEF Joined
    <3>. QED
      BY <2>1, <3>1, PendingFacts, TurnFacts DEF Collecting
  <2>4. /\ tx' = [tx EXCEPT ![Lead] = new]
        /\ IF Cardinality(Signed(new.signs)) < Required THEN UNCHANGED <<sem, signed>>
           ELSE \/ /\ signed' = [signed EXCEPT ![Lead] = @ \cup {Fits(Lead, new)}]
                   /\ UNCHANGED sem
                \/ ~Fits(Lead, new)
    BY <1>2, <2>3 DEF HandleSign
  <2>. HIDE DEF p
  <2>5. /\ new \in TxQueued /\ new.commitments = Com /\ new.secret = e.secret
        /\ new.createTime = e.createTime /\ new.simulatedBag = e.simulatedBag
        /\ new.signs = [tx[Lead].signs EXCEPT ![m.from] = p]
        /\ tx[Lead].signs \in [Guards -> Proof]
    BY <1>2, <2>3 DEF TxQueued, Com
  <2>. HIDE DEF new, e
  <2>6. tx'[Lead] = new /\ \A x \in Guards \ {Lead} : tx'[x] = tx[x]
    BY <2>4, TurnFacts
  <2>7. Com' = Com /\ TheRound' = TheRound /\ \A x \in Guards : Right(x)' = Right(x)
    BY <2>3, <2>5, <2>6 DEF Com, TheRound, Right, Lead
  <2>8. \A x \in Guards : new.signs[x] = IF x = m.from THEN p ELSE tx[Lead].signs[x]
    BY <1>2, <2>5
  <2>9. p # NoProof
    <3>1. p.n # 0
      BY <2>2 DEF Right
    <3>. QED
      BY <3>1 DEF NoProof
  <2>10. \A x \in Guards : new.signs[x] # NoProof => Com[x] # 0 /\ new.signs[x] = Right(x)
    BY <1>2, <2>1, <2>2, <2>8 DEF Collecting
  <2>11. Cardinality(Signed(new.signs)) >= Required => Fits(Lead, new)
    <3>1. TheRound = [by |-> Lead, k |-> new.simulatedBag, com |-> new.commitments]
      BY <2>3, <2>5 DEF TheRound
    <3>2. \A x \in Guards : new.signs[x] # NoProof =>
             /\ new.commitments[x] # 0
             /\ new.signs[x] = [n |-> new.commitments[x],
                   round |-> [by |-> Lead, k |-> new.simulatedBag, com |-> new.commitments]]
      BY <2>5, <2>10, <3>1 DEF Right
    <3>3. Cardinality(Committed(new.commitments)) = Required
      BY <2>1, <2>5 DEF Collecting
    <3>. QED
      BY <2>5, <3>2, <3>3, CollectedFits, GuardFacts
  <2>12. /\ Cardinality(Signed(tx[Lead].signs)) <= Cardinality(Signed(new.signs))
         /\ Cardinality(Signed(tx[Lead].signs)) \in Nat /\ Cardinality(Signed(new.signs)) \in Nat
    <3>1. Signed(new.signs) \in SUBSET Guards
          /\ Signed(tx[Lead].signs) \in SUBSET Signed(new.signs)
      BY <2>8, <2>9 DEF Signed
    <3>2. PICK S \in SUBSET Guards, T \in SUBSET Guards :
            S = Signed(new.signs) /\ T = Signed(tx[Lead].signs) /\ T \in SUBSET S
      BY <3>1
    <3>3. /\ Cardinality(T) <= Cardinality(S)
          /\ Cardinality(T) \in Nat /\ Cardinality(S) \in Nat
      BY <3>2, SomeGuards
    <3>. QED
      BY <3>2, <3>3
  <2>a. /\ sem' = sem
        /\ signed' = IF Cardinality(Signed(new.signs)) >= Required
                     THEN [signed EXCEPT ![Lead] = @ \cup {Fits(Lead, new)}] ELSE signed
    <3>1. Required \in Nat
      BY Sizes
    <3>2. CASE Cardinality(Signed(new.signs)) >= Required
      <4>1. ~(Cardinality(Signed(new.signs)) < Required) /\ Fits(Lead, new)
        BY <2>11, <2>12, <3>1, <3>2
      <4>2. /\ signed' = [signed EXCEPT ![Lead] = @ \cup {Fits(Lead, new)}]
            /\ UNCHANGED sem
        BY <2>4, <4>1, Zenon
      <4>. QED
        BY <3>2, <4>2, Zenon
    <3>3. CASE ~(Cardinality(Signed(new.signs)) >= Required)
      BY <2>4, <2>12, <3>1, <3>3
    <3>. QED
      BY <3>2, <3>3
  <2>13. signed'[Lead] = IF Cardinality(Signed(new.signs)) >= Required THEN {TRUE} ELSE {}
    <3>1. CASE Cardinality(Signed(new.signs)) >= Required
      <4>1. signed[Lead] \subseteq {TRUE}
        BY <2>1 DEF Collecting
      <4>2. signed'[Lead] = signed[Lead] \cup {Fits(Lead, new)}
        BY <2>a, <3>1, TurnFacts
      <4>3. Fits(Lead, new) = TRUE
        BY <2>11, <3>1 DEF Fits
      <4>. QED
        BY <3>1, <4>1, <4>2, <4>3
    <3>2. CASE ~(Cardinality(Signed(new.signs)) >= Required)
      <4>1. ~(Cardinality(Signed(tx[Lead].signs)) >= Required)
        BY <2>12, <3>2, Sizes
      <4>2. signed' = signed
        BY <2>a, <3>2
      <4>. QED
        BY <2>1, <3>2, <4>1, <4>2 DEF Collecting
    <3>. QED
      BY <3>1, <3>2
  <2>14. \A x \in Rest : signed'[x] = signed[x]
    BY <2>a, TurnFacts, GuardFacts
  <2>15. \A x \in Guards : tx'[x].secret = tx[x].secret /\ tx'[x].createTime = tx[x].createTime
    BY <2>3, <2>5, <2>6
  <2>16. \A k \in net' : Fresh(k)'
    <3>1. \A k \in net' : Fresh(k) /\ k \in Message
      BY <1>1, <1>4, TurnFacts DEF Joined
    <3>. QED
      BY <1>1, <2>7, <2>15, <3>1 DEF Fresh, Message
  <2>17. Joined'
    BY <1>1, <1>4, <2>a, <2>7, <2>15, <2>16 DEF Joined, Pending, Lead
  <2>18. ASSUME NEW x \in Guards, Signs(x) PROVE Signs(x)'
    <3>1. CASE x = m.from
      BY <2>6, <2>8, <2>9, <3>1 DEF Signs, Lead
    <3>2. CASE x # m.from
      BY <1>1, <1>2, <2>6, <2>8, <2>18, <3>2 DEF Signs, Lead
    <3>. QED
      BY <3>1, <3>2
  <2>19. \A x \in Committed(Com)' : Signs(x)'
    BY <2>1, <2>7, <2>18 DEF Collecting, Committed
  <2>20. \A k \in net' : OfRound(k)'
    BY <1>1, <2>1, <2>7 DEF Collecting, OfRound
  <2>21. \A x \in Guards : tx'[Lead].signs[x] # NoProof =>
            Com'[x] # 0 /\ tx'[Lead].signs[x] = Right(x)'
    BY <2>6, <2>7, <2>10
  <2>22. Collecting'
    BY <1>1, <2>a, <2>1, <2>3, <2>5, <2>6, <2>7, <2>13, <2>19, <2>20, <2>21 DEF Collecting, Committed, Signed, Lead
  <2>23. \A x \in Rest : Idle(x)'
    BY <1>1, <2>a, <2>14 DEF GoodTurn, Idle
  <2>. QED
    BY <1>1, <1>3, <2>17, <2>22, <2>23, TurnFacts DEF GoodTurn, Rest, Lead
<1>5. CASE Ending
  <2>1. ~e.asked
    BY <1>5, PendingFacts, TurnFacts DEF Ending
  <2>2. tx' = [tx EXCEPT ![Lead] = e] /\ signed' = signed /\ sem' = sem
    BY <1>2, <2>1 DEF HandleSign
  <2>. HIDE DEF e
  <2>3. \A x \in Rest : tx'[x] = tx[x]
    BY <2>2, TurnFacts, GuardFacts
  <2>4. \A x \in Rest : Telling(x) \in net' <=> Telling(x) \in net
    BY <1>1 DEF Telling
  <2>5. Ending'
    BY <1>1, <1>5, <2>2, <2>3, <2>4 DEF Ending, Rest, Lead, Telling, Pending, Resolved, Idle
  <2>. QED
    BY <1>1, <1>3, <2>2, <2>5 DEF GoodTurn, Rest, Lead, Idle
<1>. QED
  BY <1>4, <1>5 DEF GoodTurn

LEMMA SendSignedGood ==
  ASSUME Inv, GoodTurn, NEW g \in Guards, SendSignedTx(g)
  PROVE  GoodTurn'
<1>1. PICK valid \in signed[g] :
        /\ HandleSignedTx(g, valid) /\ signed' = [signed EXCEPT ![g] = @ \ {valid}]
        /\ net' = net \cup {Msg("signed", g, h, 0, NoRound, valid) : h \in Others(g)}
        /\ UNCHANGED <<turn, calls, gens, sims, proofs>>
  BY DEF SendSignedTx
<1>2. g = Lead
  BY <1>1, GuardFacts DEF GoodTurn, Idle
<1>3. Collecting /\ Joined
  BY <1>1, <1>2 DEF GoodTurn, Gathering, Simulating, Ending, Idle
<1>4. valid = TRUE /\ signed[Lead] = {TRUE}
  BY <1>1, <1>2, <1>3 DEF Collecting
<1>5. promise' = [promise EXCEPT ![Lead] = "resolved"] /\ tx' = [tx EXCEPT ![Lead] = NoTx]
      /\ sem' = sem
  <2>1. Entry(Lead).asked /\ promise[Lead] = "open"
    BY <1>3, TurnFacts, PendingFacts DEF Joined, Pending
  <2>. QED
    BY <1>1, <1>2, <1>4, <2>1, TurnFacts DEF HandleSignedTx, Outcome, SettledAs
<1>6. net' = net \cup {Telling(h) : h \in Rest}
  BY <1>1, <1>2, <1>4, TurnFacts DEF Msg, Telling, Others, Rest
<1>7. signed'[Lead] = {} /\ \A x \in Rest : signed'[x] = signed[x]
  BY <1>1, <1>2, <1>4, TurnFacts, GuardFacts
<1>8. \A x \in Rest : Idle(x)'
  BY <1>5, <1>7 DEF GoodTurn, Idle
<1>9. \A k \in net' : Addressed(k)'
  <2>1. \A h \in Rest : Addressed(Telling(h))
    BY GuardFacts DEF Addressed, Telling
  <2>2. \A k \in net' : Addressed(k)
    BY <1>6, <2>1 DEF GoodTurn
  <2>. QED
    BY <2>2 DEF Addressed, Asking, Telling, Lead
<1>10. Ending'
  <2>1. \A h \in Rest : Telling(h) \in net' /\ Pending(h)'
    <3>1. \A h \in Rest : Pending(h) /\ tx'[h] = tx[h] /\ promise'[h] = promise[h]
      BY <1>3, <1>5, TurnFacts, GuardFacts DEF Joined
    <3>. QED
      BY <1>6, <3>1 DEF Pending
  <2>2. Idle(Lead)' /\ Resolved(Lead)'
    BY <1>3, <1>5, <1>7, TurnFacts DEF Collecting, Idle, Resolved, Lead
  <2>. QED
    BY <2>1, <2>2 DEF Ending, Telling, Rest, Lead
<1>. QED
  BY <1>1, <1>8, <1>9, <1>10, TurnFacts DEF GoodTurn, Rest, Lead

LEMMA HandleSignedGood ==
  ASSUME Inv, GoodTurn, NEW m \in net, HandleSigned(m)
  PROVE  GoodTurn'
<1> DEFINE h == m.to
<1>1. /\ m.type = "signed" /\ HandleSignedTx(h, m.valid) /\ net' = net \ {m}
      /\ UNCHANGED <<turn, calls, signed, gens, sims, proofs>>
  BY DEF HandleSigned
<1>2. h \in Rest /\ h \in Guards /\ h # Lead /\ m = Telling(h)
  <2>1. h # Lead /\ m = Telling(h)
    BY <1>1 DEF GoodTurn, Addressed
  <2>2. m \in Message
    BY TurnFacts
  <2>3. h \in Guards
    BY <2>2 DEF Message
  <2>. QED
    BY <2>1, <2>3, GuardFacts
<1>3. Ending
  BY <1>1 DEF GoodTurn, Joined, Fresh
<1>4. Pending(h)
  BY <1>2, <1>3 DEF Ending
<1>5. promise' = [promise EXCEPT ![h] = "resolved"] /\ tx' = [tx EXCEPT ![h] = NoTx]
      /\ sem' = sem
  <2>1. Entry(h).asked /\ promise[h] = "open"
    BY <1>2, <1>4, PendingFacts DEF Pending
  <2>2. m.valid = TRUE
    BY <1>2 DEF Telling
  <2>3. ~NoContext
    BY TurnFacts
  <2>. QED
    BY <1>1, <2>1, <2>2, <2>3 DEF HandleSignedTx, Outcome, SettledAs
<1>6. \A k \in net' : Addressed(k)'
  BY <1>1 DEF GoodTurn, Addressed, Asking, Telling, Lead
<1>7. \A x \in Guards \ {h} : tx'[x] = tx[x] /\ promise'[x] = promise[x]
  BY <1>5, TurnFacts
<1>8. promise'[h] = "resolved"
  BY <1>2, <1>5, TurnFacts
<1>9. \A x \in Rest : Telling(x) \in net' <=> Telling(x) \in net /\ x # h
  <2>1. \A x \in Rest : Telling(x) = m => x = h
    BY DEF Telling
  <2>. QED
    BY <1>1, <1>2, <2>1
<1>10. Ending'
  <2>1. Idle(Lead)' /\ Resolved(Lead)'
    BY <1>1, <1>2, <1>3, <1>5, <1>7, TurnFacts DEF Ending, Idle, Resolved, Lead
  <2>2. ASSUME NEW x \in Rest
        PROVE  IF Telling(x) \in net' THEN Pending(x)' ELSE Resolved(x)'
    <3>1. CASE x = h
      BY <1>8, <1>9, <3>1 DEF Resolved
    <3>2. CASE x # h
      BY <1>3, <1>7, <1>9, <3>2, GuardFacts DEF Ending, Pending, Resolved
    <3>. QED
      BY <3>1, <3>2
  <2>. QED
    BY <2>1, <2>2 DEF Ending, Telling, Rest, Lead
<1>11. \A x \in Rest : Idle(x)'
  BY <1>1, <1>5 DEF GoodTurn, Idle
<1>. QED
  BY <1>1, <1>6, <1>10, <1>11, TurnFacts DEF GoodTurn, Rest, Lead

LEMMA CleanupGood ==
  ASSUME Inv, GoodTurn, NEW g \in Guards, Cleanup(g)
  PROVE  GoodTurn'
<1>1. /\ tx' = [tx EXCEPT ![g] = NoTx] /\ promise' = [promise EXCEPT ![g] = ExpiredPromise(g)]
      /\ tx[g].createTime + TxTimeout < turn
      /\ UNCHANGED <<turn, calls, sem, signed, net>>
  BY DEF Cleanup
<1>2. ~Pending(g)
  <2>1. tx[g].createTime \in Int /\ TxTimeout \in Nat /\ turn \in Nat
    BY PendingFacts, GuardFacts DEF TxQueued
  <2>2. turn = PromptFrom
    BY DEF GoodTurn
  <2>3. ~(tx[g].createTime + TxTimeout >= PromptFrom)
    BY <1>1, <2>1, <2>2
  <2>. QED
    BY <2>3 DEF Pending
<1>3. Ending /\ Resolved(g)
  BY <1>2, GuardFacts DEF GoodTurn, Joined, Ending
<1>4. promise' = promise
  BY <1>1, <1>3, PendingFacts, TurnFacts DEF ExpiredPromise
<1>5. \A x \in Guards \ {g} : tx'[x] = tx[x]
  BY <1>1, TurnFacts
<1>6. ASSUME NEW x \in Rest
      PROVE  IF Telling(x) \in net' THEN Pending(x)' ELSE Resolved(x)'
  BY <1>1, <1>2, <1>3, <1>4, <1>5, GuardFacts DEF Ending, Pending, Resolved
<1>7. Idle(Lead)' /\ Resolved(Lead)' /\ \A x \in Rest : Idle(x)'
  BY <1>1, <1>3, <1>4 DEF GoodTurn, Ending, Idle, Resolved, Lead
<1>8. \A k \in net' : Addressed(k)'
  BY <1>1 DEF GoodTurn, Addressed, Asking, Telling, Lead
<1>9. Ending'
  BY <1>6, <1>7 DEF Ending, Telling, Rest, Lead
<1>. QED
  BY <1>1, <1>7, <1>8, <1>9, TurnFacts DEF GoodTurn, Rest, Lead

\* The good turn ends when all is handled: then all have the transaction signed.
LEMMA TickGood ==
  ASSUME Inv, GoodTurn, TwoOrMore, Tick
  PROVE  Afterwards'
<1>1. /\ turn' = turn + 1 /\ UNCHANGED promise /\ turn \in Nat
      /\ \A m \in net : sem[m.to].pc = "stuck"
      /\ \A g \in Guards : sem[g].pc # "simulate" /\ (signed[g] # {} => sem[g].pc = "stuck")
  BY TurnFacts, PendingFacts DEF Tick
<1>2. Free.pc = "free"
  BY DEF Free
<1>3. ~Simulating
  <2>1. Simulating => sem[Lead].pc = "simulate"
    BY DEF Simulating
  <2>. QED
    BY <1>1, <2>1, GuardFacts
<1>4. \A g \in Guards : sem[g] = Free
  BY <1>3, GuardFacts DEF GoodTurn, Idle, Gathering, Collecting, Ending
<1>5. net = {}
  <2>1. \A m \in net : m.to \in Guards
    <3>1. net \subseteq Message
      BY TurnFacts
    <3>. QED
      BY <3>1 DEF Message
  <2>. QED
    BY <1>1, <1>2, <1>4, <2>1
<1>6. signed[Lead] = {}
  BY <1>1, <1>2, <1>4, TurnFacts
<1>7. ~Gathering
  <2>1. SUFFICES ASSUME Gathering PROVE FALSE
    OBVIOUS
  <2>2. Committed(Com) = Guards
    BY <1>5, <2>1 DEF Gathering, Commits, Committed
  <2>. QED
    BY <2>1, <2>2, GuardsFinite, Sizes DEF Gathering, TwoOrMore
<1>8. ~Collecting
  <2>1. SUFFICES ASSUME Collecting PROVE FALSE
    OBVIOUS
  <2>2. Committed(Com) \subseteq Signed(tx[Lead].signs)
    BY <1>5, <2>1 DEF Collecting, Signs, Committed, Signed
  <2>3. Cardinality(Committed(Com)) <= Cardinality(Signed(tx[Lead].signs))
        /\ Cardinality(Signed(tx[Lead].signs)) \in Nat
    BY <2>2, TurnFacts, SomeGuards
  <2>. QED
    BY <1>6, <2>1, <2>3, Sizes DEF Collecting
<1>9. \A g \in Guards : Resolved(g)
  BY <1>3, <1>5, <1>7, <1>8, GuardFacts DEF GoodTurn, Ending
<1>10. turn' > PromptFrom
  <2>1. turn = PromptFrom
    BY DEF GoodTurn
  <2>. QED
    BY <1>1, <2>1
<1>. QED
  BY <1>1, <1>9, <1>10 DEF Afterwards, Resolved

LEMMA GoodTurnStep ==
  ASSUME Inv, GoodTurn, TwoOrMore, [Next]_vars
  PROVE  GoodTurn' \/ Afterwards'
<1>1. CASE UNCHANGED vars
  BY <1>1, ZenonT(120) DEF vars, GoodTurn, Addressed, Asking, Telling, Idle, Joined, Pending, Fresh, Com,
              Gathering, Simulating, Collecting, Ending, NoneSigned, Commits, Signs, OfRound,
              Right, TheRound, Resolved, Rest, Lead, Committed, Signed
<1>2. ASSUME NEW g \in Guards, Sign(g) \/ SignFails(g) PROVE FALSE
  <2>1. promise[g] \in {"open", "resolved"}
    BY GuardFacts DEF GoodTurn, Joined, Ending, Pending, Resolved
  <2>. QED
    BY <1>2, <2>1, SignAgainAssumption DEF Sign, SignFails, MaySign
<1>3. ASSUME NEW g \in Guards, HandleMyTurn(g) \/ InitiateFails(g) PROVE FALSE
  <2>1. Prompt /\ calls = 1 /\ ~NoContext
    BY TurnFacts
  <2>2. ~(calls < IF Prompt THEN 1 ELSE MaxCalls)
    BY <2>1
  <2>. QED
    BY <1>3, <2>1, <2>2 DEF HandleMyTurn, InitiateFails
<1>4. ASSUME NEW m \in net, Receive(m) PROVE GoodTurn'
  BY <1>4, GenerateGood, CommitmentGood, InitiatedGood, SignGood, HandleSignedGood DEF Receive
<1>. QED
  BY <1>1, <1>2, <1>3, <1>4, InitiateGood, SendSignedGood, CleanupGood, TickGood DEF Next

\* Who has the transaction signed keeps it so.
LEMMA AfterStep ==
  ASSUME Inv, Afterwards, [Next]_vars
  PROVE  Afterwards'
<1>0. /\ turn \in Nat /\ PromptFrom \in Nat /\ turn > PromptFrom
      /\ promise \in [Guards -> {"none", "open", "rejected", "resolved", "invalid", "timed out"}]
      /\ net \subseteq Message
      /\ \A g \in Guards : promise[g] = "resolved" /\ ~tx[g].asked /\ ~Entry(g).asked
  BY GuardFacts, PendingFacts DEF Afterwards, Inv, TypeOK, Resolved
<1>1. CASE UNCHANGED <<turn, promise>>
  BY <1>1 DEF Afterwards, Resolved
<1>2. ASSUME NEW g \in Guards, Sign(g) \/ SignFails(g) PROVE FALSE
  BY <1>0, <1>2, SignAgainAssumption DEF Sign, SignFails, MaySign
<1>3. ASSUME NEW g \in Guards, NEW valid, HandleSignedTx(g, valid) PROVE promise' = promise
  BY <1>0, <1>3 DEF HandleSignedTx
<1>4. ASSUME NEW g \in Guards, SendSignedTx(g) PROVE UNCHANGED <<turn, promise>>
  BY <1>3, <1>4 DEF SendSignedTx
<1>5. ASSUME NEW m \in net, HandleSigned(m) PROVE UNCHANGED <<turn, promise>>
  <2>1. m.to \in Guards
    BY <1>0 DEF Message
  <2>. QED
    BY <1>3, <1>5, <2>1 DEF HandleSigned
<1>6. ASSUME NEW g \in Guards, Cleanup(g) PROVE UNCHANGED <<turn, promise>>
  BY <1>0, <1>6 DEF Cleanup, ExpiredPromise
<1>7. ASSUME NEW g \in Guards, HandleMyTurn(g) \/ InitiateSign(g) \/ InitiateFails(g)
      PROVE  UNCHANGED <<turn, promise>>
  BY <1>7 DEF HandleMyTurn, InitiateSign, InitiateFails
<1>8. ASSUME NEW m \in net,
             HandleGenerate(m) \/ HandleCommitment(m) \/ HandleInitiate(m) \/ HandleSign(m)
      PROVE  UNCHANGED <<turn, promise>>
  BY <1>8 DEF HandleGenerate, HandleCommitment, HandleInitiate, HandleSign
<1>9. CASE Tick
  <2>1. turn' = turn + 1 /\ promise' = promise
    BY <1>9 DEF Tick
  <2>2. turn' > PromptFrom
    <3>1. turn \in Nat /\ PromptFrom \in Nat /\ turn > PromptFrom /\ turn' = turn + 1
      BY <1>0, <2>1
    <3>. QED
      BY <3>1
  <2>3. \A g \in Guards : promise'[g] = "resolved"
    BY <1>0, <2>1
  <2>. QED
    BY <2>2, <2>3 DEF Afterwards, Resolved
<1>10. CASE UNCHANGED vars
  BY <1>1, <1>10 DEF vars
<1>. QED
  BY <1>1, <1>2, <1>4, <1>5, <1>6, <1>7, <1>8, <1>9, <1>10 DEF Next, Receive

\* Whatever was lost, late or failed before, one good turn in which all guards wait
\* for the transaction has it signed at all of them, for any number of guards: if two
\* of them have to sign or more, and no transaction stays in the queue until a guard
\* that led it has the turn again, for then handleMyTurnForTx asks nobody.
THEOREM RecoversHolds ==
  ASSUME TwoOrMore, ShortLived
  PROVE  Spec => Recovers
<1> DEFINE Best == /\ turn = PromptFrom /\ calls = 0 /\ net = {}
                   /\ \A g \in Guards : promise[g] = "open" /\ sem[g] = Free /\ signed[g] = {}
                                        /\ tx[g].createTime + TxTimeout >= turn
           Done == turn > PromptFrom => \A g \in Guards : promise[g] = "resolved"
<1>1. Inv /\ LedInv /\ Best => Recovering
  BY BeginsWell DEF Recovering
<1>2. Inv /\ Recovering /\ [Next]_vars => Recovering'
  BY BeginningStep, GoodTurnStep, AfterStep DEF Recovering
<1>3. Recovering => Done
  <2>1. Beginning \/ GoodTurn => turn = PromptFrom
    BY DEF Beginning, GoodTurn
  <2>. QED
    BY <2>1, GuardFacts DEF Recovering, Afterwards, Resolved
<1>4. Spec => []Inv
  BY Invariant
<1>5. Spec => []LedInv
  BY LedInit, LedStep, Invariant, PTL DEF Spec
<1>6. Recovers <=> [](Best => []Done)
  BY PTL DEF Recovers
<1>. HIDE DEF Best, Done
<1>7. Spec => [](Best => []Done)
  BY <1>1, <1>2, <1>3, <1>4, <1>5, PTL DEF Spec
<1>. QED
  BY <1>6, <1>7, PTL
=============================================================================
