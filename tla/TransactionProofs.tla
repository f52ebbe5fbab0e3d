------------------------- MODULE TransactionProofs -------------------------
(***************************************************************************)
(* Proof of the type invariant of Transaction for every set of seeds and   *)
(* every bound.                                                            *)
(***************************************************************************)
EXTENDS Transaction, TLAPS

USE TxAssumption, SignatureAssumption

\* The records TypeOK allows in txs.
TxRecords ==
    [id : {IdOf(s) : s \in Seeds}, status : Statuses,
     sig : {SignatureOf(IdOf(s)) : s \in Seeds} \cup {NoSig}]

LEMMA InitTypeOK == Init => TypeOK
BY DEF Init, TypeOK

LEMMA NextTypeOK == TypeOK /\ [Next]_vars => TypeOK'
<1> SUFFICES ASSUME TypeOK, [Next]_vars PROVE TypeOK'
    OBVIOUS
<1>1. txs \in Seq(TxRecords) /\ Len(txs) <= MaxTx
    BY DEF TypeOK, TxRecords
<1>2. CASE Create
    <2>1. PICK seed \in Seeds :
              txs' = Append(txs, [id |-> IdOf(seed), status |-> "PENDING",
                                  sig |-> NoSig])
        BY <1>2 DEF Create
    <2>2. QED
        BY <1>1, <1>2, <2>1 DEF Create, TypeOK, TxRecords, Statuses
<1>3. ASSUME NEW i \in 1 .. Len(txs), NEW s \in Statuses, SetStatus(i, s)
      PROVE  TypeOK'
    <2>1. txs[i] \in TxRecords
        BY <1>1
    <2>2. [txs[i] EXCEPT !.status = s] \in TxRecords
        BY <2>1 DEF TxRecords
    <2>3. txs' = [txs EXCEPT ![i] = [txs[i] EXCEPT !.status = s]]
        BY <1>3 DEF SetStatus
    <2>4. txs' \in Seq(TxRecords) /\ Len(txs') = Len(txs)
        BY <1>1, <2>2, <2>3
    <2>5. QED
        BY <1>1, <2>4 DEF TypeOK, TxRecords
<1>4. ASSUME NEW i \in 1 .. Len(txs), Sign(i)
      PROVE  TypeOK'
    <2>1. txs[i] \in TxRecords
        BY <1>1
    <2>2. PICK seed \in Seeds : txs[i].id = IdOf(seed)
        BY <2>1 DEF TxRecords
    <2>3. [txs[i] EXCEPT !.sig = SignatureOf(IdOf(seed))] \in TxRecords
        BY <2>1 DEF TxRecords
    <2>4. txs' = [txs EXCEPT ![i] = [txs[i] EXCEPT !.sig = SignatureOf(IdOf(seed))]]
        BY <1>4, <2>2 DEF Sign
    <2>5. txs' \in Seq(TxRecords) /\ Len(txs') = Len(txs)
        BY <1>1, <2>3, <2>4
    <2>6. QED
        BY <1>1, <2>5 DEF TypeOK, TxRecords
<1>5. CASE UNCHANGED vars
    BY <1>5 DEF vars, TypeOK
<1>6. QED
    BY <1>2, <1>3, <1>4, <1>5 DEF Next

(***************************************************************************)
(* The fields of every transaction keep their types (an id generateId()    *)
(* can produce, a status of the enum, no signature or the signature of an  *)
(* id), and no more than MaxTx transactions are created.                   *)
(***************************************************************************)
THEOREM TypeCorrect == Spec => []TypeOK
BY InitTypeOK, NextTypeOK, PTL DEF Spec

=============================================================================
