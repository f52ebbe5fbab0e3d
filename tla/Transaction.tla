---------------------------- MODULE Transaction ----------------------------
(***************************************************************************)
(* The transactions of a wallet's history (src/src/core/transaction.cpp,   *)
(* class Transaction, declared in src/include/core/transaction.h).         *)
(*                                                                         *)
(* The constructor creates a PENDING transaction and draws its id from     *)
(* generateId(); setStatus() and sign() are the only mutators.  txs is the *)
(* sequence of transactions in creation order (Wallet::m_transactions);    *)
(* the addresses, amount and timestamp are fixed at construction and play  *)
(* no part in the properties, so they are left out.                        *)
(*                                                                         *)
(* generateId() seeds a fresh std::mt19937 from one 32-bit draw of         *)
(* std::random_device and derives all 32 hex digits from it: the id is a   *)
(* function of the seed, so there are at most 2^32 ids.  Seeds is that set *)
(* of seeds and IdOf the (injective) map from a seed to the id.            *)
(***************************************************************************)
EXTENDS Naturals, Sequences

CONSTANTS
    Seeds,     \* values of the 32-bit seed generateId() draws
    MaxTx,     \* bound on the transactions created
    NoSig      \* the empty m_signature

ASSUME TxAssumption == MaxTx \in Nat /\ Seeds # {}

VARIABLES txs

vars == <<txs>>

Statuses == {"PENDING", "CONFIRMED", "FAILED"}

\* The id generateId() derives from a seed: "TX-" and 32 hex digits.
IdOf(seed) == <<"TX", seed>>

\* sign(): m_signature = "SIGNATURE_" + m_id.
SignatureOf(id) == <<"SIGNATURE_", id>>

\* m_signature is empty only before sign(): no signature is the empty one.
ASSUME SignatureAssumption == NoSig \notin {SignatureOf(IdOf(s)) : s \in Seeds}

\* verifySignature(): non-empty and starting with "SIGNATURE_".
VerifySignature(tx) == tx.sig # NoSig /\ tx.sig[1] = "SIGNATURE_"

Init == txs = <<>>

\* Mutant: the id is the raw seed, without the "TX-" form.
CreateRawSeed ==
    /\ Len(txs) < MaxTx
    /\ \E seed \in Seeds :
          txs' = Append(txs, [id |-> seed, status |-> "PENDING", sig |-> NoSig])

(***************************************************************************)
(* The constructor: PENDING, no signature, id = generateId().              *)
(***************************************************************************)
Create ==
    /\ Len(txs) < MaxTx
    /\ \E seed \in Seeds :
          txs' = Append(txs, [id |-> IdOf(seed), status |-> "PENDING",
                              sig |-> NoSig])

(***************************************************************************)
(* setStatus(s): assigns m_status whatever it was.                         *)
(***************************************************************************)
SetStatus(i, s) ==
    txs' = [txs EXCEPT ![i].status = s]

(***************************************************************************)
(* sign(key): m_signature = "SIGNATURE_" + m_id, whatever the status;      *)
(* always returns true.                                                    *)
(***************************************************************************)
Sign(i) ==
    txs' = [txs EXCEPT ![i].sig = SignatureOf(txs[i].id)]

Next ==
    \/ Create
    \/ \E i \in 1 .. Len(txs), s \in Statuses : SetStatus(i, s)
    \/ \E i \in 1 .. Len(txs) : Sign(i)

Spec == Init /\ [][Next]_vars

-----------------------------------------------------------------------------
TypeOK ==
    /\ txs \in Seq([id : {IdOf(s) : s \in Seeds}, status : Statuses,
                    sig : {SignatureOf(IdOf(s)) : s \in Seeds} \cup {NoSig}])
    /\ Len(txs) <= MaxTx

(***************************************************************************)
(* Spec 3: every transaction id is unique within the history.  The id is   *)
(* a function of a 32-bit seed, so two transactions can get the same one.  *)
(***************************************************************************)
UniqueIds ==
    \A i, j \in 1 .. Len(txs) : i # j => txs[i].id # txs[j].id

=============================================================================
