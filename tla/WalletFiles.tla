---------------------------- MODULE WalletFiles -----------------------------
(***************************************************************************)
(* The files of the wallets (ddmchain/manager.go).  CreateWallet writes    *)
(* the key file of a new wallet first and then the wallet's record into a  *)
(* database of its own; nothing is undone when the second step fails.      *)
(* Names are checked against the key files, by every creation for itself.  *)
(* Addresses are created for one of the wallets (AddressBatch), which is   *)
(* found by its key file and restored from its database.                   *)
(***************************************************************************)
EXTENDS AddressBatch

CONSTANTS
  Wallets,      \* the wallets that creations make: each has an id of its own
  Main,         \* the one for which addresses are created
  Alias         \* the name each creation asks for

ASSUME WalletAssumption == Main \in Wallets /\ DOMAIN Alias = Wallets

VARIABLES
  stage,        \* how far the creation of each wallet got
  raced         \* history: two creations of one name have overlapped

fileVars == <<stage, raced>>

\* The key files on disk; the wallets whose record is in their database.
KeyFiles == {w \in Wallets : stage[w] \in {"stored", "created", "orphan"}}
Restorable == {w \in Wallets : stage[w] = "created"}

SameName(v, w) == v # w /\ Alias[v] = Alias[w]

FilesInit ==
  /\ Init
  /\ stage = [w \in Wallets |-> "none"] /\ raced = FALSE

Advance(w, from, to) == stage[w] = from /\ stage' = [stage EXCEPT ![w] = to]

-----------------------------------------------------------------------------
(* CreateWallet.                                                           *)

\* Mutant: only wallets with a record are looked at.
CheckAliasOfRecords(w) ==
  /\ Advance(w, "none", "checked")
  /\ ~ \E v \in Restorable : SameName(v, w)
  /\ raced' = (raced \/ \E v \in Wallets : SameName(v, w) /\ stage[v] = "checked")
  /\ UNCHANGED vars

\* GetWalletKeys: no key file has the name.
CheckAlias(w) ==
  /\ Advance(w, "none", "checked")
  /\ ~ \E v \in KeyFiles : SameName(v, w)
  /\ raced' = (raced \/ \E v \in Wallets : SameName(v, w) /\ stage[v] = "checked")
  /\ UNCHANGED vars

StoreHDKey(w) == Advance(w, "checked", "stored") /\ UNCHANGED <<vars, raced>>

SaveWallet(w) == Advance(w, "stored", "created") /\ UNCHANGED <<vars, raced>>

\* A step fails or the process dies: a key file that is written stays.
AbandonWallet(w) ==
  /\ Happens("create")
  /\ Advance(w, "checked", "none") \/ Advance(w, "stored", "orphan")
  /\ UNCHANGED <<pool, wallet, pc, base, holder, saved, errcount, overlapped, raced>>

CreateWallet(w) == CheckAlias(w) \/ StoreHDKey(w) \/ SaveWallet(w) \/ AbandonWallet(w)

-----------------------------------------------------------------------------
\* GetWalletInfo finds the key file and restores the wallet.
RestoreMain(c) == Main \in Restorable /\ RestoreFromDb(c) /\ UNCHANGED fileVars

BatchSteps ==
  /\ \/ \E c \in Callers : Refuse(c) \/ Begin(c)
     \/ CreateBatchAddress2 \/ Crash
  /\ UNCHANGED fileVars

FilesNext ==
  \/ \E w \in Wallets : CreateWallet(w)
  \/ \E c \in Callers : RestoreMain(c)
  \/ BatchSteps

FilesSpec ==
  /\ FilesInit /\ [][FilesNext]_<<vars, fileVars>>
  /\ WF_<<vars, fileVars>>(CreateBatchAddress2 /\ UNCHANGED fileVars)

-----------------------------------------------------------------------------
FilesTypeOK ==
  /\ TypeOK
  /\ stage \in [Wallets -> {"none", "checked", "stored", "created", "orphan"}]
  /\ raced \in BOOLEAN

\* No two key files have one name, also when the first creation of it was cut
\* short, unless two creations of the name overlapped; and no address exists of a
\* wallet whose key file or record is missing, whatever crashed or failed ("The
\* wallet's alias is duplicated!", the order of CreateWallet).
KeysComeFirst ==
  /\ ~raced => \A v, w \in KeyFiles : ~SameName(v, w)
  /\ addresses # {} => Main \in KeyFiles \intersect Restorable
=============================================================================
