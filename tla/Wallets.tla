------------------------------- MODULE Wallets --------------------------------
(***************************************************************************)
(* The wallet_manager and its soft wallets.  A wallet has its keys in      *)
(* memory while it is unlocked, an encrypted copy of them that lock() and  *)
(* the saving of the file renew, and the file.  A call first locks all     *)
(* wallets if none came for too long.  The file may not open for writing,  *)
(* or be removed by others; the program may be started again.              *)
(***************************************************************************)
EXTENDS Integers, TLAPS

CONSTANTS Names,         \* the names of wallets
          Keys,          \* the private keys
          MaxPasswords,  \* bound: the passwords that are generated
          Nothing        \* no wallet, no file

ASSUME NothingAssumption ==
    /\ Nothing \notin [keys : SUBSET Keys, password : Nat]
    /\ Nothing \notin [keys : SUBSET Keys, locked : BOOLEAN, cipher : [keys : SUBSET Keys, password : Nat]]

VARIABLES wallets,   \* of each name: Nothing, or [keys, locked, cipher]
          files,     \* of each name: Nothing, or [keys, password], what it decrypts to
          expired,   \* whether timeout_time has passed
          passwords, \* how many passwords were generated
          told,      \* history: the password that create() returned for each name
          kept       \* history: the keys that calls which returned put into each wallet

vars == <<wallets, files, expired, passwords, told, kept>>

Init ==
    /\ wallets = [n \in Names |-> Nothing] /\ files = [n \in Names |-> Nothing]
    /\ expired = FALSE /\ passwords = 0
    /\ told = [n \in Names |-> 0] /\ kept = [n \in Names |-> {}]

-----------------------------------------------------------------------------
(* A soft wallet.                                                          *)

\* Mistake: the copy is only renewed when the file is saved
encrypt_nothing(w) == w

\* The copy is renewed with the keys of an unlocked wallet.
encrypt_keys(w) == IF w.locked THEN w ELSE [w EXCEPT !.cipher = [keys |-> w.keys, password |-> @.password]]

lock_wallet(w) == [encrypt_keys(w) EXCEPT !.keys = {}, !.locked = TRUE]

all_locked(ws) == [n \in Names |-> IF ws[n] = Nothing \/ ws[n].locked THEN ws[n] ELSE lock_wallet(ws[n])]

\* What is saved to the file.
saved(w) == encrypt_keys(w).cipher

-----------------------------------------------------------------------------
(* The calls.  They begin with check_timeout(), whatever they throw later. *)

checked == IF expired THEN all_locked(wallets) ELSE wallets

\* The call ends with these wallets and files.
ends(ws, fs) == wallets' = ws /\ files' = fs /\ expired' = FALSE

\* The wallet n is changed to w in memory and saved; or the file does not open, and the
\* call throws.
saves(n, w, keys) ==
    \/ /\ ends([checked EXCEPT ![n] = encrypt_keys(w)], [files EXCEPT ![n] = saved(w)])
       /\ kept' = [kept EXCEPT ![n] = keys]
    \/ /\ ends([checked EXCEPT ![n] = encrypt_keys(w)], files)
       /\ kept' = [kept EXCEPT ![n] = @ \cap keys]

\* The new wallet replaces one whose file was removed; the call throws when there is a
\* file, or when it does not open for writing.
create(n) ==
    /\ passwords < MaxPasswords
    /\ passwords' = passwords + 1
    /\ LET cipher == [keys |-> {}, password |-> passwords']
           w == [keys |-> {}, locked |-> FALSE, cipher |-> cipher]
       IN  \/ /\ files[n] = Nothing
              /\ ends([checked EXCEPT ![n] = w], [files EXCEPT ![n] = saved(w)])
              /\ told' = [told EXCEPT ![n] = passwords'] /\ kept' = [kept EXCEPT ![n] = {}]
           \/ ends(checked, files) /\ UNCHANGED <<told, kept>>

from_file(n) == [keys |-> {}, locked |-> TRUE, cipher |-> files[n]]

open(n) ==
    /\ ends(IF files[n] = Nothing THEN checked ELSE [checked EXCEPT ![n] = from_file(n)], files)
    /\ UNCHANGED <<passwords, told, kept>>

lock(n) ==
    /\ checked[n] # Nothing
    /\ ends(IF checked[n].locked THEN checked ELSE [checked EXCEPT ![n] = lock_wallet(@)], files)
    /\ UNCHANGED <<passwords, told, kept>>

\* No call to check_timeout: the timeout goes on.
lock_all == wallets' = all_locked(wallets) /\ UNCHANGED <<files, expired, passwords, told, kept>>

unlocked(w) == [w EXCEPT !.keys = w.cipher.keys, !.locked = FALSE]

\* A wallet that is not open is opened first; a password that is wrong leaves it locked.
unlock(n, password) ==
    /\ checked[n] # Nothing \/ files[n] # Nothing
    /\ LET w == IF checked[n] = Nothing THEN from_file(n) ELSE checked[n]
       IN  ends([checked EXCEPT ![n] = IF w.locked /\ w.cipher.password = password THEN unlocked(w) ELSE w],
                files)
    /\ UNCHANGED <<passwords, told, kept>>

usable(n) == checked[n] # Nothing /\ ~checked[n].locked

\* A call for a wallet that is locked or not open throws.
refused(n) == ~usable(n) /\ ends(checked, files) /\ UNCHANGED <<passwords, told, kept>>

\* import_key(), and create_key() with a key it generates.
import_key(n, k) ==
    \/ refused(n)
    \/ /\ usable(n) /\ k \notin checked[n].keys
       /\ saves(n, [checked[n] EXCEPT !.keys = @ \cup {k}], kept[n] \cup {k})
       /\ UNCHANGED <<passwords, told>>

remove_key(n, password, k) ==
    \/ refused(n)
    \/ /\ usable(n) /\ checked[n].cipher.password = password /\ k \in checked[n].keys
       /\ saves(n, [checked[n] EXCEPT !.keys = @ \ {k}], kept[n] \ {k})
       /\ UNCHANGED <<passwords, told>>

\* list_keys(), get_public_keys(), sign_transaction(), sign_digest(): they change nothing
\* but what check_timeout() does.
use_keys == ends(checked, files) /\ UNCHANGED <<passwords, told, kept>>

-----------------------------------------------------------------------------
(* The surroundings.                                                       *)

\* It is not preceded by check_timeout().
set_timeout == expired' = FALSE /\ UNCHANGED <<wallets, files, passwords, told, kept>>

\* No call for as long as the timeout.
time_passes == ~expired /\ expired' = TRUE /\ UNCHANGED <<wallets, files, passwords, told, kept>>

\* The program ends between two calls, and is started again.
restart ==
    /\ wallets' = [n \in Names |-> Nothing] /\ expired' = FALSE
    /\ UNCHANGED <<files, passwords, told, kept>>

\* "This can happen if the wallet file is removed while eos-walletd is running."
file_removed(n) ==
    /\ files[n] # Nothing
    /\ files' = [files EXCEPT ![n] = Nothing]
    /\ kept' = [kept EXCEPT ![n] = {}]
    /\ UNCHANGED <<wallets, expired, passwords, told>>

Next ==
    \/ \E n \in Names :
          \/ create(n) \/ open(n) \/ lock(n) \/ file_removed(n)
          \/ \E password \in 1 .. MaxPasswords :
                unlock(n, password) \/ \E k \in Keys : remove_key(n, password, k)
          \/ \E k \in Keys : import_key(n, k)
    \/ lock_all \/ use_keys \/ set_timeout \/ time_passes \/ restart

Spec == Init /\ [][Next]_vars

-----------------------------------------------------------------------------
(* Properties.                                                             *)

\* The keys that import_key() and create_key() reported are in the file, and the password
\* that create() returned decrypts it, so that a program that is started again has them;
\* and an open wallet has them too, whatever locking, time-outs, reopening and calls that
\* threw came between.  A wallet that is locked has no key in memory.
KeysAreKept ==
    \A n \in Names :
        /\ files[n] # Nothing => kept[n] \subseteq files[n].keys /\ files[n].password = told[n]
        /\ wallets[n] # Nothing /\ files[n] # Nothing =>
               kept[n] \subseteq (IF wallets[n].locked THEN wallets[n].cipher.keys ELSE wallets[n].keys)
        /\ wallets[n] # Nothing /\ wallets[n].locked => wallets[n].keys = {}

-----------------------------------------------------------------------------
(* KeysAreKept for any names, keys and number of calls.  The property does *)
(* not carry itself: what is in memory is saved later, so the password it  *)
(* will be saved under matters too, and nothing may be promised of a       *)
(* wallet whose file is gone.                                              *)

File == [keys : SUBSET Keys, password : Nat]
Wallet == [keys : SUBSET Keys, locked : BOOLEAN, cipher : File]

\* A wallet and a file, for the password t and the keys k.
Fine(w, f, t, k) ==
    /\ f = Nothing => k = {}
    /\ f # Nothing => k \subseteq f.keys /\ f.password = t
    /\ w # Nothing => /\ w.cipher.password = t
                      /\ w.locked => w.keys = {} /\ k \subseteq w.cipher.keys
                      /\ ~w.locked => k \subseteq w.keys

\* The inductive invariant
IInv ==
    /\ wallets \in [Names -> Wallet \cup {Nothing}]
    /\ files \in [Names -> File \cup {Nothing}]
    /\ passwords \in Nat
    /\ told \in [Names -> Nat]
    /\ kept \in [Names -> SUBSET Keys]
    /\ \A n \in Names : Fine(wallets[n], files[n], told[n], kept[n])

\* lock() keeps the keys of a wallet in its encrypted copy, and its password.
LEMMA LockKeeps ==
    ASSUME NEW w \in Wallet, ~w.locked
    PROVE  /\ lock_wallet(w) \in Wallet /\ lock_wallet(w).locked /\ lock_wallet(w).keys = {}
           /\ lock_wallet(w).cipher = [keys |-> w.keys, password |-> w.cipher.password]
BY DEF lock_wallet, encrypt_keys, Wallet, File

\* check_timeout() and lock_all() keep what a wallet has to keep.
LEMMA AllLockedFine ==
    ASSUME IInv
    PROVE  /\ all_locked(wallets) \in [Names -> Wallet \cup {Nothing}]
           /\ \A n \in Names : Fine(all_locked(wallets)[n], files[n], told[n], kept[n])
<1> SUFFICES ASSUME NEW n \in Names
             PROVE  /\ all_locked(wallets)[n] \in Wallet \cup {Nothing}
                    /\ Fine(all_locked(wallets)[n], files[n], told[n], kept[n])
  BY DEF all_locked
<1> DEFINE w == wallets[n]
<1>1. w \in Wallet \cup {Nothing} /\ Fine(w, files[n], told[n], kept[n])
  BY DEF IInv
<1>2. all_locked(wallets)[n] = IF w = Nothing \/ w.locked THEN w ELSE lock_wallet(w)
  BY DEF all_locked
<1> HIDE DEF w
<1>3. CASE w = Nothing \/ w.locked
  BY <1>1, <1>2, <1>3
<1>4. CASE w # Nothing /\ ~w.locked
  <2>1. w \in Wallet
    BY <1>1, <1>4
  <2> DEFINE v == lock_wallet(w)
  <2>2. /\ v \in Wallet /\ v.locked /\ v.keys = {}
        /\ v.cipher = [keys |-> w.keys, password |-> w.cipher.password]
    BY <1>4, <2>1, LockKeeps
  <2>3. all_locked(wallets)[n] = v
    BY <1>2, <1>4
  <2> HIDE DEF v
  <2>4. v.cipher.keys = w.keys /\ v.cipher.password = w.cipher.password
    BY <2>2
  <2>5. Fine(v, files[n], told[n], kept[n])
    BY <1>1, <1>4, <2>2, <2>4 DEF Fine
  <2> QED BY <2>2, <2>3, <2>5
<1> QED BY <1>3, <1>4

LEMMA CheckedFine ==
    ASSUME IInv
    PROVE  /\ checked \in [Names -> Wallet \cup {Nothing}]
           /\ \A n \in Names : Fine(checked[n], files[n], told[n], kept[n])
BY AllLockedFine DEF checked, IInv

\* A call that changes the wallet n only, and perhaps its file.
LEMMA OneWallet ==
    ASSUME IInv, NEW n \in Names, NEW w \in Wallet, NEW f \in File \cup {Nothing},
           NEW t \in Nat, NEW k \in SUBSET Keys, Fine(w, f, t, k),
           wallets' = [checked EXCEPT ![n] = w], files' = [files EXCEPT ![n] = f],
           told' = [told EXCEPT ![n] = t], kept' = [kept EXCEPT ![n] = k], passwords' \in Nat
    PROVE  IInv'
<1>1. \A m \in Names : Fine(wallets'[m], files'[m], told'[m], kept'[m])
  BY CheckedFine DEF IInv
<1> QED BY <1>1, CheckedFine DEF IInv

\* A call that changes no wallet, but may have locked them all.
LEMMA NoWallet ==
    ASSUME IInv, wallets' \in {wallets, checked, all_locked(wallets)}, passwords' \in Nat,
           UNCHANGED <<files, told, kept>>
    PROVE  IInv'
BY CheckedFine, AllLockedFine DEF IInv

\* What saving leaves, with the file written or not.
LEMMA SavesFine ==
    ASSUME IInv, NEW n \in Names, NEW w \in Wallet, NEW keys \in SUBSET Keys, NEW old \in SUBSET Keys,
           ~w.locked, w.cipher.password = told[n], keys \subseteq w.keys, old \subseteq kept[n],
           old \subseteq w.keys, saves(n, w, keys), kept[n] \cap keys = old,
           UNCHANGED <<passwords, told>>
    PROVE  IInv'
<1> DEFINE c == [keys |-> w.keys, password |-> w.cipher.password]
           v == [w EXCEPT !.cipher = c]
<1>1. encrypt_keys(w) = v /\ saved(w) = c
  BY DEF encrypt_keys, saved, Wallet, File
<1>2. v \in Wallet /\ c \in File /\ ~v.locked /\ v.keys = w.keys /\ v.cipher = c
  BY DEF Wallet, File
<1>3. c.keys = w.keys /\ c.password = told[n] /\ c # Nothing
  BY <1>2, NothingAssumption DEF File
<1> HIDE DEF v, c
<1>4. CASE /\ ends([checked EXCEPT ![n] = v], [files EXCEPT ![n] = c])
           /\ kept' = [kept EXCEPT ![n] = keys]
  <2>1. Fine(v, c, told[n], keys)
    BY <1>2, <1>3 DEF Fine
  <2>2. told' = [told EXCEPT ![n] = told[n]] /\ told[n] \in Nat /\ passwords' \in Nat
    BY DEF IInv
  <2> QED BY <1>2, <1>4, <2>1, <2>2, OneWallet DEF ends
<1>5. CASE /\ ends([checked EXCEPT ![n] = v], files)
           /\ kept' = [kept EXCEPT ![n] = @ \cap keys]
  <2>1. Fine(v, files[n], told[n], old)
    BY <1>2, <1>3 DEF Fine, IInv
  <2>2. /\ told' = [told EXCEPT ![n] = told[n]] /\ told[n] \in Nat /\ passwords' \in Nat
        /\ files' = [files EXCEPT ![n] = files[n]] /\ files[n] \in File \cup {Nothing}
        /\ kept' = [kept EXCEPT ![n] = old]
        /\ wallets' = [checked EXCEPT ![n] = v]
    BY <1>5 DEF IInv, ends
  <2> QED BY <1>2, <2>1, <2>2, OneWallet
<1> QED BY <1>1, <1>4, <1>5 DEF saves

\* No step of the manager, of its callers or of its surroundings leaves the invariant.
LEMMA Inductive == IInv /\ [Next]_vars => IInv'
<1> SUFFICES ASSUME IInv, [Next]_vars PROVE IInv'
  OBVIOUS
<1>0. /\ passwords \in Nat
      /\ \A n \in Names : /\ checked[n] \in Wallet \cup {Nothing} /\ files[n] \in File \cup {Nothing}
                          /\ told[n] \in Nat /\ kept[n] \in SUBSET Keys
                          /\ Fine(checked[n], files[n], told[n], kept[n])
  BY CheckedFine DEF IInv
<1>1. ASSUME NEW n \in Names, create(n) PROVE IInv'
  <2>1. passwords' \in Nat
    BY <1>0, <1>1 DEF create
  <2>2. CASE ends(checked, files) /\ UNCHANGED <<told, kept>>
    BY <2>1, <2>2, NoWallet DEF ends
  <2> DEFINE c == [keys |-> {}, password |-> passwords']
             w == [keys |-> {}, locked |-> FALSE, cipher |-> c]
  <2>3. CASE /\ ends([checked EXCEPT ![n] = w], [files EXCEPT ![n] = saved(w)])
             /\ told' = [told EXCEPT ![n] = passwords'] /\ kept' = [kept EXCEPT ![n] = {}]
    <3>1. saved(w) = c
      BY DEF saved, encrypt_keys
    <3>2. w \in Wallet /\ c \in File /\ w.cipher = c /\ ~w.locked /\ c.password = passwords'
      BY <2>1 DEF Wallet, File
    <3>3. wallets' = [checked EXCEPT ![n] = w] /\ files' = [files EXCEPT ![n] = c]
      BY <2>3, <3>1 DEF ends
    <3> HIDE DEF w, c
    <3>4. Fine(w, c, passwords', {})
      BY <3>2, NothingAssumption DEF Fine, File
    <3> QED BY <2>1, <2>3, <3>2, <3>3, <3>4, OneWallet
  <2> QED BY <1>1, <2>2, <2>3 DEF create
<1>2. ASSUME NEW n \in Names, NEW w \in Wallet, Fine(w, files[n], told[n], kept[n]),
             ends([checked EXCEPT ![n] = w], files), UNCHANGED <<passwords, told, kept>>
      PROVE  IInv'
  <2>1. /\ told' = [told EXCEPT ![n] = told[n]] /\ passwords' \in Nat
        /\ files' = [files EXCEPT ![n] = files[n]] /\ kept' = [kept EXCEPT ![n] = kept[n]]
        /\ wallets' = [checked EXCEPT ![n] = w]
    BY <1>2 DEF IInv, ends
  <2> QED BY <1>0, <1>2, <2>1, OneWallet
<1>3. ASSUME NEW n \in Names, files[n] # Nothing
      PROVE  from_file(n) \in Wallet /\ Fine(from_file(n), files[n], told[n], kept[n])
  BY <1>0, <1>3 DEF from_file, Wallet, File, Fine
<1>4. ASSUME NEW n \in Names, open(n) PROVE IInv'
  <2>1. CASE files[n] = Nothing
    BY <1>0, <1>4, <2>1, NoWallet DEF open, ends
  <2>2. CASE files[n] # Nothing
    BY <1>2, <1>3, <1>4, <2>2 DEF open
  <2> QED BY <2>1, <2>2
<1>5. ASSUME NEW n \in Names, lock(n) PROVE IInv'
  <2>1. CASE checked[n].locked
    BY <1>0, <1>5, <2>1, NoWallet DEF lock, ends
  <2>2. CASE ~checked[n].locked
    <3> DEFINE w == checked[n]
               v == lock_wallet(w)
    <3>1. w \in Wallet /\ w # Nothing /\ ~w.locked /\ Fine(w, files[n], told[n], kept[n])
      BY <1>0, <1>5, <2>2 DEF lock
    <3>2. ends([checked EXCEPT ![n] = v], files) /\ UNCHANGED <<passwords, told, kept>>
      BY <1>5, <2>2 DEF lock
    <3> HIDE DEF w
    <3>3. /\ v \in Wallet /\ v.locked /\ v.keys = {}
          /\ v.cipher = [keys |-> w.keys, password |-> w.cipher.password]
      BY <3>1, LockKeeps
    <3> HIDE DEF v
    <3>4. Fine(v, files[n], told[n], kept[n])
      BY <3>1, <3>3 DEF Fine
    <3> QED BY <1>2, <3>2, <3>3, <3>4
  <2> QED BY <2>1, <2>2
<1>6. CASE lock_all
  BY <1>6, <1>0, NoWallet DEF lock_all
<1>7. ASSUME NEW n \in Names, NEW password, unlock(n, password) PROVE IInv'
  <2> DEFINE w == IF checked[n] = Nothing THEN from_file(n) ELSE checked[n]
             v == IF w.locked /\ w.cipher.password = password THEN unlocked(w) ELSE w
  <2>1. ends([checked EXCEPT ![n] = v], files) /\ UNCHANGED <<passwords, told, kept>>
    BY <1>7 DEF unlock
  <2>2. w \in Wallet /\ w # Nothing /\ Fine(w, files[n], told[n], kept[n])
    BY <1>0, <1>3, <1>7, NothingAssumption DEF unlock, Wallet, File
  <2> HIDE DEF w
  <2>3. ASSUME w.locked PROVE unlocked(w) \in Wallet /\ Fine(unlocked(w), files[n], told[n], kept[n])
    <3>1. /\ unlocked(w) \in Wallet /\ ~unlocked(w).locked /\ unlocked(w).keys = w.cipher.keys
          /\ unlocked(w).cipher = w.cipher
      BY <2>2 DEF unlocked, Wallet, File
    <3> QED BY <2>2, <2>3, <3>1 DEF Fine
  <2>4. v \in Wallet /\ Fine(v, files[n], told[n], kept[n])
    BY <2>2, <2>3
  <2> QED BY <1>2, <2>1, <2>4
<1>8. ASSUME NEW n \in Names, refused(n) PROVE IInv'
  BY <1>0, <1>8, NoWallet DEF refused, ends
<1>9. ASSUME NEW n \in Names, NEW k \in Keys, import_key(n, k) PROVE IInv'
  <2>1. CASE refused(n)
    BY <1>8, <2>1
  <2>2. CASE ~refused(n)
    <3> DEFINE w == [checked[n] EXCEPT !.keys = @ \cup {k}]
    <3>1. checked[n] \in Wallet /\ ~checked[n].locked /\ Fine(checked[n], files[n], told[n], kept[n])
      BY <1>0, <1>9, <2>2 DEF import_key, usable
    <3>2. checked[n] # Nothing
      BY <1>9, <2>2 DEF import_key, usable
    <3>3. /\ w \in Wallet /\ ~w.locked /\ w.keys = checked[n].keys \cup {k}
          /\ w.cipher.password = told[n] /\ kept[n] \subseteq checked[n].keys
      BY <3>1, <3>2 DEF Wallet, File, Fine
    <3>4. saves(n, w, kept[n] \cup {k}) /\ UNCHANGED <<passwords, told>>
      BY <1>9, <2>2 DEF import_key
    <3>5. kept[n] \cap (kept[n] \cup {k}) = kept[n]
      OBVIOUS
    <3> HIDE DEF w
    <3> QED BY <1>0, <3>3, <3>4, <3>5, SavesFine
  <2> QED BY <2>1, <2>2
<1>10. ASSUME NEW n \in Names, NEW password, NEW k \in Keys, remove_key(n, password, k) PROVE IInv'
  <2>1. CASE refused(n)
    BY <1>8, <2>1
  <2>2. CASE ~refused(n)
    <3> DEFINE w == [checked[n] EXCEPT !.keys = @ \ {k}]
    <3>1. /\ checked[n] \in Wallet /\ ~checked[n].locked /\ checked[n] # Nothing
          /\ Fine(checked[n], files[n], told[n], kept[n])
      BY <1>0, <1>10, <2>2 DEF remove_key, usable
    <3>2. /\ w \in Wallet /\ ~w.locked /\ w.keys = checked[n].keys \ {k}
          /\ w.cipher.password = told[n] /\ kept[n] \subseteq checked[n].keys
      BY <3>1 DEF Wallet, File, Fine
    <3>3. saves(n, w, kept[n] \ {k}) /\ UNCHANGED <<passwords, told>>
      BY <1>10, <2>2 DEF remove_key
    <3>4. kept[n] \cap (kept[n] \ {k}) = kept[n] \ {k}
      OBVIOUS
    <3> HIDE DEF w
    <3> QED BY <1>0, <3>2, <3>3, <3>4, SavesFine
  <2> QED BY <2>1, <2>2
<1>11. CASE use_keys \/ set_timeout \/ time_passes \/ UNCHANGED vars
  BY <1>0, <1>11, NoWallet DEF use_keys, set_timeout, time_passes, ends, vars
<1>12. CASE restart
  BY <1>12 DEF restart, IInv, Fine
<1>13. ASSUME NEW n \in Names, file_removed(n) PROVE IInv'
  BY <1>13 DEF file_removed, IInv, Fine
<1> QED BY <1>1, <1>4, <1>5, <1>6, <1>7, <1>9, <1>10, <1>11, <1>12, <1>13 DEF Next

\* Whatever is locked, reopened, timed out, removed or not written, the keys that calls
\* reported stay in the file, under the password that create() returned, and in the open
\* wallet.
THEOREM KeysStay == Spec => []KeysAreKept
<1>1. Init => IInv
  BY DEF Init, IInv, Fine
<1>2. IInv => KeysAreKept
  BY DEF IInv, Fine, KeysAreKept
<1> QED BY <1>1, <1>2, Inductive, PTL DEF Spec
=============================================================================
