-------------------------- MODULE PermissionsProofs ---------------------------
(***************************************************************************)
(* For every set of names, of types of action, and number of actions in a  *)
(* transaction: what a permission or a link refers to exists, and who has  *)
(* power over what changes by a permission that had it.                    *)
(***************************************************************************)
EXTENDS Permissions, TLAPS

\* What a transaction keeps of the state that it was checked against.
Checked ==
    trx # Nothing =>
        /\ Rooted(trx.permission) /\ Closed(trx.permission, trx.link)
        /\ trx.declared \subseteq DOMAIN trx.permission
        /\ DOMAIN trx.permission # {} => DOMAIN permission # {}

\* x is in both tables, with the same value, or in none.
Same(f, g, x) == (x \in DOMAIN f <=> x \in DOMAIN g) /\ (x \in DOMAIN f => f[x] = g[x])

\* What no declared permission had power over has the entry that it had, and what is new
\* hangs below what one had power over.
Untouched ==
    trx # Nothing /\ DOMAIN trx.permission # {} =>
        /\ \A n \in DOMAIN trx.permission :
               trx.declared \cap AtOrAbove(trx.permission, n) = {} => Same(trx.permission, permission, n)
        /\ \A t \in Keys :
               trx.declared \cap Able(trx.permission, trx.link, t) = {} => Same(trx.link, link, t)
        /\ \A n \in DOMAIN permission \ DOMAIN trx.permission :
               trx.declared \cap AtOrAbove(trx.permission, permission[n]) # {}

\* The inductive invariant.
IInv == TypeOK /\ ReferencesResolve /\ Checked /\ Untouched

-----------------------------------------------------------------------------
(* The tables.                                                             *)

\* A table with an entry more, or another value for one.
LEMMA PutFacts ==
    ASSUME NEW f, NEW x, NEW y
    PROVE  /\ DOMAIN put(f, x, y) = DOMAIN f \cup {x}
           /\ put(f, x, y)[x] = y
           /\ \A z \in DOMAIN f : z # x => put(f, x, y)[z] = f[z]
BY DEF put

\* A table with an entry less.
LEMMA DropFacts ==
    ASSUME NEW f, NEW x
    PROVE  /\ DOMAIN drop(f, x) = DOMAIN f \ {x}
           /\ \A z \in DOMAIN f : z # x => drop(f, x)[z] = f[z]
BY DEF drop

\* Both keep the type of the table of permissions.
LEMMA PermissionTableKept ==
    ASSUME NEW f \in PermissionTable, NEW x \in Names
    PROVE  /\ \A y \in Names \cup {Nothing} : put(f, x, y) \in PermissionTable
           /\ drop(f, x) \in PermissionTable
<1>1. PICK S \in SUBSET Names : f \in [S -> Names \cup {Nothing}]
    BY DEF PermissionTable
<1>2. ASSUME NEW y \in Names \cup {Nothing}
      PROVE  put(f, x, y) \in [S \cup {x} -> Names \cup {Nothing}]
    BY <1>1 DEF put
<1>3. drop(f, x) \in [S \ {x} -> Names \cup {Nothing}]
    BY <1>1 DEF drop
<1> QED
    BY <1>2, <1>3 DEF PermissionTable

\* And that of the table of links.
LEMMA LinkTableKept ==
    ASSUME NEW f \in LinkTable, NEW x \in Keys
    PROVE  /\ \A y \in Names \cup {Any} : put(f, x, y) \in LinkTable
           /\ drop(f, x) \in LinkTable
<1>1. PICK S \in SUBSET Keys : f \in [S -> Names \cup {Any}]
    BY DEF LinkTable
<1>2. ASSUME NEW y \in Names \cup {Any}
      PROVE  put(f, x, y) \in [S \cup {x} -> Names \cup {Any}]
    BY <1>1 DEF put
<1>3. drop(f, x) \in [S \ {x} -> Names \cup {Any}]
    BY <1>1 DEF drop
<1> QED
    BY <1>2, <1>3 DEF LinkTable

\* The domains of the tables.
LEMMA TableDomains ==
    /\ \A f \in PermissionTable : DOMAIN f \subseteq Names
    /\ \A f \in LinkTable : DOMAIN f \subseteq Keys
BY DEF PermissionTable, LinkTable

\* What a transaction records of an action.
LEMMA ActionFields ==
    ASSUME TypeOK, acts,
           NEW auths \in SUBSET Names, action(auths)
    PROVE  /\ trx'.permission = trx.permission /\ trx'.link = trx.link
           /\ trx'.declared = trx.declared \cup auths
           /\ trx' \in [permission : PermissionTable, link : LinkTable, declared : SUBSET Names,
                        actions : 0 .. MaxActions]
<1> DEFINE Trx == [permission : PermissionTable, link : LinkTable, declared : SUBSET Names,
                   actions : 0 .. MaxActions]
<1>1. trx \in Trx
    BY DEF TypeOK, acts
<1>2. trx.actions + 1 \in 0 .. MaxActions
    BY <1>1, NamesAssumption DEF acts
<1> QED
    BY <1>1, <1>2 DEF action

-----------------------------------------------------------------------------
(* Type correctness.                                                       *)

\* Every step keeps the types.
LEMMA TypeStep == TypeOK /\ [Next]_vars => TypeOK'
<1> SUFFICES ASSUME TypeOK, [Next]_vars PROVE TypeOK'
    OBVIOUS
<1> USE DEF TypeOK
<1>1. CASE push_transaction
    <2>1. trx' \in [permission : PermissionTable, link : LinkTable, declared : SUBSET Names,
                    actions : 0 .. MaxActions]
        BY <1>1, NamesAssumption DEF push_transaction
    <2> QED
        BY <1>1, <2>1 DEF push_transaction
<1>2. CASE apply_eosio_newaccount
    <2>1. /\ put(permission, "owner", Nothing) \in PermissionTable
          /\ put(put(permission, "owner", Nothing), "active", "owner") \in PermissionTable
        BY PermissionTableKept DEF Names
    <2> QED
        BY <1>2, <2>1, ActionFields DEF apply_eosio_newaccount
<1>3. ASSUME NEW auth \in Names, NEW name \in Names, NEW parent \in Names \cup {Nothing},
             apply_eosio_updateauth(auth, name, parent)
      PROVE  TypeOK'
    <2>1. acts /\ action({auth}) /\ {auth} \in SUBSET Names
        BY <1>3 DEF apply_eosio_updateauth, declares
    <2>2. permission' \in PermissionTable /\ link' = link
        BY <1>3, PermissionTableKept DEF apply_eosio_updateauth
    <2> QED
        BY <2>1, <2>2, ActionFields
<1>4. ASSUME NEW auth \in Names, NEW name \in Names, apply_eosio_deleteauth(auth, name)
      PROVE  TypeOK'
    <2>1. acts /\ action({auth}) /\ {auth} \in SUBSET Names
        BY <1>4 DEF apply_eosio_deleteauth, declares
    <2>2. permission' \in PermissionTable /\ link' = link
        BY <1>4, PermissionTableKept DEF apply_eosio_deleteauth
    <2> QED
        BY <2>1, <2>2, ActionFields
<1>5. ASSUME NEW auth \in Names, NEW type \in Keys, NEW requirement \in Names \cup {Any},
             apply_eosio_linkauth(auth, type, requirement)
      PROVE  TypeOK'
    BY <1>5, LinkTableKept, ActionFields, Zenon DEF apply_eosio_linkauth, declares
<1>6. ASSUME NEW auth \in Names, NEW type \in Keys, apply_eosio_unlinkauth(auth, type)
      PROVE  TypeOK'
    BY <1>6, LinkTableKept, ActionFields, Zenon DEF apply_eosio_unlinkauth, declares
<1>7. ASSUME NEW auth \in Names, NEW type \in Types, apply(auth, type)
      PROVE  TypeOK'
    <2>1. acts /\ action({auth}) /\ {auth} \in SUBSET Names
        BY <1>7 DEF apply, declares
    <2> QED
        BY <1>7, <2>1, ActionFields DEF apply
<1>8. CASE finalize
    BY <1>8 DEF finalize
<1>9. CASE undo
    BY <1>9 DEF undo
<1>10. CASE UNCHANGED vars
    BY <1>10 DEF vars
<1> QED
    BY <1>1, <1>2, <1>3, <1>4, <1>5, <1>6, <1>7, <1>8, <1>9, <1>10 DEF Next

-----------------------------------------------------------------------------
(* References.                                                             *)

\* Every step keeps the references of both tables.
LEMMA ResolveStep == TypeOK /\ ReferencesResolve /\ Checked /\ [Next]_vars => ReferencesResolve'
<1> SUFFICES ASSUME TypeOK, ReferencesResolve, Checked, [Next]_vars PROVE ReferencesResolve'
    OBVIOUS
<1> USE DEF ReferencesResolve, Rooted, Closed
<1>1. CASE push_transaction
    BY <1>1 DEF push_transaction
<1>2. CASE apply_eosio_newaccount
    <2> DEFINE one == put(permission, "owner", Nothing)
    <2>1. DOMAIN one = {"owner"} /\ one["owner"] = Nothing
        <3>1. DOMAIN permission = {}
            BY <1>2 DEF apply_eosio_newaccount
        <3>2. DOMAIN one = DOMAIN permission \cup {"owner"} /\ one["owner"] = Nothing
            BY DEF put
        <3> QED
            BY <3>1, <3>2
    <2>2. /\ DOMAIN permission' = {"owner", "active"}
          /\ permission'["owner"] = Nothing /\ permission'["active"] = "owner"
        <3> HIDE DEF one
        <3>1. permission' = put(one, "active", "owner")
            BY <1>2 DEF apply_eosio_newaccount, one
        <3>2. /\ DOMAIN put(one, "active", "owner") = DOMAIN one \cup {"active"}
              /\ put(one, "active", "owner")["active"] = "owner"
              /\ \A z \in DOMAIN one : z # "active" => put(one, "active", "owner")[z] = one[z]
            BY DEF put
        <3> QED
            BY <2>1, <3>1, <3>2
    <2>3. \A t \in DOMAIN link' : link'[t] = Any
        BY <1>2 DEF apply_eosio_newaccount
    <2>4. Nothing # "owner"
        BY NamesAssumption DEF Names
    <2> QED
        BY <2>2, <2>3, <2>4
<1>3. ASSUME NEW auth \in Names, NEW name \in Names, NEW parent \in Names \cup {Nothing},
             apply_eosio_updateauth(auth, name, parent)
      PROVE  ReferencesResolve'
    <2>1. /\ permission' = put(permission, name, parent) /\ link' = link
          /\ (name = "owner") <=> (parent = Nothing)
          /\ name = "active" => parent = "owner"
          /\ parent # Nothing => parent \in DOMAIN permission
          /\ name \in DOMAIN permission => parent = permission[name]
        BY <1>3 DEF apply_eosio_updateauth, exists
    <2>2. /\ DOMAIN permission' = DOMAIN permission \cup {name} /\ permission'[name] = parent
          /\ \A n \in DOMAIN permission : n # name => permission'[n] = permission[n]
        BY <2>1, PutFacts
    <2>3. DOMAIN permission # {}
        BY <1>3 DEF apply_eosio_updateauth, declares, acts, exists, Checked
    <2> QED
        BY <2>1, <2>2, <2>3
<1>4. ASSUME NEW auth \in Names, NEW name \in Names, apply_eosio_deleteauth(auth, name)
      PROVE  ReferencesResolve'
    <2>1. /\ permission' = drop(permission, name) /\ link' = link
          /\ name \notin {"owner", "active"}
          /\ \A t \in DOMAIN link : link[t] # name
          /\ \A n \in DOMAIN permission : permission[n] # name
        BY <1>4 DEF apply_eosio_deleteauth, has_links, has_children
    <2>2. /\ DOMAIN permission' = DOMAIN permission \ {name}
          /\ \A n \in DOMAIN permission : n # name => permission'[n] = permission[n]
        BY <2>1, DropFacts
    <2> QED
        BY <2>1, <2>2
<1>5. ASSUME NEW auth \in Names, NEW type \in Keys, NEW requirement \in Names \cup {Any},
             apply_eosio_linkauth(auth, type, requirement)
      PROVE  ReferencesResolve'
    <2>1. /\ permission' = permission /\ link' = put(link, type, requirement)
          /\ requirement # Any => requirement \in DOMAIN permission
        BY <1>5 DEF apply_eosio_linkauth, exists
    <2>2. /\ DOMAIN link' = DOMAIN link \cup {type} /\ link'[type] = requirement
          /\ \A t \in DOMAIN link : t # type => link'[t] = link[t]
        BY <2>1 DEF put
    <2> QED
        BY <2>1, <2>2
<1>6. ASSUME NEW auth \in Names, NEW type \in Keys, apply_eosio_unlinkauth(auth, type)
      PROVE  ReferencesResolve'
    <2>1. permission' = permission /\ link' = drop(link, type)
        BY <1>6 DEF apply_eosio_unlinkauth
    <2>2. /\ DOMAIN link' = DOMAIN link \ {type}
          /\ \A t \in DOMAIN link : t # type => link'[t] = link[t]
        BY <2>1, DropFacts, Zenon
    <2> QED
        BY <2>1, <2>2
<1>7. ASSUME NEW auth \in Names, NEW type \in Types, apply(auth, type)
      PROVE  ReferencesResolve'
    BY <1>7 DEF apply
<1>8. CASE finalize
    BY <1>8 DEF finalize
<1>9. CASE undo
    BY <1>9 DEF undo, Checked
<1>10. CASE UNCHANGED vars
    BY <1>10 DEF vars
<1> QED
    BY <1>1, <1>2, <1>3, <1>4, <1>5, <1>6, <1>7, <1>8, <1>9, <1>10 DEF Next

-----------------------------------------------------------------------------
(* What a transaction was checked against.                                 *)

\* An action leaves the tables of the check alone, and declares what they contain.
LEMMA ActionChecked ==
    ASSUME TypeOK, Checked, acts, DOMAIN permission # {} => DOMAIN permission' # {},
           NEW auths \in SUBSET Names, action(auths), auths \subseteq DOMAIN trx.permission
    PROVE  Checked'
<1>1. /\ trx'.permission = trx.permission /\ trx'.link = trx.link
      /\ trx'.declared = trx.declared \cup auths
    BY ActionFields
<1>2. /\ Rooted(trx.permission) /\ Closed(trx.permission, trx.link)
      /\ trx.declared \subseteq DOMAIN trx.permission
      /\ DOMAIN trx.permission # {} => DOMAIN permission # {}
    BY DEF Checked, acts
<1>3. Rooted(trx'.permission) /\ Closed(trx'.permission, trx'.link)
    BY <1>1, <1>2
<1> QED
    BY <1>1, <1>2, <1>3 DEF Checked

\* Every step keeps it.
LEMMA CheckedStep == TypeOK /\ ReferencesResolve /\ Checked /\ [Next]_vars => Checked'
<1> SUFFICES ASSUME TypeOK, ReferencesResolve, Checked, [Next]_vars PROVE Checked'
    OBVIOUS
<1>1. CASE push_transaction
    <2>1. /\ trx'.permission = permission /\ trx'.link = link /\ trx'.declared = {}
          /\ permission' = permission
        BY <1>1 DEF push_transaction
    <2>2. Rooted(trx'.permission) /\ Closed(trx'.permission, trx'.link)
        BY <2>1 DEF ReferencesResolve
    <2> QED
        BY <2>1, <2>2 DEF Checked
<1>2. CASE apply_eosio_newaccount
    <2>1. acts /\ action({}) /\ DOMAIN permission = {}
        BY <1>2 DEF apply_eosio_newaccount
    <2> QED
        BY <2>1, ActionChecked
<1>3. ASSUME NEW auth \in Names, NEW name \in Names, NEW parent \in Names \cup {Nothing},
             apply_eosio_updateauth(auth, name, parent)
      PROVE  Checked'
    <2>1. /\ acts /\ action({auth}) /\ {auth} \subseteq DOMAIN trx.permission
          /\ {auth} \in SUBSET Names
          /\ permission' = put(permission, name, parent)
        BY <1>3 DEF apply_eosio_updateauth, declares, exists
    <2>2. DOMAIN permission' # {}
        BY <2>1 DEF put
    <2> QED
        BY <2>1, <2>2, ActionChecked
<1>4. ASSUME NEW auth \in Names, NEW name \in Names, apply_eosio_deleteauth(auth, name)
      PROVE  Checked'
    <2>1. /\ acts /\ action({auth}) /\ {auth} \subseteq DOMAIN trx.permission
          /\ {auth} \in SUBSET Names
          /\ permission' = drop(permission, name) /\ name # "owner"
        BY <1>4 DEF apply_eosio_deleteauth, declares, exists
    <2>2. DOMAIN permission # {} => "owner" \in DOMAIN permission
        BY DEF ReferencesResolve, Rooted
    <2>3. DOMAIN permission # {} => DOMAIN permission' # {}
        BY <2>1, <2>2 DEF drop
    <2> QED
        BY <2>1, <2>3, ActionChecked
<1>5. ASSUME NEW auth \in Names, NEW type \in Keys, NEW requirement \in Names \cup {Any},
             apply_eosio_linkauth(auth, type, requirement)
      PROVE  Checked'
    <2>1. /\ acts /\ action({auth}) /\ {auth} \subseteq DOMAIN trx.permission
          /\ {auth} \in SUBSET Names
          /\ permission' = permission
        BY <1>5 DEF apply_eosio_linkauth, declares, exists
    <2> QED
        BY <2>1, ActionChecked
<1>6. ASSUME NEW auth \in Names, NEW type \in Keys, apply_eosio_unlinkauth(auth, type)
      PROVE  Checked'
    <2>1. /\ acts /\ action({auth}) /\ {auth} \subseteq DOMAIN trx.permission
          /\ {auth} \in SUBSET Names
          /\ permission' = permission
        BY <1>6 DEF apply_eosio_unlinkauth, declares, exists
    <2> QED
        BY <2>1, ActionChecked
<1>7. ASSUME NEW auth \in Names, NEW type \in Types, apply(auth, type)
      PROVE  Checked'
    <2>1. /\ acts /\ action({auth}) /\ {auth} \subseteq DOMAIN trx.permission
          /\ {auth} \in SUBSET Names
          /\ permission' = permission
        BY <1>7 DEF apply, declares, exists
    <2> QED
        BY <2>1, ActionChecked
<1>8. CASE finalize
    BY <1>8 DEF finalize, Checked
<1>9. CASE undo
    BY <1>9 DEF undo, Checked
<1>10. CASE UNCHANGED vars
    BY <1>10 DEF vars, Checked
<1> QED
    BY <1>1, <1>2, <1>3, <1>4, <1>5, <1>6, <1>7, <1>8, <1>9, <1>10 DEF Next

-----------------------------------------------------------------------------
(* Power.                                                                  *)

\* What is above a permission in a closed table: it exists, and what is above it is above
\* the permission as well.
LEMMA AboveFacts ==
    ASSUME NEW ps \in PermissionTable, NEW ls, Rooted(ps), Closed(ps, ls), NEW n \in DOMAIN ps
    PROVE  /\ n \in AtOrAbove(ps, n)
           /\ AtOrAbove(ps, n) \subseteq DOMAIN ps
           /\ AtOrAbove(ps, n) \in Walked(ps, n)
           /\ \A m \in AtOrAbove(ps, n) : AtOrAbove(ps, m) \subseteq AtOrAbove(ps, n)
<1> DEFINE A == AtOrAbove(ps, n)
<1>1. DOMAIN ps \subseteq Names
    BY TableDomains
<1>2. DOMAIN ps \in Walked(ps, n)
    BY <1>1 DEF Walked, exists, Rooted, Closed
<1>3. n \in A /\ A \subseteq DOMAIN ps /\ A \subseteq Names
    BY <1>1, <1>2 DEF AtOrAbove, Walked
<1>4. ASSUME NEW m \in A, exists(ps, m), ps[m] # Nothing
      PROVE  ps[m] \in A
    <2>1. ps[m] \in Names
        BY <1>1, <1>4 DEF exists, Rooted, Closed
    <2>2. ASSUME NEW S \in Walked(ps, n)
          PROVE  ps[m] \in S
        BY <1>4, <2>2 DEF Walked, AtOrAbove
    <2> QED
        BY <2>1, <2>2 DEF AtOrAbove
<1>5. A \in Walked(ps, n)
    BY <1>3, <1>4 DEF Walked
<1>6. ASSUME NEW m \in A
      PROVE  AtOrAbove(ps, m) \subseteq A
    <2>1. A \in Walked(ps, m)
        BY <1>3, <1>4, <1>6 DEF Walked
    <2> QED
        BY <2>1 DEF AtOrAbove
<1> QED
    BY <1>3, <1>5, <1>6

\* If the permissions at and above one have the parents that they had, then the same
\* permissions are above it.
LEMMA AboveKept ==
    ASSUME NEW ps \in PermissionTable, NEW ls, Rooted(ps), Closed(ps, ls), NEW n \in DOMAIN ps,
           NEW qs \in PermissionTable, NEW ks, Rooted(qs), Closed(qs, ks),
           \A m \in AtOrAbove(ps, n) : Same(ps, qs, m)
    PROVE  AtOrAbove(qs, n) = AtOrAbove(ps, n)
<1>1. /\ n \in AtOrAbove(ps, n) /\ AtOrAbove(ps, n) \subseteq DOMAIN ps
      /\ AtOrAbove(ps, n) \in Walked(ps, n)
    BY AboveFacts
<1>2. AtOrAbove(ps, n) \in Walked(qs, n)
    BY <1>1 DEF Walked, Same, exists
<1>3. AtOrAbove(qs, n) \subseteq AtOrAbove(ps, n)
    BY <1>2 DEF AtOrAbove
<1>4. n \in DOMAIN qs
    BY <1>1 DEF Same
<1>5. AtOrAbove(qs, n) \in Walked(qs, n)
    BY <1>4, AboveFacts
<1>6. AtOrAbove(qs, n) \in Walked(ps, n)
    BY <1>3, <1>5 DEF Walked, Same, exists
<1>7. AtOrAbove(ps, n) \subseteq AtOrAbove(qs, n)
    BY <1>6 DEF AtOrAbove
<1> QED
    BY <1>3, <1>7

\* The minimum permission of a type exists, unless it is any.
LEMMA MinimumExists ==
    ASSUME NEW ps, NEW ls, Rooted(ps), Closed(ps, ls), DOMAIN ps # {}, NEW t,
           lookup_minimum_permission(ls, t) # Any
    PROVE  lookup_minimum_permission(ls, t) \in DOMAIN ps
BY DEF lookup_minimum_permission, lookup_linked_permission, Rooted, Closed

\* The invariant implies the property.
LEMMA PowerFollows == TypeOK /\ ReferencesResolve /\ Checked /\ Untouched => PowerIsDeclared
<1> SUFFICES ASSUME TypeOK, ReferencesResolve, Checked, Untouched,
                    trx # Nothing, DOMAIN trx.permission # {}
             PROVE  PowerIsDeclared
    BY DEF PowerIsDeclared
<1>1. /\ trx.permission \in PermissionTable /\ trx.link \in LinkTable
      /\ permission \in PermissionTable
      /\ Rooted(trx.permission) /\ Closed(trx.permission, trx.link)
      /\ Rooted(permission) /\ Closed(permission, link)
    BY DEF TypeOK, Checked, ReferencesResolve
<1>2. ASSUME NEW n \in DOMAIN trx.permission,
             trx.declared \cap AtOrAbove(trx.permission, n) = {}
      PROVE  AtOrAbove(permission, n) = AtOrAbove(trx.permission, n)
    <2>1. ASSUME NEW m \in AtOrAbove(trx.permission, n)
          PROVE  Same(trx.permission, permission, m)
        <3>1. /\ m \in DOMAIN trx.permission
              /\ AtOrAbove(trx.permission, m) \subseteq AtOrAbove(trx.permission, n)
            BY <1>1, AboveFacts
        <3> QED
            BY <1>2, <3>1 DEF Untouched
    <2> QED
        BY <1>1, <2>1, AboveKept
<1>3. ASSUME NEW t \in Types, trx.declared \cap Able(trx.permission, trx.link, t) = {}
      PROVE  Able(permission, link, t) = Able(trx.permission, trx.link, t)
    <2> DEFINE old == lookup_minimum_permission(trx.link, t)
    <2>1. Same(trx.link, link, t)
        BY <1>3 DEF Untouched, Keys
    <2>2. t \notin DOMAIN trx.link => Same(trx.link, link, Default)
        <3> SUFFICES ASSUME t \notin DOMAIN trx.link PROVE Same(trx.link, link, Default)
            OBVIOUS
        <3>1. old = lookup_minimum_permission(trx.link, Default)
            BY DEF lookup_minimum_permission, lookup_linked_permission
        <3>2. Able(trx.permission, trx.link, Default) = Able(trx.permission, trx.link, t)
            BY <3>1, Zenon DEF Able
        <3> QED
            BY <1>3, <3>2 DEF Untouched, Keys
    <2>3. lookup_minimum_permission(link, t) = old
        BY <2>1, <2>2 DEF lookup_minimum_permission, lookup_linked_permission, Same
    <2>4. CASE old = Any
        BY <2>3, <2>4 DEF Able
    <2>5. CASE old # Any
        <3>1. old \in DOMAIN trx.permission
            BY <1>1, <2>5, MinimumExists
        <3>2. Able(trx.permission, trx.link, t) = AtOrAbove(trx.permission, old)
            BY <2>5 DEF Able
        <3>3. Able(permission, link, t) = AtOrAbove(permission, old)
            BY <2>3, <2>5 DEF Able
        <3>4. AtOrAbove(permission, old) = AtOrAbove(trx.permission, old)
            BY <1>2, <1>3, <3>1, <3>2
        <3> QED
            BY <3>2, <3>3, <3>4
    <2> QED
        BY <2>4, <2>5
<1> QED
    BY <1>2, <1>3 DEF PowerIsDeclared, Untouched

\* A table has the entries it had, but for the one that is put or dropped.
LEMMA OthersSame ==
    ASSUME NEW f, NEW x, NEW y, NEW z, z # x
    PROVE  Same(f, put(f, x, y), z) /\ Same(f, drop(f, x), z)
BY DEF Same, put, drop

\* An action that only touches what its permission had power over.
LEMMA ActionUntouched ==
    ASSUME TypeOK, Checked, Untouched, acts, NEW auths \in SUBSET Names, action(auths),
           DOMAIN trx.permission # {} =>
               /\ \A n \in DOMAIN trx.permission :
                      auths \cap AtOrAbove(trx.permission, n) = {} => Same(permission, permission', n)
               /\ \A t \in Keys :
                      auths \cap Able(trx.permission, trx.link, t) = {} => Same(link, link', t)
               /\ \A n \in DOMAIN permission' \ DOMAIN trx.permission :
                      \/ Same(permission, permission', n)
                      \/ auths \cap AtOrAbove(trx.permission, permission'[n]) # {}
    PROVE  Untouched'
<1> SUFFICES ASSUME DOMAIN trx'.permission # {}
             PROVE  Untouched'
    BY DEF Untouched
<1>1. /\ trx'.permission = trx.permission /\ trx'.link = trx.link
      /\ trx'.declared = trx.declared \cup auths /\ trx # Nothing
    BY ActionFields DEF acts
<1>2. ASSUME NEW n \in DOMAIN trx.permission,
             trx'.declared \cap AtOrAbove(trx.permission, n) = {}
      PROVE  Same(trx.permission, permission', n)
    <2>1. Same(trx.permission, permission, n) /\ Same(permission, permission', n)
        BY <1>1, <1>2 DEF Untouched
    <2> QED
        BY <2>1 DEF Same
<1>3. ASSUME NEW t \in Keys, trx'.declared \cap Able(trx.permission, trx.link, t) = {}
      PROVE  Same(trx.link, link', t)
    <2>1. Same(trx.link, link, t) /\ Same(link, link', t)
        BY <1>1, <1>3 DEF Untouched
    <2> QED
        BY <2>1 DEF Same
<1>4. ASSUME NEW n \in DOMAIN permission' \ DOMAIN trx.permission
      PROVE  trx'.declared \cap AtOrAbove(trx.permission, permission'[n]) # {}
    <2>1. CASE Same(permission, permission', n)
        <3>1. n \in DOMAIN permission \ DOMAIN trx.permission /\ permission'[n] = permission[n]
            BY <2>1 DEF Same
        <3>2. trx.declared \cap AtOrAbove(trx.permission, permission[n]) # {}
            BY <1>1, <3>1 DEF Untouched
        <3> QED
            BY <1>1, <3>1, <3>2
    <2>2. CASE auths \cap AtOrAbove(trx.permission, permission'[n]) # {}
        BY <1>1, <2>2
    <2> QED
        BY <1>1, <2>1, <2>2
<1> QED
    BY <1>1, <1>2, <1>3, <1>4 DEF Untouched

\* Every step keeps it.
LEMMA UntouchedStep ==
    TypeOK /\ Checked /\ Untouched /\ [Next]_vars => Untouched'
<1> SUFFICES ASSUME TypeOK, Checked, Untouched, [Next]_vars PROVE Untouched'
    OBVIOUS
<1>0. \A f, x : Same(f, f, x)
    BY DEF Same
<1>1. CASE push_transaction
    <2>1. /\ trx'.permission = permission /\ trx'.link = link
          /\ permission' = permission /\ link' = link
        BY <1>1 DEF push_transaction
    <2> QED
        BY <1>0, <2>1 DEF Untouched
<1>2. CASE apply_eosio_newaccount
    <2>1. acts /\ action({}) /\ DOMAIN permission = {}
        BY <1>2 DEF apply_eosio_newaccount
    <2>2. DOMAIN trx.permission = {}
        BY <2>1 DEF Checked, acts
    <2> QED
        BY <2>1, <2>2, ActionUntouched
<1>3. ASSUME NEW auth \in Names, NEW name \in Names, NEW parent \in Names \cup {Nothing},
             apply_eosio_updateauth(auth, name, parent)
      PROVE  Untouched'
    <2>1. /\ acts /\ action({auth})
          /\ permission' = put(permission, name, parent) /\ link' = link
          /\ check_updateauth_authorization(auth, name, parent)
        BY <1>3 DEF apply_eosio_updateauth, declares
    <2>2. \A n : n # name => Same(permission, permission', n)
        BY <2>1, OthersSame
    <2>3. CASE name \in DOMAIN trx.permission
        <3>1. auth \in AtOrAbove(trx.permission, name)
            BY <2>1, <2>3 DEF check_updateauth_authorization, satisfies, exists
        <3> QED
            BY <1>0, <2>1, <2>2, <2>3, <3>1, ActionUntouched
    <2>4. CASE name \notin DOMAIN trx.permission
        <3>1. permission'[name] = parent
            BY <2>1 DEF put
        <3>2. auth \in AtOrAbove(trx.permission, parent)
            BY <2>1, <2>4 DEF check_updateauth_authorization, satisfies, exists
        <3> QED
            BY <1>0, <2>1, <2>2, <2>4, <3>1, <3>2, ActionUntouched
    <2> QED
        BY <2>3, <2>4
<1>4. ASSUME NEW auth \in Names, NEW name \in Names, apply_eosio_deleteauth(auth, name)
      PROVE  Untouched'
    <2>1. /\ acts /\ action({auth})
          /\ permission' = drop(permission, name) /\ link' = link
          /\ name \in DOMAIN trx.permission /\ auth \in AtOrAbove(trx.permission, name)
        BY <1>4 DEF apply_eosio_deleteauth, declares, check_deleteauth_authorization, satisfies, exists
    <2>2. \A n : n # name => Same(permission, permission', n)
        BY <2>1, OthersSame
    <2> QED
        BY <1>0, <2>1, <2>2, ActionUntouched
<1>5. ASSUME NEW auth \in Names, NEW type \in Keys, NEW requirement \in Names \cup {Any},
             apply_eosio_linkauth(auth, type, requirement)
      PROVE  Untouched'
    <2>1. /\ acts /\ action({auth})
          /\ permission' = permission /\ link' = put(link, type, requirement)
          /\ check_linkauth_authorization(auth, type)
        BY <1>5 DEF apply_eosio_linkauth, declares
    <2>2. auth \in Able(trx.permission, trx.link, type)
        BY <2>1 DEF check_linkauth_authorization, Able, satisfies
    <2>3. \A t : t # type => Same(link, link', t)
        BY <2>1, OthersSame
    <2> QED
        BY <1>0, <2>1, <2>2, <2>3, ActionUntouched
<1>6. ASSUME NEW auth \in Names, NEW type \in Keys, apply_eosio_unlinkauth(auth, type)
      PROVE  Untouched'
    <2>1. /\ acts /\ action({auth})
          /\ permission' = permission /\ link' = drop(link, type)
          /\ check_unlinkauth_authorization(auth, type)
        BY <1>6 DEF apply_eosio_unlinkauth, declares
    <2>2. auth \in Able(trx.permission, trx.link, type)
        BY <2>1 DEF check_unlinkauth_authorization, Able, satisfies, lookup_minimum_permission
    <2>3. \A t : t # type => Same(link, link', t)
        BY <2>1, OthersSame
    <2> QED
        BY <1>0, <2>1, <2>2, <2>3, ActionUntouched
<1>7. ASSUME NEW auth \in Names, NEW type \in Types, apply(auth, type)
      PROVE  Untouched'
    <2>1. acts /\ action({auth}) /\ permission' = permission /\ link' = link
        BY <1>7 DEF apply, declares
    <2> QED
        BY <1>0, <2>1, ActionUntouched
<1>8. CASE finalize
    BY <1>8 DEF finalize, Untouched
<1>9. CASE undo
    BY <1>9 DEF undo, Untouched
<1>10. CASE UNCHANGED vars
    BY <1>10 DEF vars, Untouched
<1> QED
    BY <1>1, <1>2, <1>3, <1>4, <1>5, <1>6, <1>7, <1>8, <1>9, <1>10 DEF Next

-----------------------------------------------------------------------------
(* The theorems.                                                           *)

\* The initial state, without an account, satisfies the inductive invariant.
LEMMA InitIInv == Init => IInv
<1> SUFFICES ASSUME Init PROVE IInv
    OBVIOUS
<1>1. DOMAIN permission = {} /\ DOMAIN link = {} /\ trx = Nothing
    BY DEF Init, Empty
<1>2. permission \in [{} -> Names \cup {Nothing}] /\ link \in [{} -> Names \cup {Any}]
    BY DEF Init, Empty
<1>3. TypeOK
    BY <1>1, <1>2 DEF TypeOK, PermissionTable, LinkTable
<1> QED
    BY <1>1, <1>3 DEF IInv, ReferencesResolve, Rooted, Closed, Checked, Untouched

\* The inductive invariant always holds.
LEMMA Invariance == Spec => []IInv
<1>1. IInv /\ [Next]_vars => IInv'
    BY TypeStep, ResolveStep, CheckedStep, UntouchedStep DEF IInv
<1> QED
    BY <1>1, InitIInv, PTL DEF Spec

\* The parent of a permission and the permission that a link requires always exist, for
\* every number of permissions, links and actions in a transaction.
THEOREM ReferencesAlwaysResolve == Spec => []ReferencesResolve
<1>1. IInv => ReferencesResolve
    BY DEF IInv
<1> QED
    BY <1>1, Invariance, PTL

\* Who is above a permission, and who can authorize a type of action, changes in a
\* transaction only by a declared permission that was among them when it was checked, for
\* every tree of permissions and every sequence of actions.
THEOREM PowerAlwaysDeclared == Spec => []PowerIsDeclared
<1>1. IInv => PowerIsDeclared
    BY PowerFollows DEF IInv
<1> QED
    BY <1>1, Invariance, PTL
=============================================================================
