--------------------------- MODULE CompanyProofs ---------------------------
(***************************************************************************)
(* Theorems about the identities of a platform, the credentials of an      *)
(* account, the subscription of a company and the upgrade of a database,   *)
(* for any number of accounts, addresses, requests, checkouts, changes at  *)
(* the provider and processes that upgrade.                                *)
(***************************************************************************)
EXTENDS MCCompany, FiniteSetTheorems, WellFoundedInduction, TLAPS

-----------------------------------------------------------------------------
(* Identities: types.                                                      *)

(* A request at rest holds nothing. *)
LEMMA AtRestFields ==
  /\ AtRest \in Saver
  /\ AtRest.phase = "idle" /\ AtRest.email = NoEmail /\ AtRest.id = {} /\ AtRest.kind = "save"
  BY DEF AtRest, Saver

(* A set of numbers that is not empty has a least one. *)
LEMMA LeastNumber ==
  ASSUME NEW S \in SUBSET Nat, S # {}
  PROVE  \E n \in S : \A m \in S : n <= m
  <1>1. PICK n \in S : \A m \in S : <<m, n>> \notin OpToRel(<, Nat)
    BY WFMin, NatLessThanWellFounded, Zenon
  <1>2. ASSUME NEW m \in S PROVE n <= m
    <2>1. m \in Nat /\ n \in Nat /\ <<m, n>> \in Nat \X Nat
      OBVIOUS
    <2>2. m < n => <<m, n>> \in OpToRel(<, Nat)
      BY <2>1, Zenon DEF OpToRel
    <2>3. ~(m < n)
      BY <1>1, <2>2, Zenon
    <2> QED
      BY <2>1, <2>3
  <1> QED
    BY <1>2

(* The greatest customer number, however many companies there are: the     *)
(* numbers are bounded.                                                    *)
LEMMA GreatestNumber ==
  ASSUME IdentitiesTypeOK, Owners # {}
  PROVE  Greatest \in 0..MaxNumber /\ \A i \in Owners : number[i] <= Greatest
  <1> DEFINE bounds == {n \in 0..MaxNumber : \A i \in Owners : n >= number[i]}
  <1>1. MaxNumber \in Nat /\ \A i \in Owners : number[i] \in 0..MaxNumber
    BY IdentitiesAssumption DEF IdentitiesTypeOK
  <1>2. MaxNumber \in bounds /\ bounds \in SUBSET Nat
    BY <1>1
  <1>3. PICK n \in bounds : \A m \in bounds : n <= m
    BY <1>2, LeastNumber
  <1>4. \E i \in Owners : n = number[i]
    <2> SUFFICES ASSUME \A i \in Owners : n # number[i] PROVE FALSE
      OBVIOUS
    <2>1. \A i \in Owners : n - 1 >= number[i]
      BY <1>1
    <2>2. n - 1 \in bounds
      BY <1>1, <2>1
    <2> QED
      BY <1>3, <2>2
  <1> QED
    BY <1>3, <1>4 DEF Greatest

-----------------------------------------------------------------------------
(* Identities: addresses and numbers.                                      *)

(* A request has the lock of its address. *)
Holding(q) == saver[q].phase \in {"checked", "numbered"}

(* The lock of an address has one holder, and who holds it knows that no   *)
(* other identity has the address.                                         *)
LocksAreExclusive ==
  \A p, q \in Savers : p # q /\ Holding(p) /\ Holding(q) /\ saver[p].email = saver[q].email
                         => saver[q].email = NoEmail

CheckedAreFree ==
  \A q \in Savers : Holding(q) /\ saver[q].email # NoEmail
                      => \A i \in saver[q].id : FreeFor(i, saver[q].email)

EmailParts == LoginEmailsAreUnique /\ LocksAreExclusive /\ CheckedAreFree

(* Who has the lock of the table is alone and has a number above all that  *)
(* were given.                                                             *)
NumberParts ==
  /\ CustomerNumbersAreDistinct
  /\ \A p, q \in Savers : saver[p].phase = "numbered" /\ saver[q].phase = "numbered" => p = q
  /\ \A q \in Savers :
       /\ saver[q].id = {} \/ \E i \in Ids : saver[q].id = {i}
       /\ saver[q].kind = "signup" => \E i \in Owners : saver[q].id = {i}
       /\ saver[q].phase = "numbered" =>
            /\ saver[q].kind = "signup"
            /\ saver[q].next \in 1..MaxNumber
            /\ \A i \in Owners : number[i] < saver[q].next

IdentityInv == IdentitiesTypeOK /\ EmailParts /\ NumberParts

(* Addresses that are given up, and locks that are, disturb nobody. *)
LEMMA EmailsGivenUp ==
  ASSUME IdentitiesTypeOK, EmailParts,
         \A j \in Ids : EmailsOf(j)' \subseteq EmailsOf(j),
         \A p \in Savers : Holding(p)' => /\ Holding(p)
                                         /\ saver'[p].email = saver[p].email
                                         /\ saver'[p].id = saver[p].id
  PROVE  EmailParts'
  <1>1. LoginEmailsAreUnique'
    <2> SUFFICES ASSUME NEW i \in Ids, NEW j \in Ids, i # j
                 PROVE  EmailsOf(i)' \cap EmailsOf(j)' = {}
      BY DEF LoginEmailsAreUnique
    <2>1. EmailsOf(i) \cap EmailsOf(j) = {}
      BY DEF EmailParts, LoginEmailsAreUnique
    <2> QED
      BY <2>1
  <1>2. LocksAreExclusive'
    <2> SUFFICES ASSUME NEW p \in Savers, NEW q \in Savers, p # q, Holding(p)', Holding(q)',
                        saver'[p].email = saver'[q].email
                 PROVE  saver'[q].email = NoEmail
      BY DEF LocksAreExclusive
    <2> QED
      BY DEF EmailParts, LocksAreExclusive
  <1>3. CheckedAreFree'
    <2> SUFFICES ASSUME NEW q \in Savers, Holding(q)', saver'[q].email # NoEmail,
                        NEW i \in saver'[q].id, NEW j \in Ids \ {i}
                 PROVE  saver'[q].email \notin EmailsOf(j)'
      BY DEF CheckedAreFree, FreeFor
    <2>1. saver[q].email \notin EmailsOf(j)
      BY DEF EmailParts, CheckedAreFree, FreeFor
    <2> QED
      BY <2>1
  <1> QED
    BY <1>1, <1>2, <1>3 DEF EmailParts

(* A request takes the lock of an address that is free. *)
LEMMA EmailLockTaken ==
  ASSUME IdentitiesTypeOK, EmailParts, NEW q \in Savers, NEW i \in Ids,
         NEW e \in Emails \cup {NoEmail}, MayWrite(q, i, e),
         UNCHANGED <<registry, workerLogin>>,
         saver'[q].id = {i}, saver'[q].email = e,
         \A p \in Savers \ {q} : saver'[p] = saver[p]
  PROVE  EmailParts'
  <1>1. \A j \in Ids : EmailsOf(j)' = EmailsOf(j)
    BY DEF EmailsOf
  <1>2. LoginEmailsAreUnique'
    BY <1>1 DEF EmailParts, LoginEmailsAreUnique
  <1>3. \A p \in Savers \ {q} : /\ Holding(p)' <=> Holding(p)
                                /\ Holding(p) /\ saver[p].email = e => e = NoEmail
    BY DEF Holding, MayWrite, EmailLocked
  <1>4. LocksAreExclusive'
    <2> SUFFICES ASSUME NEW p \in Savers, NEW r \in Savers, p # r, Holding(p)', Holding(r)',
                        saver'[p].email = saver'[r].email
                 PROVE  saver'[r].email = NoEmail
      BY DEF LocksAreExclusive
    <2>1. CASE p # q /\ r # q
      BY <2>1, <1>3 DEF EmailParts, LocksAreExclusive
    <2>2. CASE p = q \/ r = q
      BY <2>2, <1>3
    <2> QED
      BY <2>1, <2>2
  <1>5. CheckedAreFree'
    <2> SUFFICES ASSUME NEW r \in Savers, Holding(r)', saver'[r].email # NoEmail,
                        NEW k \in saver'[r].id, NEW j \in Ids \ {k}
                 PROVE  saver'[r].email \notin EmailsOf(j)'
      BY DEF CheckedAreFree, FreeFor
    <2>1. CASE r = q
      BY <2>1, <1>1 DEF MayWrite, FreeFor
    <2>2. CASE r # q
      BY <2>2, <1>1, <1>3 DEF EmailParts, CheckedAreFree, FreeFor
    <2> QED
      BY <2>1, <2>2
  <1> QED
    BY <1>2, <1>4, <1>5 DEF EmailParts

(* A request writes the address it has the lock of. *)
LEMMA EmailWritten ==
  ASSUME IdentitiesTypeOK, EmailParts, NEW q \in Savers, Holding(q), NEW i \in Ids,
         i \in saver[q].id,
         EmailsOf(i)' \subseteq EmailsOf(i) \cup ({saver[q].email} \ {NoEmail}),
         \A j \in Ids \ {i} : EmailsOf(j)' = EmailsOf(j),
         saver' = [saver EXCEPT ![q] = AtRest]
  PROVE  EmailParts'
  <1> DEFINE e == saver[q].email
  <1>1. \A p \in Savers : saver'[p] = IF p = q THEN AtRest ELSE saver[p]
    BY DEF IdentitiesTypeOK
  <1>2. \A p \in Savers : Holding(p)' => p # q /\ Holding(p) /\ saver'[p] = saver[p]
    BY <1>1, AtRestFields DEF Holding
  <1>3. e # NoEmail => \A j \in Ids \ {i} : e \notin EmailsOf(j)
    BY DEF EmailParts, CheckedAreFree, FreeFor
  <1>4. LoginEmailsAreUnique'
    <2> SUFFICES ASSUME NEW k \in Ids, NEW j \in Ids, k # j
                 PROVE  EmailsOf(k)' \cap EmailsOf(j)' = {}
      BY DEF LoginEmailsAreUnique
    <2>1. EmailsOf(k) \cap EmailsOf(j) = {}
      BY DEF EmailParts, LoginEmailsAreUnique
    <2> QED
      BY <2>1, <1>3
  <1>5. LocksAreExclusive'
    <2> SUFFICES ASSUME NEW p \in Savers, NEW r \in Savers, p # r, Holding(p)', Holding(r)',
                        saver'[p].email = saver'[r].email
                 PROVE  saver'[r].email = NoEmail
      BY DEF LocksAreExclusive
    <2> QED
      BY <1>2 DEF EmailParts, LocksAreExclusive
  <1>6. CheckedAreFree'
    <2> SUFFICES ASSUME NEW r \in Savers, Holding(r)', saver'[r].email # NoEmail,
                        NEW k \in saver'[r].id, NEW j \in Ids \ {k}
                 PROVE  saver'[r].email \notin EmailsOf(j)'
      BY DEF CheckedAreFree, FreeFor
    <2>1. /\ r # q /\ Holding(r) /\ saver'[r] = saver[r]
          /\ saver[r].email \notin EmailsOf(j)
      BY <1>2 DEF EmailParts, CheckedAreFree, FreeFor
    <2>2. saver[r].email # e
      BY <2>1 DEF EmailParts, LocksAreExclusive
    <2> QED
      BY <2>1, <2>2
  <1> QED
    BY <1>4, <1>5, <1>6 DEF EmailParts

(* A request that neither gets nor writes a number. *)
LEMMA NumbersUntouched ==
  ASSUME IdentitiesTypeOK, NumberParts, NEW q \in Savers, NEW record \in Saver,
         number' = number, saver' = [saver EXCEPT ![q] = record],
         record.phase # "numbered", record.id = {} \/ \E i \in Ids : record.id = {i},
         record.kind = "signup" => \E i \in Owners : record.id = {i}
  PROVE  NumberParts'
  <1>1. \A p \in Savers : saver'[p] = IF p = q THEN record ELSE saver[p]
    BY DEF IdentitiesTypeOK
  <1> QED
    BY <1>1 DEF NumberParts, CustomerNumbersAreDistinct

(* Every action preserves the invariant. *)
LEMMA IdentityStep == IdentityInv /\ [IdentitiesNext]_identityVars => IdentityInv'
  <1> SUFFICES ASSUME IdentityInv, [IdentitiesNext]_identityVars PROVE IdentityInv'
    OBVIOUS
  <1> USE DEF IdentityInv
  <1>max. MaxNumber \in Nat /\ Owners \cap Workers = {}
    BY IdentitiesAssumption DEF Workers
  <1>saver. \A q \in Savers : /\ saver[q] \in Saver /\ saver[q].id \subseteq Ids
                             /\ saver[q].email \in Emails \cup {NoEmail}
    BY DEF IdentitiesTypeOK, Saver, NumberParts
  <1>rest. ASSUME NEW q \in Savers, Set(q, AtRest), number' = number
           PROVE  NumberParts' /\ saver' \in [Savers -> Saver]
    <2>1. NumberParts'
      BY <1>rest, AtRestFields, NumbersUntouched DEF Set
    <2> QED
      BY <1>rest, <2>1, AtRestFields DEF Set, IdentitiesTypeOK
  <1>1. ASSUME NEW q \in Savers, NEW i \in Ids, NEW e \in Emails \cup {NoEmail}, BeginSave(q, i, e)
        PROVE  IdentityInv'
    <2> DEFINE known == i \in Drivers /\ workerLogin[i] # NoEmail
               begun == [AtRest EXCEPT !.phase = "checked", !.id = {i}, !.email = e, !.account = known]
    <2>1. begun \in Saver /\ begun.phase = "checked" /\ begun.kind = "save"
          /\ begun.id = {i} /\ begun.email = e
      BY DEF AtRest, Saver
    <2>2. saver' = [saver EXCEPT ![q] = begun] /\ UNCHANGED <<registry, workerLogin, number>>
      BY <1>1 DEF BeginSave, Set
    <2> HIDE DEF begun
    <2>3. saver'[q] = begun /\ \A p \in Savers \ {q} : saver'[p] = saver[p]
      BY <2>2 DEF IdentitiesTypeOK
    <2>4. IdentitiesTypeOK'
      BY <2>1, <2>2 DEF IdentitiesTypeOK
    <2>5. MayWrite(q, i, e)
      BY <1>1 DEF BeginSave
    <2>6. EmailParts'
      BY <2>1, <2>2, <2>3, <2>5, EmailLockTaken
    <2>7. NumberParts'
      BY <2>1, <2>2, NumbersUntouched
    <2> QED
      BY <2>4, <2>6, <2>7
  <1>2. ASSUME NEW q \in Savers, CommitSave(q) PROVE IdentityInv'
    <2>1. PICK i \in saver[q].id :
            /\ saver[q].phase = "checked" /\ StillThere(i)
            /\ registry' = [registry EXCEPT ![i] = saver[q].email]
            /\ workerLogin' = IF saver[q].account /\ saver[q].email # NoEmail
                                THEN [workerLogin EXCEPT ![i] = saver[q].email] ELSE workerLogin
            /\ Set(q, AtRest) /\ number' = number
      BY <1>2 DEF CommitSave
    <2>2. i \in Ids
      BY <1>saver, <2>1
    <2>3. NumberParts' /\ saver' \in [Savers -> Saver]
      BY <1>rest, <2>1
    <2>4. IdentitiesTypeOK'
      <3>1. registry' \in [Ids -> Emails \cup {NoEmail}] /\ workerLogin' \in [Workers -> Emails \cup {NoEmail}]
        BY <1>saver, <2>1, <2>2 DEF IdentitiesTypeOK
      <3>2. \A j \in Owners : number'[j] = 0 => registry'[j] = NoEmail
        BY <1>max, <2>1, <2>2 DEF IdentitiesTypeOK, StillThere, Ids
      <3> QED
        BY <2>1, <2>3, <3>1, <3>2 DEF IdentitiesTypeOK
    <2>5. EmailsOf(i)' \subseteq EmailsOf(i) \cup ({saver[q].email} \ {NoEmail})
      BY <2>1, <2>2 DEF EmailsOf, IdentitiesTypeOK
    <2>6. \A j \in Ids \ {i} : EmailsOf(j)' = EmailsOf(j)
      BY <2>1, <2>2 DEF EmailsOf, IdentitiesTypeOK
    <2>7. EmailParts'
      BY <2>1, <2>2, <2>5, <2>6, EmailWritten DEF Holding, Set
    <2> QED
      BY <2>3, <2>4, <2>7
  <1>3. ASSUME NEW q \in Savers, NEW i \in Workers, ReadSetup(q, i) PROVE IdentityInv'
    <2> DEFINE begun == [AtRest EXCEPT !.phase = "read", !.kind = "setup", !.id = {i},
                                       !.email = registry[i]]
    <2>1. begun \in Saver /\ begun.phase = "read" /\ begun.kind = "setup"
          /\ begun.id = {i} /\ begun.email = registry[i] /\ i \in Ids
      <3>1. i \in Ids /\ registry[i] \in Emails \cup {NoEmail}
        BY DEF Ids, IdentitiesTypeOK
      <3> QED
        BY <3>1 DEF AtRest, Saver
    <2>2. saver' = [saver EXCEPT ![q] = begun] /\ UNCHANGED <<registry, workerLogin, number>>
      BY <1>3 DEF ReadSetup, Set
    <2> HIDE DEF begun
    <2>3. saver'[q] = begun /\ \A p \in Savers \ {q} : saver'[p] = saver[p]
      BY <2>2 DEF IdentitiesTypeOK
    <2>4. IdentitiesTypeOK'
      BY <2>1, <2>2 DEF IdentitiesTypeOK
    <2>5. EmailParts'
      BY <2>1, <2>2, <2>3, EmailsGivenUp DEF Holding, EmailsOf
    <2>6. NumberParts'
      BY <2>1, <2>2, NumbersUntouched
    <2> QED
      BY <2>4, <2>5, <2>6
  <1>4. ASSUME NEW q \in Savers, CheckSetup(q) PROVE IdentityInv'
    <2> DEFINE begun == [saver[q] EXCEPT !.phase = "checked"]
    <2>1. PICK i \in saver[q].id :
            /\ saver[q].phase = "read" /\ MayWrite(q, i, saver[q].email)
            /\ saver' = [saver EXCEPT ![q] = begun] /\ UNCHANGED <<registry, workerLogin, number>>
      BY <1>4 DEF CheckSetup, Set
    <2>2. begun \in Saver /\ begun.phase = "checked" /\ begun.kind = saver[q].kind
          /\ begun.id = saver[q].id /\ begun.email = saver[q].email
      BY <1>saver DEF Saver
    <2> HIDE DEF begun
    <2>3. saver'[q] = begun /\ \A p \in Savers \ {q} : saver'[p] = saver[p]
      BY <2>1 DEF IdentitiesTypeOK
    <2>4. IdentitiesTypeOK'
      BY <2>1, <2>2 DEF IdentitiesTypeOK
    <2>5. EmailParts'
      <3>1. i \in Ids /\ saver[q].id = {i}
        BY <1>saver, <2>1 DEF NumberParts
      <3> QED
        BY <1>saver, <2>1, <2>2, <2>3, <3>1, EmailLockTaken
    <2>6. NumberParts'
      BY <1>saver, <2>1, <2>2, NumbersUntouched DEF NumberParts
    <2> QED
      BY <2>4, <2>5, <2>6
  <1>5. ASSUME NEW q \in Savers, CommitSetup(q) PROVE IdentityInv'
    <2>1. PICK i \in saver[q].id :
            /\ saver[q].phase = "checked"
            /\ workerLogin' = [workerLogin EXCEPT ![i] =
                                 IF i \in Drivers /\ @ # NoEmail THEN @ ELSE saver[q].email]
            /\ Set(q, AtRest) /\ UNCHANGED <<registry, number>>
      BY <1>5 DEF CommitSetup
    <2>2. i \in Ids
      BY <1>saver, <2>1
    <2>3. NumberParts' /\ saver' \in [Savers -> Saver]
      BY <1>rest, <2>1
    <2>4. IdentitiesTypeOK'
      BY <1>saver, <2>1, <2>2, <2>3 DEF IdentitiesTypeOK
    <2>5. EmailsOf(i)' \subseteq EmailsOf(i) \cup ({saver[q].email} \ {NoEmail})
      BY <2>1, <2>2 DEF EmailsOf, IdentitiesTypeOK
    <2>6. \A j \in Ids \ {i} : EmailsOf(j)' = EmailsOf(j)
      BY <2>1, <2>2 DEF EmailsOf, IdentitiesTypeOK
    <2>7. EmailParts'
      BY <2>1, <2>2, <2>5, <2>6, EmailWritten DEF Holding, Set
    <2> QED
      BY <2>3, <2>4, <2>7
  <1>6. ASSUME NEW q \in Savers, NEW i \in Owners, NEW e \in Emails, BeginSignup(q, i, e)
        PROVE  IdentityInv'
    <2> DEFINE begun == [AtRest EXCEPT !.phase = "checked", !.kind = "signup", !.id = {i},
                                       !.email = e]
    <2>1. begun \in Saver /\ begun.phase = "checked" /\ begun.kind = "signup"
          /\ begun.id = {i} /\ begun.email = e /\ i \in Ids
      BY DEF AtRest, Saver, Ids
    <2>2. saver' = [saver EXCEPT ![q] = begun] /\ UNCHANGED <<registry, workerLogin, number>>
      BY <1>6 DEF BeginSignup, Set
    <2> HIDE DEF begun
    <2>3. saver'[q] = begun /\ \A p \in Savers \ {q} : saver'[p] = saver[p]
      BY <2>2 DEF IdentitiesTypeOK
    <2>4. IdentitiesTypeOK'
      BY <2>1, <2>2 DEF IdentitiesTypeOK
    <2>5. MayWrite(q, i, e)
      BY <1>6 DEF BeginSignup
    <2>6. EmailParts'
      BY <2>1, <2>2, <2>3, <2>5, EmailLockTaken
    <2>7. NumberParts'
      BY <2>1, <2>2, NumbersUntouched
    <2> QED
      BY <2>4, <2>6, <2>7
  <1>7. ASSUME NEW q \in Savers, LockUsers(q) PROVE IdentityInv'
    <2> DEFINE begun == [saver[q] EXCEPT !.phase = "numbered", !.next = NextNumber]
    <2>1. /\ saver[q].phase = "checked" /\ saver[q].kind = "signup" /\ NextNumber <= MaxNumber
          /\ ~UsersLocked
          /\ saver' = [saver EXCEPT ![q] = begun] /\ UNCHANGED <<registry, workerLogin, number>>
      BY <1>7 DEF LockUsers, Set
    <2>2. \E i \in Owners : saver[q].id = {i}
      BY <2>1 DEF NumberParts
    <2>3. NextNumber \in 1..MaxNumber /\ \A i \in Owners : number[i] < NextNumber
      BY <1>max, <2>1, <2>2, GreatestNumber DEF NextNumber, IdentitiesTypeOK
    <2>4. begun \in Saver /\ begun.phase = "numbered" /\ begun.kind = "signup"
          /\ begun.id = saver[q].id /\ begun.email = saver[q].email /\ begun.next = NextNumber
      <3>1. NextNumber \in Nat
        BY <1>max, <2>3
      <3> QED
        BY <1>saver, <2>1, <3>1 DEF Saver
    <2> HIDE DEF begun
    <2>5. saver'[q] = begun /\ \A p \in Savers \ {q} : saver'[p] = saver[p]
      BY <2>1 DEF IdentitiesTypeOK
    <2>6. IdentitiesTypeOK'
      BY <2>1, <2>4 DEF IdentitiesTypeOK
    <2>7. EmailParts'
      BY <2>1, <2>4, <2>5, EmailsGivenUp DEF Holding, EmailsOf
    <2>8. NumberParts'
      <3>1. \A p \in Savers \ {q} : saver[p].phase # "numbered"
        BY <2>1 DEF UsersLocked
      <3> QED
        BY <2>1, <2>2, <2>3, <2>4, <2>5, <3>1 DEF NumberParts, CustomerNumbersAreDistinct
    <2> QED
      BY <2>6, <2>7, <2>8
  <1>8. ASSUME NEW q \in Savers, CommitSignup(q) PROVE IdentityInv'
    <2>1. PICK i \in saver[q].id :
            /\ saver[q].phase = "numbered" /\ number[i] = 0
            /\ number' = [number EXCEPT ![i] = saver[q].next]
            /\ registry' = [registry EXCEPT ![i] = saver[q].email]
            /\ Set(q, AtRest) /\ workerLogin' = workerLogin
      BY <1>8 DEF CommitSignup
    <2>2. /\ i \in Owners /\ i \in Ids
          /\ saver[q].next \in 1..MaxNumber /\ \A j \in Owners : number[j] < saver[q].next
          /\ \A p \in Savers \ {q} : saver[p].phase # "numbered"
      BY <2>1 DEF NumberParts, Ids
    <2>3. \A p \in Savers : saver'[p] = IF p = q THEN AtRest ELSE saver[p]
      BY <2>1 DEF Set, IdentitiesTypeOK
    <2>4. IdentitiesTypeOK'
      <3>1. registry' \in [Ids -> Emails \cup {NoEmail}] /\ saver' \in [Savers -> Saver]
        BY <1>saver, <2>1, <2>2, AtRestFields DEF IdentitiesTypeOK, Set
      <3>2. number' \in [Owners -> 0..MaxNumber]
        BY <1>max, <2>1, <2>2 DEF IdentitiesTypeOK
      <3>3. \A j \in Owners : number'[j] = 0 => registry'[j] = NoEmail
        BY <1>max, <2>1, <2>2 DEF IdentitiesTypeOK, Ids
      <3> QED
        BY <2>1, <3>1, <3>2, <3>3 DEF IdentitiesTypeOK
    <2>5. EmailsOf(i)' \subseteq EmailsOf(i) \cup ({saver[q].email} \ {NoEmail})
      BY <2>1, <2>2 DEF EmailsOf, IdentitiesTypeOK
    <2>6. \A j \in Ids \ {i} : EmailsOf(j)' = EmailsOf(j)
      BY <2>1, <2>2 DEF EmailsOf, IdentitiesTypeOK
    <2>7. EmailParts'
      BY <2>1, <2>2, <2>5, <2>6, EmailWritten DEF Holding, Set
    <2>8. NumberParts'
      <3>1. \A j \in Owners : number'[j] = IF j = i THEN saver[q].next ELSE number[j]
        BY <2>1 DEF IdentitiesTypeOK
      <3>2. \A j \in Owners : number[j] \in Nat
        BY <1>max DEF IdentitiesTypeOK
      <3>3. CustomerNumbersAreDistinct'
        BY <2>2, <3>1, <3>2 DEF NumberParts, CustomerNumbersAreDistinct
      <3> QED
        BY <2>2, <2>3, <3>3, AtRestFields DEF NumberParts
    <2> QED
      BY <2>4, <2>7, <2>8
  <1>9. ASSUME NEW q \in Savers, AbandonSave(q) PROVE IdentityInv'
    <2>1. Set(q, AtRest) /\ UNCHANGED <<registry, workerLogin, number>>
      BY <1>9 DEF AbandonSave
    <2>2. NumberParts' /\ saver' \in [Savers -> Saver]
      BY <1>rest, <2>1
    <2>3. \A p \in Savers : saver'[p] = IF p = q THEN AtRest ELSE saver[p]
      BY <2>1 DEF Set, IdentitiesTypeOK
    <2>4. EmailParts'
      BY <2>1, <2>3, AtRestFields, EmailsGivenUp DEF Holding, EmailsOf
    <2> QED
      BY <2>1, <2>2, <2>4 DEF IdentitiesTypeOK
  <1>10. ASSUME NEW i \in Owners, DeleteOwner(i) PROVE IdentityInv'
    <2>1. /\ number' = [number EXCEPT ![i] = 0] /\ registry' = [registry EXCEPT ![i] = NoEmail]
          /\ ~UsersLocked /\ UNCHANGED <<workerLogin, saver>> /\ i \in Ids
      BY <1>10 DEF DeleteOwner, Ids
    <2>2. IdentitiesTypeOK'
      BY <1>max, <2>1 DEF IdentitiesTypeOK, Ids
    <2>3. \A j \in Ids : EmailsOf(j)' \subseteq EmailsOf(j)
      BY <2>1 DEF EmailsOf, IdentitiesTypeOK
    <2>4. EmailParts'
      BY <2>1, <2>3, EmailsGivenUp DEF Holding
    <2>5. \A j \in Owners : number'[j] = IF j = i THEN 0 ELSE number[j]
      BY <2>1 DEF IdentitiesTypeOK
    <2>6. \A p \in Savers : saver[p].phase # "numbered"
      BY <2>1 DEF UsersLocked
    <2>7. NumberParts'
      BY <2>1, <2>5, <2>6 DEF NumberParts, CustomerNumbersAreDistinct
    <2> QED
      BY <2>2, <2>4, <2>7
  <1>11. ASSUME UNCHANGED identityVars PROVE IdentityInv'
    BY <1>11 DEF identityVars, IdentitiesTypeOK, EmailParts, LoginEmailsAreUnique, EmailsOf,
       LocksAreExclusive, CheckedAreFree, FreeFor, Holding, NumberParts, CustomerNumbersAreDistinct
  <1> QED
    BY <1>1, <1>2, <1>3, <1>4, <1>5, <1>6, <1>7, <1>8, <1>9, <1>10, <1>11 DEF IdentitiesNext

(* Nobody has an address or a number at first.                             *)
LEMMA IdentityBegins == IdentitiesInit => IdentityInv
  <1> SUFFICES ASSUME IdentitiesInit PROVE IdentityInv
    OBVIOUS
  <1>1. \A q \in Savers : saver[q] = AtRest
    BY DEF IdentitiesInit
  <1>2. IdentitiesTypeOK
    BY AtRestFields, IdentitiesAssumption DEF IdentitiesInit, IdentitiesTypeOK, Ids
  <1>3. \A i \in Ids : EmailsOf(i) = {}
    BY DEF IdentitiesInit, EmailsOf
  <1>4. EmailParts
    BY <1>1, <1>3, AtRestFields
    DEF EmailParts, LoginEmailsAreUnique, LocksAreExclusive, CheckedAreFree, Holding
  <1>5. \A i \in Owners : number[i] = 0
    BY DEF IdentitiesInit
  <1>6. NumberParts
    BY <1>1, <1>5, AtRestFields DEF NumberParts, CustomerNumbersAreDistinct
  <1> QED
    BY <1>2, <1>4, <1>6 DEF IdentityInv

(* An e-mail address opens one account of the platform at most, and every  *)
(* company has a customer number of its own: for any number of companies,  *)
(* workers, addresses and concurrent requests.                             *)
THEOREM IdentitiesDistinct == IdentitiesSpec => []IdentitiesAreDistinct
  <1>1. IdentitiesInit => IdentityInv
    BY IdentityBegins
  <1>2. IdentityInv => IdentitiesAreDistinct
    BY DEF IdentityInv, EmailParts, NumberParts, IdentitiesAreDistinct
  <1> QED
    BY <1>1, <1>2, IdentityStep, PTL DEF IdentitiesSpec

-----------------------------------------------------------------------------
(* Accounts: the invariant.                                                *)

(* Which letters and requests an account has; and passwords are numbered   *)
(* in the order in which they are chosen.                                  *)
RoleParts ==
  /\ Of("setup") # {} => login.role = "driver"
  /\ Of("invite") # {} => login.role = "collaborator"
  /\ login.hash <= hashes
  /\ \A c \in Cookies : cookies[c].password <= hashes
  /\ \A v \in Visitors :
       /\ visitor[v].phase \in {"verified", "committed"} => login.role # "user"
       /\ visitor[v].phase = "opened" => visitor[v].letter \in Letters
       /\ visitor[v].seen.password <= hashes

(* A session that ended has an older hash or an older version than the     *)
(* account has now, or is one of a driver who is not let in again.         *)
Surpassed(c) ==
  \/ cookies[c].hash < login.hash
  \/ cookies[c].version < Credential.version
  \/ login.role = "driver" /\ ~login.active

SessionParts ==
  /\ ended \subseteq Given
  /\ \A c \in Given : cookies[c].hash <= login.hash /\ cookies[c].version <= Credential.version
  /\ \A c \in ended : Surpassed(c)

LetterParts ==
  /\ LinksWorkOnce
  /\ ResetEndsOtherLinks
  /\ AddressEndsLinks
  /\ moved \subseteq Made

AccountInv == AccountsTypeOK /\ RoleParts /\ SessionParts /\ LetterParts

(* The parts of an account have types. *)
LEMMA AccountTypes ==
  ASSUME AccountsTypeOK
  PROVE  /\ MaxHash \in Nat /\ MaxVersion \in Nat /\ hashes \in 1..MaxHash
         /\ login.role \in Roles /\ login.password \in 0..MaxHash /\ login.hash \in 0..MaxHash
         /\ login.version \in 0..MaxVersion /\ login.email \in Mailboxes
         /\ login.active \in BOOLEAN /\ login.pending \in BOOLEAN
         /\ Credential \in Credentials /\ Credential.hash = login.hash
         /\ Credential.password = login.password
         /\ Credential.version = IF login.role = "collaborator" THEN login.version ELSE 0
         /\ \A c \in Cookies : /\ cookies[c] \in Credentials
                              /\ cookies[c].password \in 0..MaxHash
                              /\ cookies[c].hash \in 0..MaxHash
                              /\ cookies[c].version \in 0..MaxVersion
         /\ \A l \in Letters : letters[l] \in Letter
         /\ \A v \in Visitors : visitor[v] \in Visitor /\ visitor[v].seen \in Credentials
  <1>1. MaxHash \in Nat /\ MaxVersion \in Nat
    BY AccountsAssumption
  <1>2. login \in Login /\ hashes \in 1..MaxHash
    BY DEF AccountsTypeOK
  <1>3. /\ login.role \in Roles /\ login.password \in 0..MaxHash /\ login.hash \in 0..MaxHash
        /\ login.version \in 0..MaxVersion /\ login.email \in Mailboxes
        /\ login.active \in BOOLEAN /\ login.pending \in BOOLEAN
    BY <1>2 DEF Login
  <1>4. /\ Credential \in Credentials /\ Credential.hash = login.hash
        /\ Credential.password = login.password
        /\ Credential.version = IF login.role = "collaborator" THEN login.version ELSE 0
    BY <1>1, <1>3 DEF Credential, Credentials
  <1>5. ASSUME NEW c \in Cookies
        PROVE  /\ cookies[c] \in Credentials /\ cookies[c].password \in 0..MaxHash
               /\ cookies[c].hash \in 0..MaxHash /\ cookies[c].version \in 0..MaxVersion
    <2>1. cookies[c] \in Credentials
      BY DEF AccountsTypeOK
    <2> QED
      BY <2>1 DEF Credentials
  <1>6. ASSUME NEW l \in Letters PROVE letters[l] \in Letter
    BY DEF AccountsTypeOK
  <1>7. ASSUME NEW v \in Visitors PROVE visitor[v] \in Visitor /\ visitor[v].seen \in Credentials
    <2>1. visitor[v] \in Visitor
      BY DEF AccountsTypeOK
    <2> QED
      BY <2>1 DEF Visitor
  <1> QED
    BY <1>1, <1>2, <1>3, <1>4, <1>5, <1>6, <1>7

(* What a session that is opened by a step is bound to. *)
CookiesGiven ==
  \A c \in Cookies :
    \/ cookies'[c] = cookies[c]
    \/ /\ cookies[c] = NoCredential
       /\ cookies'[c].hash <= login'.hash /\ cookies'[c].version <= Credential'.version

(* A step that leaves hash, version and the closing of a driver as they    *)
(* are: what ended stays ended.                                            *)
LEMMA SessionsStay ==
  ASSUME AccountsTypeOK, AccountsTypeOK', SessionParts, CookiesGiven,
         login'.role = login.role, login'.hash = login.hash, login'.version = login.version,
         login.role = "driver" /\ ~login.active => ~login'.active,
         ended' = ended
  PROVE  SessionParts'
  <1>1. Credential'.version = Credential.version
    BY AccountTypes DEF Credential
  <1>2. ASSUME NEW c \in Given'
        PROVE  cookies'[c].hash <= login'.hash /\ cookies'[c].version <= Credential'.version
    BY <1>1 DEF CookiesGiven, Given, SessionParts
  <1>3. ASSUME NEW c \in ended
        PROVE  c \in Given' /\ Surpassed(c)'
    <2>1. c \in Given /\ cookies'[c] = cookies[c] /\ Surpassed(c)
      BY DEF SessionParts, Given, CookiesGiven
    <2> QED
      BY <1>1, <2>1 DEF Given, Surpassed
  <1> QED
    BY <1>2, <1>3 DEF SessionParts

(* A step that ends every session leaves each of them surpassed. *)
LEMMA SessionsEnd ==
  ASSUME AccountsTypeOK, AccountsTypeOK', SessionParts, CookiesGiven,
         login'.role = login.role, login'.hash >= login.hash, login'.version >= login.version,
         \/ login'.hash > login.hash
         \/ login.role = "collaborator" /\ login'.version > login.version
         \/ login.role = "driver" /\ ~login'.active,
         ended' = Given
  PROVE  SessionParts'
  <1> USE AccountTypes
  <1>t. /\ login.hash \in Nat /\ login.version \in Nat /\ Credential.version \in Nat
        /\ Credential.version = IF login.role = "collaborator" THEN login.version ELSE 0
        /\ \A c \in Cookies : cookies[c].hash \in Nat /\ cookies[c].version \in Nat
    OBVIOUS
  <1>u. /\ login'.hash \in Nat /\ login'.version \in Nat /\ Credential'.version \in Nat
        /\ Credential'.version = IF login'.role = "collaborator" THEN login'.version ELSE 0
    <2>1. (/\ MaxHash \in Nat /\ MaxVersion \in Nat
           /\ login.hash \in 0..MaxHash /\ login.version \in 0..MaxVersion
           /\ Credential.version = IF login.role = "collaborator" THEN login.version ELSE 0)'
      BY PTL
    <2> QED
      BY <2>1
  <1>1. Credential'.version >= Credential.version
    BY <1>t, <1>u
  <1>2. ASSUME NEW c \in Given'
        PROVE  cookies'[c].hash <= login'.hash /\ cookies'[c].version <= Credential'.version
    <2>1. CASE cookies'[c] = cookies[c]
      <3>1. c \in Given /\ cookies[c].hash <= login.hash /\ cookies[c].version <= Credential.version
        BY <2>1 DEF Given, SessionParts
      <3> QED
        BY <1>1, <1>t, <1>u, <2>1, <3>1 DEF Given
    <2> QED
      BY <2>1 DEF CookiesGiven, Given
  <1>3. ASSUME NEW c \in Given
        PROVE  c \in Given' /\ Surpassed(c)'
    <2>1. /\ c \in Cookies /\ cookies'[c] = cookies[c]
          /\ cookies[c].hash <= login.hash /\ cookies[c].version <= Credential.version
      BY DEF SessionParts, Given, CookiesGiven
    <2>2. login'.hash > login.hash => cookies'[c].hash < login'.hash
      BY <1>t, <1>u, <2>1
    <2>3. login.role = "collaborator" /\ login'.version > login.version
            => cookies'[c].version < Credential'.version
      BY <1>t, <1>u, <2>1
    <2> QED
      BY <2>1, <2>2, <2>3 DEF Given, Surpassed
  <1> QED
    BY <1>2, <1>3 DEF SessionParts

(* What a step may do to a letter: leave it or end it, *)
Stays(l) ==
  /\ letters'[l].kind = letters[l].kind /\ letters'[l].email = letters[l].email
  /\ letters'[l].password = letters[l].password /\ letters'[l].uses = letters[l].uses
  /\ letters[l].used => letters'[l].used

(* use it, which a letter that is not a driver's stands once, *)
IsUsed(l) ==
  /\ letters'[l].kind = letters[l].kind /\ letters[l].kind # "none"
  /\ letters'[l].uses = letters[l].uses + 1 /\ letters'[l].used
  /\ letters[l].kind \in {"reset", "invite"} => ~letters[l].used

(* or write a new one, of the password and the address of the account.     *)
IsNew(l) ==
  /\ letters[l].kind = "none" /\ letters'[l].kind # "none" /\ letters'[l].uses = 0
  /\ letters'[l].kind = "reset" => letters'[l].password = login'.password

(* A step of the letters: a new password of an owner, or a new address,    *)
(* ends those that were made.                                              *)
LEMMA LettersMove ==
  ASSUME AccountsTypeOK, LetterParts,
         \A l \in Letters : Stays(l) \/ IsUsed(l) \/ IsNew(l),
         login'.role = login.role,
         \/ login'.password = login.password /\ login'.email = login.email
         \/ \A l \in Of("reset") : letters'[l].used
         \/ login.role # "user",
         \/ moved' = moved
         \/ /\ moved' = Made
            /\ login.role # "driver" => \A l \in Of("reset") \cup Of("invite") : letters'[l].used
  PROVE  LetterParts'
  <1>1. \A l \in Letters : letters[l].uses \in Nat /\ (letters[l].uses > 0 => letters[l].used)
    BY AccountTypes DEF Letter, AccountsTypeOK
  <1>2. \A l \in Letters : letters[l].kind # "none" =>
          letters'[l].kind = letters[l].kind /\ (letters[l].used => letters'[l].used)
    BY DEF Stays, IsUsed, IsNew
  <1>3. LinksWorkOnce'
    <2> SUFFICES ASSUME NEW l \in Letters, letters'[l].kind \in {"reset", "invite"}
                 PROVE  letters'[l].uses <= 1
      BY DEF LinksWorkOnce, Of
    <2>1. CASE Stays(l)
      BY <2>1 DEF Stays, LetterParts, LinksWorkOnce, Of
    <2>2. CASE IsUsed(l)
      <3>1. ~letters[l].used /\ letters'[l].uses = letters[l].uses + 1
        BY <2>2 DEF IsUsed
      <3>2. letters[l].uses = 0
        BY <1>1, <3>1
      <3> QED
        BY <3>1, <3>2
    <2>3. CASE IsNew(l)
      BY <2>3 DEF IsNew
    <2> QED
      BY <2>1, <2>2, <2>3
  <1>4. ResetEndsOtherLinks'
    <2> SUFFICES ASSUME NEW l \in Letters, letters'[l].kind = "reset", login.role = "user",
                        Unused(l)', letters'[l].email = login'.email
                 PROVE  letters'[l].password = login'.password
      BY DEF ResetEndsOtherLinks, Of
    <2>1. CASE Stays(l)
      BY <2>1 DEF Stays, LetterParts, ResetEndsOtherLinks, Of, Unused
    <2>2. CASE IsUsed(l)
      BY <2>2 DEF IsUsed, Unused
    <2>3. CASE IsNew(l)
      BY <2>3 DEF IsNew
    <2> QED
      BY <2>1, <2>2, <2>3
  <1>5. moved' \subseteq Made /\ Made \subseteq Made'
    BY <1>2 DEF LetterParts, Made
  <1>6. AddressEndsLinks'
    <2> SUFFICES ASSUME login.role # "driver", NEW l \in moved',
                        letters'[l].kind \in {"reset", "invite"}
                 PROVE  ~Unused(l)'
      BY DEF AddressEndsLinks, Of
    <2>1. l \in Letters /\ letters'[l].kind = letters[l].kind
      BY <1>2, <1>5 DEF Made
    <2>2. CASE moved' = moved
      <3>1. letters[l].used
        BY <2>1, <2>2, <1>5 DEF LetterParts, AddressEndsLinks, Of, Unused, Made
      <3> QED
        BY <1>2, <1>5, <2>1, <3>1 DEF Unused, Made
    <2>3. CASE \A x \in Of("reset") \cup Of("invite") : letters'[x].used
      BY <2>1, <2>3 DEF Of, Unused
    <2> QED
      BY <2>2, <2>3
  <1> QED
    BY <1>3, <1>4, <1>5, <1>6 DEF LetterParts

(* Letters that no step touches stay. *)
LEMMA LettersStay ==
  ASSUME AccountsTypeOK, NEW S, letters' = Spent(S)
  PROVE  /\ \A l \in Letters : Stays(l) /\ (l \in S => letters'[l].used)
         /\ letters' \in [Letters -> Letter]
         /\ \A l \in Letters : letters'[l].uses > 0 => letters'[l].used
  <1>1. ASSUME NEW l \in Letters
        PROVE  /\ Stays(l) /\ (l \in S => letters'[l].used) /\ letters'[l] \in Letter
               /\ letters'[l].uses > 0 => letters'[l].used
    <2>1. letters[l] \in Letter /\ (letters[l].uses > 0 => letters[l].used)
      BY DEF AccountsTypeOK
    <2>2. letters'[l] = IF l \in S THEN [letters[l] EXCEPT !.used = TRUE] ELSE letters[l]
      BY DEF Spent
    <2> QED
      BY <2>1, <2>2 DEF Stays, Letter
  <1>2. letters' = [l \in Letters |-> letters'[l]]
    BY DEF Spent
  <1> QED
    BY <1>1, <1>2

(* A request that was answered. *)
LEMMA AwayFields ==
  /\ Away \in Visitor /\ Away.phase = "idle" /\ Away.seen = NoCredential /\ Away.letter = NoLetter
  /\ NoCredential \in Credentials /\ NoCredential.password = 0
  <1>1. MaxHash \in Nat /\ MaxVersion \in Nat
    BY AccountsAssumption
  <1>2. NoCredential \in Credentials /\ NoCredential.password = 0
    BY <1>1 DEF NoCredential, Credentials
  <1> QED
    BY <1>2 DEF Away, Visitor

(* What a request may hold. *)
HoldsWell(v) ==
  /\ visitor'[v].phase \in {"verified", "committed"} => login.role # "user"
  /\ visitor'[v].phase = "opened" => visitor'[v].letter \in Letters
  /\ visitor'[v].seen.password <= hashes'

(* Roles, letters and requests stay in order. *)
LEMMA RolesKeep ==
  ASSUME AccountsTypeOK, AccountsTypeOK', RoleParts,
         login'.role = login.role, hashes <= hashes', login'.hash <= hashes',
         \A c \in Cookies : cookies'[c] = cookies[c] \/ cookies'[c].password <= hashes',
         \A v \in Visitors : visitor'[v] = visitor[v] \/ HoldsWell(v),
         \A l \in Letters : letters'[l].kind = letters[l].kind \/ letters'[l].kind = "reset"
                            \/ (letters'[l].kind = "setup" /\ login.role = "driver")
                            \/ (letters'[l].kind = "invite" /\ login.role = "collaborator")
  PROVE  RoleParts'
  <1>1. hashes \in Nat /\ hashes' \in Nat
    BY AccountsAssumption DEF AccountsTypeOK
  <1>2. ASSUME NEW c \in Cookies PROVE cookies'[c].password <= hashes'
    <2>1. cookies[c].password \in Nat /\ cookies[c].password <= hashes
      BY AccountTypes DEF RoleParts
    <2> QED
      BY <1>1, <2>1
  <1>3. ASSUME NEW v \in Visitors PROVE HoldsWell(v)
    <2>1. visitor[v].seen.password \in Nat /\ visitor[v].seen.password <= hashes
      BY AccountTypes DEF RoleParts, Credentials
    <2>2. visitor[v].seen.password <= hashes'
      BY <1>1, <2>1
    <2> QED
      BY <2>2 DEF HoldsWell, RoleParts
  <1>4. (Of("setup") # {} => login.role = "driver")' /\ (Of("invite") # {} => login.role = "collaborator")'
    BY DEF RoleParts, Of
  <1> QED
    BY <1>2, <1>3, <1>4 DEF RoleParts, HoldsWell

(* A request ends, and the others go on. *)
LEMMA GoesFields ==
  ASSUME AccountsTypeOK, NEW v \in Visitors, NEW holds \in Visitor,
         visitor' = [visitor EXCEPT ![v] = holds]
  PROVE  /\ visitor' \in [Visitors -> Visitor]
         /\ visitor'[v] = holds /\ \A w \in Visitors \ {v} : visitor'[w] = visitor[w]
  BY DEF AccountsTypeOK

(* Steps that leave the letters alone. *)
LEMMA LettersUntouched ==
  ASSUME AccountsTypeOK, LetterParts, UNCHANGED <<letters, moved>>, login'.role = login.role,
         login.role = "user" => login'.password = login.password /\ login'.email = login.email
  PROVE  LetterParts'
  BY LettersMove DEF Stays

(* Steps of a request or a session that leave the account alone. *)
LEMMA AccountUntouched ==
  ASSUME AccountsTypeOK, AccountsTypeOK', RoleParts, SessionParts, LetterParts, CookiesGiven,
         UNCHANGED <<login, letters, hashes, ended, moved>>,
         \A c \in Cookies : cookies'[c] = cookies[c] \/ cookies'[c] = Credential,
         \A v \in Visitors : visitor'[v] = visitor[v] \/ HoldsWell(v)
  PROVE  RoleParts' /\ SessionParts' /\ LetterParts'
  <1>1. hashes \in Nat /\ Credential.password <= hashes /\ login.hash <= hashes
    BY AccountTypes, AccountsAssumption DEF AccountsTypeOK, RoleParts
  <1>2. RoleParts'
    <2>1. hashes <= hashes' /\ login'.hash <= hashes' /\ login'.role = login.role
      BY <1>1
    <2>2. \A c \in Cookies : cookies'[c] = cookies[c] \/ cookies'[c].password <= hashes'
      BY <1>1
    <2>3. \A l \in Letters : letters'[l].kind = letters[l].kind \/ letters'[l].kind = "reset"
                             \/ (letters'[l].kind = "setup" /\ login.role = "driver")
                             \/ (letters'[l].kind = "invite" /\ login.role = "collaborator")
      OBVIOUS
    <2>4. \A v \in Visitors : visitor'[v] = visitor[v] \/ HoldsWell(v)
      OBVIOUS
    <2> QED
      BY <2>1, <2>2, <2>3, <2>4, RolesKeep
  <1>3. SessionParts'
    BY SessionsStay
  <1>4. LetterParts'
    BY LettersUntouched
  <1> QED
    BY <1>2, <1>3, <1>4

(* A new letter. *)
LEMMA WrittenFields ==
  ASSUME AccountsTypeOK, NEW l, NEW kind \in {"reset", "setup", "invite"}, NEW email \in Mailboxes
  PROVE  /\ Written(l, kind, email) \in Letter
         /\ Written(l, kind, email).kind = kind /\ Written(l, kind, email).uses = 0
         /\ Written(l, kind, email).password = login.password
  <1>1. login.password \in 0..MaxHash
    BY AccountTypes
  <1> QED
    BY <1>1 DEF Written, NotWritten, Letter

(* A letter is used, and others with it end. *)
LEMMA LettersUsed ==
  ASSUME AccountsTypeOK, NEW R, NEW l \in Letters, letters[l].kind # "none",
         letters[l].kind \in {"reset", "invite"} => ~letters[l].used,
         letters' = Uses(Spent(R), l)
  PROVE  /\ \A x \in Letters : Stays(x) \/ IsUsed(x)
         /\ \A x \in Letters : x \in R => letters'[x].used
         /\ \A x \in Letters : letters'[x].kind = letters[x].kind
         /\ letters' \in [Letters -> Letter]
         /\ \A x \in Letters : letters'[x].uses > 0 => letters'[x].used
  <1>1. ASSUME NEW x \in Letters
        PROVE  /\ Stays(x) \/ IsUsed(x)
               /\ x \in R => letters'[x].used
               /\ letters'[x].kind = letters[x].kind
               /\ letters'[x] \in Letter
               /\ letters'[x].uses > 0 => letters'[x].used
    <2>1. letters[x] \in Letter /\ (letters[x].uses > 0 => letters[x].used)
      BY DEF AccountsTypeOK
    <2> DEFINE ends == IF x \in R THEN [letters[x] EXCEPT !.used = TRUE] ELSE letters[x]
    <2>2. letters'[x] = IF x = l THEN [ends EXCEPT !.used = TRUE, !.uses = @ + 1] ELSE ends
      BY DEF Uses, Spent
    <2>3. /\ ends \in Letter /\ ends.kind = letters[x].kind /\ ends.email = letters[x].email
          /\ ends.password = letters[x].password /\ ends.uses = letters[x].uses
          /\ letters[x].used => ends.used
          /\ x \in R => ends.used
      BY <2>1 DEF Letter
    <2> HIDE DEF ends
    <2>4. CASE x = l
      <3>1. letters'[x] = [ends EXCEPT !.used = TRUE, !.uses = @ + 1]
        BY <2>2, <2>4
      <3>2. ends.uses \in Nat /\ ends.uses + 1 \in Nat
        BY <2>3 DEF Letter
      <3>3. letters'[x] \in Letter
        BY <2>3, <3>1, <3>2 DEF Letter
      <3>4. letters'[x].kind = ends.kind /\ letters'[x].used /\ letters'[x].uses = ends.uses + 1
        BY <2>3, <3>1 DEF Letter
      <3> QED
        BY <2>3, <2>4, <3>3, <3>4 DEF IsUsed
    <2>5. CASE x # l
      BY <2>1, <2>2, <2>3, <2>5 DEF Stays
    <2> QED
      BY <2>4, <2>5
  <1>2. letters' = [x \in Letters |-> letters'[x]]
    BY DEF Uses
  <1> QED
    BY <1>1, <1>2

(* A new letter ends the invitations before it. *)
LEMMA LettersIssued ==
  ASSUME AccountsTypeOK, NEW R, NEW l \in Letters, letters[l].kind = "none", NEW email \in Mailboxes,
         letters' = Issued(Spent(R), l, email)
  PROVE  /\ \A x \in Letters : Stays(x) \/ (IsNew(x) /\ letters'[x].kind = "invite")
         /\ \A x \in Letters : x \in R /\ letters[x].kind # "none" => letters'[x].used
         /\ letters' \in [Letters -> Letter]
         /\ \A x \in Letters : letters'[x].uses > 0 => letters'[x].used
  <1>1. ASSUME NEW x \in Letters
        PROVE  /\ Stays(x) \/ (IsNew(x) /\ letters'[x].kind = "invite")
               /\ x \in R /\ letters[x].kind # "none" => letters'[x].used
               /\ letters'[x] \in Letter
               /\ letters'[x].uses > 0 => letters'[x].used
    <2>1. letters[x] \in Letter /\ (letters[x].uses > 0 => letters[x].used)
      BY DEF AccountsTypeOK
    <2> DEFINE ends == IF x \in R THEN [letters[x] EXCEPT !.used = TRUE] ELSE letters[x]
    <2>2. letters'[x] = IF x = l THEN Written(l, "invite", email)
                        ELSE IF ends.kind = "invite" THEN [ends EXCEPT !.used = TRUE] ELSE ends
      BY DEF Issued, Spent
    <2>3. /\ ends \in Letter /\ ends.kind = letters[x].kind /\ ends.email = letters[x].email
          /\ ends.password = letters[x].password /\ ends.uses = letters[x].uses
          /\ letters[x].used => ends.used
          /\ x \in R => ends.used
      BY <2>1 DEF Letter
    <2> HIDE DEF ends
    <2>4. CASE x = l
      <3>1. /\ letters'[x] = Written(l, "invite", email) /\ letters'[x] \in Letter
            /\ letters'[x].kind = "invite" /\ letters'[x].uses = 0
        BY <2>2, <2>4, WrittenFields
      <3> QED
        BY <2>4, <3>1 DEF IsNew
    <2>5. CASE x # l
      BY <2>1, <2>2, <2>3, <2>5 DEF Stays, Letter
    <2> QED
      BY <2>4, <2>5
  <1>2. letters' = [x \in Letters |-> letters'[x]]
    BY DEF Issued
  <1> QED
    BY <1>1, <1>2

(* No letter ends. *)
LEMMA NoneSpent == AccountsTypeOK => Spent({}) = letters
  BY DEF AccountsTypeOK, Spent

(* One cookie is given for what the account has now. *)
LEMMA CookieGiven ==
  ASSUME AccountsTypeOK, NEW c \in Cookies, GiveCookie(c), login' = login
  PROVE  /\ CookiesGiven /\ cookies' \in [Cookies -> Credentials]
         /\ \A d \in Cookies : cookies'[d] = cookies[d] \/ cookies'[d] = Credential
  <1>1. cookies[c] = NoCredential /\ \A d \in Cookies : cookies'[d] = IF d = c THEN Credential ELSE cookies[d]
    BY DEF GiveCookie, AccountsTypeOK
  <1>2. Credential' = Credential
    BY DEF Credential
  <1>3. Credential.hash <= login.hash /\ Credential.version <= Credential.version
    BY AccountTypes
  <1> QED
    BY <1>1, <1>2, <1>3, AccountTypes DEF CookiesGiven, GiveCookie, AccountsTypeOK

(* The account after a new password. *)
NewLogin ==
  /\ login' \in Login /\ login'.role = login.role /\ login'.hash = hashes'
  /\ login'.email = login.email /\ login'.active = login.active
  /\ login'.version \in Nat /\ login'.version >= login.version
  /\ login'.password \in Nat /\ login'.password <= hashes'

(* A new password comes with a new hash, and the address stays.             *)
LEMMA ChosenLogin ==
  ASSUME AccountsTypeOK, NEW pending \in BOOLEAN, Choose(pending)
  PROVE  NewLogin
  <1>1. /\ login \in Login /\ hashes' \in 0..MaxHash /\ hashes' = hashes + 1
        /\ login.version \in 0..MaxVersion
    BY AccountTypes, AccountsAssumption DEF AccountsTypeOK, Choose
  <1>2. login' = [login EXCEPT !.password = hashes', !.hash = hashes', !.pending = pending]
    BY DEF Choose
  <1>3. /\ login' \in Login /\ login'.role = login.role /\ login'.hash = hashes'
        /\ login'.email = login.email /\ login'.active = login.active
        /\ login'.version = login.version /\ login'.password = hashes'
    BY <1>1, <1>2 DEF Login
  <1> QED
    BY <1>1, <1>3, AccountsAssumption DEF NewLogin

(* Logging in and out, opening a letter, being known and giving up change  *)
(* no account.                                                             *)
LEMMA QuietActions ==
  ASSUME AccountInv, NEW v, NEW c, NEW l,
         \/ c \in Cookies /\ (LogInOwner(c) \/ LogOut(c))
         \/ v \in Visitors /\ (VerifyPassword(v) \/ GiveUp(v))
         \/ v \in Visitors /\ c \in Cookies /\ (LogIn(v, c) \/ Authenticate(v, c))
         \/ v \in Visitors /\ l \in Letters /\ OpenLetter(v, l)
  PROVE  AccountInv'
  <1> USE DEF AccountInv
  <1>1. UNCHANGED <<login, letters, hashes, ended, moved>>
    BY DEF LogInOwner, LogOut, VerifyPassword, LogIn, OpenLetter, Authenticate, GiveUp
  <1>2. /\ CookiesGiven /\ cookies' \in [Cookies -> Credentials]
        /\ \A d \in Cookies : cookies'[d] = cookies[d] \/ cookies'[d] = Credential
    <2>1. CASE c \in Cookies /\ GiveCookie(c)
      BY <1>1, <2>1, CookieGiven
    <2>2. CASE cookies' = cookies
      BY <2>2 DEF CookiesGiven, AccountsTypeOK
    <2> QED
      BY <2>1, <2>2 DEF LogInOwner, LogOut, VerifyPassword, LogIn, OpenLetter, Authenticate, GiveUp
  <1>3. /\ visitor' \in [Visitors -> Visitor]
        /\ \A w \in Visitors : visitor'[w] = visitor[w] \/ HoldsWell(w)
    <2>1. hashes' = hashes /\ hashes \in Nat
      BY <1>1, AccountsAssumption DEF AccountsTypeOK
    <2>2. Credential.password <= hashes /\ \A d \in Cookies : cookies[d].password <= hashes
      BY AccountTypes DEF AccountsTypeOK, RoleParts
    <2>3. CASE v \in Visitors /\ VerifyPassword(v)
      <3> DEFINE holds == [Away EXCEPT !.phase = "verified", !.seen = Credential]
      <3>1. /\ holds \in Visitor /\ holds.phase = "verified" /\ holds.seen = Credential
        BY AwayFields, AccountTypes DEF Visitor
      <3>2. visitor' = [visitor EXCEPT ![v] = holds] /\ login.role # "user"
        BY <2>3 DEF VerifyPassword
      <3> HIDE DEF holds
      <3>3. HoldsWell(v)
        BY <2>3, <2>1, <2>2, <3>1, <3>2, GoesFields DEF HoldsWell
      <3> QED
        BY <2>3, <3>1, <3>2, <3>3, GoesFields
    <2>4. CASE v \in Visitors /\ l \in Letters /\ OpenLetter(v, l)
      <3> DEFINE holds == [Away EXCEPT !.phase = "opened", !.letter = l]
      <3>1. /\ holds \in Visitor /\ holds.phase = "opened" /\ holds.seen = NoCredential
            /\ holds.letter = l
        BY <2>4, AwayFields DEF Visitor
      <3>2. visitor' = [visitor EXCEPT ![v] = holds]
        BY <2>4 DEF OpenLetter
      <3> HIDE DEF holds
      <3>3. HoldsWell(v)
        <4>1. visitor'[v] = holds
          BY <2>4, <3>1, <3>2, GoesFields
        <4>2. holds.seen.password <= hashes'
          BY <2>1, <3>1, AwayFields
        <4> QED
          BY <2>4, <3>1, <4>1, <4>2 DEF HoldsWell
      <3> QED
        BY <2>4, <3>1, <3>2, <3>3, GoesFields
    <2>5. CASE v \in Visitors /\ c \in Cookies /\ Authenticate(v, c)
      <3> DEFINE holds == [Away EXCEPT !.phase = "known", !.seen = cookies[c]]
      <3>1. /\ holds \in Visitor /\ holds.phase = "known" /\ holds.seen = cookies[c]
        BY <2>5, AwayFields, AccountTypes DEF Visitor
      <3>2. visitor' = [visitor EXCEPT ![v] = holds]
        BY <2>5 DEF Authenticate
      <3> HIDE DEF holds
      <3>3. HoldsWell(v)
        BY <2>5, <2>1, <2>2, <3>1, <3>2, GoesFields DEF HoldsWell
      <3> QED
        BY <2>5, <3>1, <3>2, <3>3, GoesFields
    <2>6. CASE v \in Visitors /\ Goes(v)
      <3>1. visitor'[v] = Away /\ visitor' \in [Visitors -> Visitor]
            /\ \A w \in Visitors \ {v} : visitor'[w] = visitor[w]
        BY <2>6, GoesFields, AwayFields DEF Goes
      <3>2. HoldsWell(v)
        BY <2>1, <3>1, AwayFields DEF HoldsWell
      <3> QED
        BY <3>1, <3>2
    <2>7. CASE visitor' = visitor
      BY <2>7 DEF AccountsTypeOK
    <2> QED
      BY <2>3, <2>4, <2>5, <2>6, <2>7 DEF LogInOwner, LogOut, LogIn, GiveUp
  <1>4. revoked' \subseteq Cookies
    BY DEF AccountsTypeOK, LogInOwner, LogOut, VerifyPassword, LogIn, OpenLetter, Authenticate, GiveUp
  <1>5. AccountsTypeOK'
    BY <1>1, <1>2, <1>3, <1>4 DEF AccountsTypeOK
  <1>6. RoleParts' /\ SessionParts' /\ LetterParts'
    BY <1>1, <1>2, <1>3, <1>5, AccountUntouched
  <1> QED
    BY <1>5, <1>6

(* A request that chooses a new password ends every session; a reset       *)
(* letter of an owner has to end too.                                      *)
LEMMA PasswordChosen ==
  ASSUME AccountInv, hashes < MaxHash, hashes' = hashes + 1, ended' = Given,
         NewLogin,
         moved' = moved, revoked' = revoked, CookiesGiven, cookies' \in [Cookies -> Credentials],
         \A c \in Cookies : cookies'[c] = cookies[c] \/ cookies'[c].password <= hashes',
         visitor' \in [Visitors -> Visitor],
         \A v \in Visitors : visitor'[v] = visitor[v] \/ HoldsWell(v),
         \A l \in Letters : Stays(l) \/ IsUsed(l),
         letters' \in [Letters -> Letter],
         \A l \in Letters : letters'[l].uses > 0 => letters'[l].used,
         login.role = "user" => \A l \in Of("reset") : letters'[l].used
  PROVE  AccountInv'
  <1> USE DEF AccountInv
  <1>1. /\ login' \in Login /\ hashes' \in 1..MaxHash
        /\ login'.role = login.role /\ login'.hash = hashes' /\ login'.email = login.email
        /\ login'.active = login.active /\ login'.version >= login.version
        /\ login'.password <= hashes'
    BY AccountsAssumption DEF NewLogin, AccountsTypeOK
  <1>2. AccountsTypeOK'
    BY <1>1 DEF AccountsTypeOK, Given
  <1>3. hashes \in Nat /\ login.hash \in Nat /\ login.hash <= hashes
    BY AccountTypes, AccountsAssumption DEF AccountsTypeOK, RoleParts
  <1>4. SessionParts'
    BY <1>1, <1>2, <1>3, SessionsEnd
  <1>5. \A l \in Letters : letters'[l].kind = letters[l].kind
    BY DEF Stays, IsUsed
  <1>6. RoleParts'
    BY <1>1, <1>2, <1>3, <1>5, RolesKeep
  <1>7. LetterParts'
    BY <1>1, LettersMove
  <1> QED
    BY <1>2, <1>4, <1>6, <1>7

(* What a request does when it is answered. *)
LEMMA Answered ==
  ASSUME AccountsTypeOK, hashes' \in Nat, NEW v \in Visitors, Goes(v)
  PROVE  /\ visitor' \in [Visitors -> Visitor]
         /\ \A w \in Visitors : visitor'[w] = visitor[w] \/ HoldsWell(w)
  <1>1. visitor'[v] = Away /\ visitor' \in [Visitors -> Visitor]
        /\ \A w \in Visitors \ {v} : visitor'[w] = visitor[w]
    BY GoesFields, AwayFields DEF Goes
  <1>2. HoldsWell(v)
    BY <1>1, AwayFields DEF HoldsWell
  <1> QED
    BY <1>1, <1>2

(* Every action that chooses a password. *)
LEMMA PasswordActions ==
  ASSUME AccountInv, NEW v \in Visitors, NEW c,
         \/ ConfirmReset(v) \/ ChangePassword(v) \/ AcceptInvitation(v) \/ CommitLogin(v)
         \/ c \in Cookies /\ CompleteSetup(v, c)
  PROVE  AccountInv'
  <1> USE DEF AccountInv
  <1>n. hashes \in Nat /\ MaxHash \in Nat
    BY AccountsAssumption DEF AccountsTypeOK
  <1>c. cookies' = cookies => CookiesGiven /\ cookies' \in [Cookies -> Credentials]
    BY DEF CookiesGiven, AccountsTypeOK
  <1>1. ASSUME ConfirmReset(v) PROVE AccountInv'
    <2> DEFINE l == visitor[v].letter
    <2>1. /\ visitor[v].phase = "opened" /\ letters[l].kind = "reset" /\ StillGood(l)
          /\ Choose(login.pending) /\ letters' = Uses(Spent(Of("reset")), l)
          /\ Goes(v) /\ UNCHANGED <<cookies, revoked, moved>>
      BY <1>1 DEF ConfirmReset, ResetSpends
    <2>2. l \in Letters /\ ~letters[l].used
      BY <2>1 DEF RoleParts, StillGood, Unused
    <2>3. /\ \A x \in Letters : Stays(x) \/ IsUsed(x)
          /\ \A x \in Of("reset") : letters'[x].used
          /\ letters' \in [Letters -> Letter]
          /\ \A x \in Letters : letters'[x].uses > 0 => letters'[x].used
      <3> HIDE DEF l
      <3> QED
        BY <2>1, <2>2, LettersUsed DEF Of
    <2>4. NewLogin /\ hashes < MaxHash /\ hashes' = hashes + 1 /\ ended' = Given
      BY <2>1, ChosenLogin, AccountTypes DEF Choose
    <2>5. /\ visitor' \in [Visitors -> Visitor]
          /\ \A w \in Visitors : visitor'[w] = visitor[w] \/ HoldsWell(w)
      BY <1>n, <2>1, <2>4, Answered
    <2> QED
      BY <1>c, <2>1, <2>3, <2>4, <2>5, PasswordChosen
  <1>2. ASSUME c \in Cookies, CompleteSetup(v, c) PROVE AccountInv'
    <2> DEFINE l == visitor[v].letter
               handed == [password |-> hashes', hash |-> hashes', version |-> 0]
    <2>1. /\ visitor[v].phase = "opened" /\ letters[l].kind = "setup"
          /\ Choose(FALSE) /\ letters' = Uses(letters, l)
          /\ cookies' = IF cookies[c] = NoCredential THEN [cookies EXCEPT ![c] = handed] ELSE cookies
          /\ Goes(v) /\ UNCHANGED <<revoked, moved>>
      BY <1>2 DEF CompleteSetup
    <2>2. l \in Letters /\ login.role = "driver"
      BY <2>1 DEF RoleParts, Of
    <2>3. letters' = Uses(Spent({}), l)
      BY <2>1, NoneSpent
    <2>4. /\ \A x \in Letters : Stays(x) \/ IsUsed(x)
          /\ letters' \in [Letters -> Letter]
          /\ \A x \in Letters : letters'[x].uses > 0 => letters'[x].used
      <3> HIDE DEF l
      <3> QED
        BY <2>1, <2>2, <2>3, LettersUsed
    <2>5. NewLogin /\ hashes < MaxHash /\ hashes' = hashes + 1 /\ ended' = Given
      BY <2>1, ChosenLogin DEF Choose
    <2>6. /\ visitor' \in [Visitors -> Visitor]
          /\ \A w \in Visitors : visitor'[w] = visitor[w] \/ HoldsWell(w)
      BY <1>n, <2>1, <2>5, Answered
    <2>7. handed \in Credentials /\ handed.hash = hashes' /\ handed.password = hashes' /\ handed.version = 0
      BY <1>n, <2>5, AccountsAssumption DEF Credentials
    <2> HIDE DEF handed
    <2>8. /\ cookies' \in [Cookies -> Credentials]
          /\ \A d \in Cookies : \/ cookies'[d] = cookies[d]
                                \/ cookies[d] = NoCredential /\ cookies'[d] = handed
      BY <2>1, <2>7 DEF AccountsTypeOK
    <2>9. Credential'.version = 0 /\ login'.hash = hashes'
      BY <2>2, <2>5 DEF Credential, NewLogin
    <2>10. CookiesGiven /\ \A d \in Cookies : cookies'[d] = cookies[d] \/ cookies'[d].password <= hashes'
      BY <1>n, <2>5, <2>7, <2>8, <2>9 DEF CookiesGiven
    <2> QED
      BY <2>1, <2>2, <2>4, <2>5, <2>6, <2>8, <2>10, PasswordChosen
  <1>3. ASSUME ChangePassword(v) PROVE AccountInv'
    <2> DEFINE S == Of("reset") \cup IF login.role = "collaborator" THEN Of("invite") ELSE {}
    <2>1. /\ Choose(login.pending) /\ letters' = Spent(S)
          /\ Goes(v) /\ UNCHANGED <<cookies, revoked, moved>>
      BY <1>3 DEF ChangePassword
    <2>2. /\ \A x \in Letters : Stays(x) /\ (x \in S => letters'[x].used)
          /\ letters' \in [Letters -> Letter]
          /\ \A x \in Letters : letters'[x].uses > 0 => letters'[x].used
      BY <2>1, LettersStay
    <2>3. \A x \in Of("reset") : letters'[x].used
      BY <2>2 DEF Of
    <2>4. NewLogin /\ hashes < MaxHash /\ hashes' = hashes + 1 /\ ended' = Given
      BY <2>1, ChosenLogin, AccountTypes DEF Choose
    <2>5. /\ visitor' \in [Visitors -> Visitor]
          /\ \A w \in Visitors : visitor'[w] = visitor[w] \/ HoldsWell(w)
      BY <1>n, <2>1, <2>4, Answered
    <2> QED
      BY <1>c, <2>1, <2>2, <2>3, <2>4, <2>5, PasswordChosen
  <1>4. ASSUME AcceptInvitation(v) PROVE AccountInv'
    <2> DEFINE l == visitor[v].letter
    <2>1. /\ visitor[v].phase = "opened" /\ letters[l].kind = "invite" /\ ~letters[l].used
          /\ hashes < MaxHash /\ hashes' = hashes + 1 /\ login.version < MaxVersion
          /\ login' = [login EXCEPT !.password = hashes', !.hash = hashes', !.pending = FALSE,
                                    !.version = @ + 1]
          /\ letters' = Uses(Spent(Of("invite") \cup Of("reset")), l)
          /\ Goes(v) /\ UNCHANGED <<cookies, revoked, moved>> /\ ended' = Given
      BY <1>4 DEF AcceptInvitation, InvitationHolds, Unused
    <2>2. l \in Letters /\ login.role = "collaborator"
      BY <2>1 DEF RoleParts, Of
    <2>3. /\ \A x \in Letters : Stays(x) \/ IsUsed(x)
          /\ letters' \in [Letters -> Letter]
          /\ \A x \in Letters : letters'[x].uses > 0 => letters'[x].used
      <3> HIDE DEF l
      <3> QED
        BY <2>1, <2>2, LettersUsed
    <2>4. NewLogin
      <3>1. /\ login \in Login /\ hashes' \in 0..MaxHash
            /\ login.version \in Nat /\ login.version + 1 \in 0..MaxVersion
        BY <1>n, <2>1, AccountTypes DEF AccountsTypeOK
      <3>2. /\ login' \in Login /\ login'.role = login.role /\ login'.hash = hashes'
            /\ login'.email = login.email /\ login'.active = login.active
            /\ login'.version = login.version + 1 /\ login'.password = hashes'
        BY <2>1, <3>1 DEF Login
      <3> QED
        BY <3>1, <3>2 DEF NewLogin
    <2>5. /\ visitor' \in [Visitors -> Visitor]
          /\ \A w \in Visitors : visitor'[w] = visitor[w] \/ HoldsWell(w)
      BY <1>n, <2>1, Answered
    <2> QED
      BY <1>c, <2>1, <2>2, <2>3, <2>4, <2>5, PasswordChosen
  <1>5. ASSUME CommitLogin(v) PROVE AccountInv'
    <2> DEFINE holds == [visitor[v] EXCEPT !.phase = "committed"]
    <2>1. /\ visitor[v].phase = "verified" /\ UNCHANGED <<letters, cookies, revoked, moved>>
          /\ visitor' = [visitor EXCEPT ![v] = holds]
      BY <1>5 DEF CommitLogin
    <2>2. /\ login.role # "user" /\ visitor[v].seen.password <= hashes
          /\ visitor[v].seen.password \in 0..MaxHash
      BY <2>1, AccountTypes DEF RoleParts, Credentials
    <2>3. holds \in Visitor /\ holds.phase = "committed" /\ holds.seen = visitor[v].seen
      BY AccountTypes DEF Visitor
    <2> HIDE DEF holds
    <2>4. visitor' \in [Visitors -> Visitor] /\ visitor'[v] = holds
          /\ \A w \in Visitors \ {v} : visitor'[w] = visitor[w]
      BY <2>1, <2>3, GoesFields
    <2>5. hashes' \in Nat /\ hashes <= hashes' =>
            \A w \in Visitors : visitor'[w] = visitor[w] \/ HoldsWell(w)
      BY <1>n, <2>2, <2>3, <2>4 DEF HoldsWell
    <2>6. CASE UNCHANGED <<login, ended, hashes>>
      <3>1. AccountsTypeOK'
        BY <2>1, <2>4, <2>6 DEF AccountsTypeOK
      <3>2. RoleParts' /\ SessionParts' /\ LetterParts'
        BY <1>n, <1>c, <2>1, <2>5, <2>6, <3>1, AccountUntouched
      <3> QED
        BY <3>1, <3>2
    <2>7. CASE /\ hashes < MaxHash /\ hashes' = hashes + 1 /\ ended' = Given
               /\ login' = [login EXCEPT !.password = visitor[v].seen.password, !.hash = hashes']
      <3>1. NewLogin
        <4>1. login \in Login /\ hashes' \in 0..MaxHash /\ login.version \in Nat
          BY <1>n, <2>7, AccountTypes DEF AccountsTypeOK
        <4>2. /\ login' \in Login /\ login'.role = login.role /\ login'.hash = hashes'
              /\ login'.email = login.email /\ login'.active = login.active
              /\ login'.version = login.version /\ login'.password = visitor[v].seen.password
          BY <2>2, <2>7, <4>1 DEF Login
        <4> QED
          BY <1>n, <2>2, <2>7, <4>1, <4>2 DEF NewLogin
      <3>2. \A x \in Letters : Stays(x)
        BY <2>1 DEF Stays
      <3>3. /\ letters' \in [Letters -> Letter]
            /\ \A x \in Letters : letters'[x].uses > 0 => letters'[x].used
        BY <2>1 DEF AccountsTypeOK
      <3> QED
        BY <1>n, <1>c, <2>1, <2>2, <2>4, <2>5, <2>7, <3>1, <3>2, <3>3, PasswordChosen
    <2> QED
      BY <1>5, <2>6, <2>7 DEF CommitLogin
  <1> QED
    BY <1>1, <1>2, <1>3, <1>4, <1>5

(* A step that chooses no password: the account, its letters and sessions  *)
(* change as the address, the version and the closing of a driver ask.     *)
LEMMA OfficeChange ==
  ASSUME AccountInv, UNCHANGED <<cookies, revoked, hashes>>,
         login' \in Login, login'.role = login.role, login'.password = login.password,
         login'.hash = login.hash,
         visitor' \in [Visitors -> Visitor],
         \A v \in Visitors : visitor'[v] = visitor[v] \/ HoldsWell(v),
         letters' \in [Letters -> Letter],
         \A l \in Letters : letters'[l].uses > 0 => letters'[l].used,
         \A l \in Letters : \/ Stays(l)
                            \/ /\ IsNew(l)
                               /\ \/ letters'[l].kind = "reset"
                                  \/ letters'[l].kind = "setup" /\ login.role = "driver"
                                  \/ letters'[l].kind = "invite" /\ login.role = "collaborator",
         \/ login'.email = login.email
         \/ \A l \in Of("reset") : letters'[l].used
         \/ login.role # "user",
         \/ moved' = moved
         \/ /\ moved' = Made
            /\ login.role # "driver" => \A l \in Of("reset") \cup Of("invite") : letters'[l].used,
         \/ /\ ended' = ended /\ login'.version = login.version
            /\ login.role = "driver" /\ ~login.active => ~login'.active
         \/ /\ ended' = Given /\ login'.version >= login.version
            /\ \/ login.role = "collaborator" /\ login'.version > login.version
               \/ login.role = "driver" /\ ~login'.active
  PROVE  AccountInv'
  <1> USE DEF AccountInv
  <1>1. hashes \in Nat /\ login.hash \in Nat /\ login.hash <= hashes
    BY AccountTypes, AccountsAssumption DEF AccountsTypeOK, RoleParts
  <1>2. AccountsTypeOK'
    BY DEF AccountsTypeOK, Given, Made
  <1>3. CookiesGiven
    BY DEF CookiesGiven
  <1>4. SessionParts'
    <2>1. login'.hash >= login.hash
      BY <1>1
    <2> QED
      BY <1>2, <1>3, <2>1, SessionsStay, SessionsEnd
  <1>5. RoleParts'
    <2>1. \A l \in Letters : letters'[l].kind = letters[l].kind \/ letters'[l].kind = "reset"
                             \/ (letters'[l].kind = "setup" /\ login.role = "driver")
                             \/ (letters'[l].kind = "invite" /\ login.role = "collaborator")
      BY DEF Stays
    <2>2. hashes <= hashes' /\ login'.hash <= hashes'
      BY <1>1
    <2> QED
      BY <1>2, <2>1, <2>2, RolesKeep
  <1>6. LetterParts'
    <2>1. \A l \in Letters : Stays(l) \/ IsUsed(l) \/ IsNew(l)
      OBVIOUS
    <2> QED
      BY <2>1, LettersMove
  <1> QED
    BY <1>2, <1>4, <1>5, <1>6

(* The letters that the office and a request for a reset send, and those   *)
(* that end on their way.                                                  *)
LEMMA LetterActions ==
  ASSUME AccountInv, NEW l \in Letters,
         \/ InviteDriver(l) \/ InviteAgain(l) \/ LetterExpires(l)
         \/ \E stops \in BOOLEAN : RequestReset(l, stops)
         \/ \E mailed \in BOOLEAN : AcknowledgeLetter(l, mailed)
  PROVE  AccountInv'
  <1> USE DEF AccountInv
  <1>1. /\ UNCHANGED <<login, cookies, revoked, hashes, ended, moved>>
        /\ login \in Login /\ login.email \in Mailboxes
    BY AccountTypes DEF InviteDriver, InviteAgain, LetterExpires, RequestReset, AcknowledgeLetter,
       AccountsTypeOK
  <1>2. /\ visitor' \in [Visitors -> Visitor]
        /\ \A v \in Visitors : visitor'[v] = visitor[v] \/ HoldsWell(v)
    <2>1. CASE InviteDriver(l)
      <3>1. \A v \in Visitors : visitor'[v] = visitor[v] \/ visitor'[v] = Away
        BY <2>1 DEF InviteDriver
      <3>2. visitor' = [v \in Visitors |-> visitor'[v]]
        BY <2>1 DEF InviteDriver
      <3>3. \A v \in Visitors : visitor'[v] \in Visitor
        BY <3>1, AwayFields, AccountTypes
      <3>4. 0 <= hashes'
        BY <1>1, AccountsAssumption DEF AccountsTypeOK
      <3> QED
        BY <3>1, <3>2, <3>3, <3>4, AwayFields DEF HoldsWell
    <2>2. CASE visitor' = visitor
      BY <2>2 DEF AccountsTypeOK
    <2> QED
      BY <2>1, <2>2 DEF InviteAgain, LetterExpires, RequestReset, AcknowledgeLetter
  <1>3. ASSUME letters' \in [Letters -> Letter],
               \A x \in Letters : letters'[x].uses > 0 => letters'[x].used,
               \A x \in Letters : \/ Stays(x)
                            \/ /\ IsNew(x)
                               /\ \/ letters'[x].kind = "reset"
                                  \/ letters'[x].kind = "setup" /\ login.role = "driver"
                                  \/ letters'[x].kind = "invite" /\ login.role = "collaborator"
        PROVE  AccountInv'
    BY <1>1, <1>2, <1>3, OfficeChange
  <1>4. \A x \in Letters : letters[x] \in Letter /\ (letters[x].uses > 0 => letters[x].used)
    BY DEF AccountsTypeOK
  <1>5. CASE InviteDriver(l)
    <2>1. /\ login.role = "driver" /\ letters[l].kind = "none"
          /\ letters' = [Spent(SetupSpends) EXCEPT ![l] = Written(l, "setup", login.email)]
      BY <1>5 DEF InviteDriver
    <2> DEFINE new == Written(l, "setup", login.email)
    <2>2. new \in Letter /\ new.kind = "setup" /\ new.uses = 0
      BY <1>1, WrittenFields
    <2> HIDE DEF new
    <2>3. \A x \in Letters : letters'[x] = IF x = l THEN new
            ELSE IF x \in SetupSpends THEN [letters[x] EXCEPT !.used = TRUE] ELSE letters[x]
      BY <2>1 DEF Spent, new
    <2>4. letters' = [x \in Letters |-> letters'[x]]
      BY <2>1 DEF Spent
    <2>5. letters'[l] = new /\ IsNew(l)
      BY <2>1, <2>2, <2>3 DEF IsNew
    <2>6. ASSUME NEW x \in Letters, x # l
          PROVE  Stays(x) /\ letters'[x] \in Letter /\ (letters'[x].uses > 0 => letters'[x].used)
      <3>1. letters'[x] = IF x \in SetupSpends THEN [letters[x] EXCEPT !.used = TRUE] ELSE letters[x]
        BY <2>3, <2>6
      <3> QED
        BY <1>4, <3>1 DEF Stays, Letter
    <2>7. \A x \in Letters : letters'[x] \in Letter /\ (letters'[x].uses > 0 => letters'[x].used)
      BY <2>2, <2>5, <2>6
    <2>8. letters' \in [Letters -> Letter]
      BY <2>4, <2>7
    <2> QED
      BY <1>3, <2>1, <2>2, <2>5, <2>6, <2>7, <2>8
  <1>6. CASE InviteAgain(l)
    <2>1. login.role = "collaborator" /\ letters[l].kind = "none"
      BY <1>6 DEF InviteAgain
    <2>2. letters' = Issued(Spent({}), l, login.email)
      BY <1>6, NoneSpent DEF InviteAgain
    <2>3. /\ \A x \in Letters : Stays(x) \/ (IsNew(x) /\ letters'[x].kind = "invite")
          /\ letters' \in [Letters -> Letter]
          /\ \A x \in Letters : letters'[x].uses > 0 => letters'[x].used
      BY <1>1, <2>1, <2>2, LettersIssued
    <2> QED
      BY <1>3, <2>1, <2>3
  <1>7. CASE LetterExpires(l)
    <2>1. letters' = Spent({l})
      BY <1>7 DEF LetterExpires
    <2> QED
      BY <1>3, <2>1, LettersStay
  <1>8. ASSUME NEW stops \in BOOLEAN, RequestReset(l, stops) PROVE AccountInv'
    <2> DEFINE new == [Written(l, "reset", login.email) EXCEPT !.used = stops]
    <2>1. letters[l].kind = "none" /\ letters' = [letters EXCEPT ![l] = new]
      BY <1>8 DEF RequestReset
    <2>2. /\ new \in Letter /\ new.kind = "reset" /\ new.uses = 0
          /\ new.password = login.password
      BY <1>1, WrittenFields DEF Letter
    <2> HIDE DEF new
    <2>3. letters'[l] = new /\ \A x \in Letters \ {l} : letters'[x] = letters[x]
      BY <2>1 DEF AccountsTypeOK
    <2>4. IsNew(l) /\ letters'[l].kind = "reset"
      BY <1>1, <2>1, <2>2, <2>3 DEF IsNew
    <2>5. \A x \in Letters \ {l} : Stays(x)
      BY <2>3 DEF Stays
    <2>6. letters' \in [Letters -> Letter]
      BY <2>1, <2>2 DEF AccountsTypeOK
    <2> QED
      BY <1>3, <1>4, <2>2, <2>3, <2>4, <2>5, <2>6
  <1>9. ASSUME NEW mailed \in BOOLEAN, AcknowledgeLetter(l, mailed) PROVE AccountInv'
    <2> DEFINE new == IF mailed THEN [letters[l] EXCEPT !.sent = TRUE]
                              ELSE [letters[l] EXCEPT !.used = TRUE]
    <2>1. letters' = [letters EXCEPT ![l] = new]
      BY <1>9 DEF AcknowledgeLetter
    <2>2. /\ new \in Letter /\ new.kind = letters[l].kind /\ new.email = letters[l].email
          /\ new.password = letters[l].password /\ new.uses = letters[l].uses
          /\ letters[l].used => new.used
      BY <1>4 DEF Letter
    <2> HIDE DEF new
    <2>3. letters'[l] = new /\ \A x \in Letters \ {l} : letters'[x] = letters[x]
      BY <2>1 DEF AccountsTypeOK
    <2>4. \A x \in Letters : Stays(x)
      BY <2>2, <2>3 DEF Stays
    <2>5. letters' \in [Letters -> Letter]
      BY <2>1, <2>2 DEF AccountsTypeOK
    <2> QED
      BY <1>3, <1>4, <2>2, <2>3, <2>4, <2>5
  <1> QED
    BY <1>5, <1>6, <1>7, <1>8, <1>9

(* The changes of an account that choose no password.                      *)
LEMMA RecordActions ==
  ASSUME AccountInv, NEW email \in Mailboxes,
         \/ SaveDriver(email)
         \/ ArchiveDriver
         \/ \E v \in Visitors : ChangeProfile(v, email)
         \/ \E active \in BOOLEAN, l \in Letters : SaveCollaborator(email, active, l)
  PROVE  AccountInv'
  <1> USE DEF AccountInv
  <1>1. login \in Login /\ hashes \in Nat /\ MaxVersion \in Nat /\ login.version \in 0..MaxVersion
    BY AccountTypes, AccountsAssumption DEF AccountsTypeOK
  <1>2. visitor' = visitor => /\ visitor' \in [Visitors -> Visitor]
                              /\ \A v \in Visitors : visitor'[v] = visitor[v] \/ HoldsWell(v)
    BY DEF AccountsTypeOK
  <1>3. letters' = letters => /\ \A l \in Letters : Stays(l)
                              /\ letters' \in [Letters -> Letter]
                              /\ \A l \in Letters : letters'[l].uses > 0 => letters'[l].used
    BY DEF AccountsTypeOK, Stays
  <1>4. CASE SaveDriver(email)
    <2>1. /\ login.role = "driver" /\ login.active /\ login' = [login EXCEPT !.email = email]
          /\ moved' = Made /\ UNCHANGED <<letters, cookies, revoked, visitor, hashes, ended>>
      BY <1>4 DEF SaveDriver
    <2>2. /\ login' \in Login /\ login'.role = login.role /\ login'.password = login.password
          /\ login'.hash = login.hash /\ login'.version = login.version
      BY <1>1, <2>1 DEF Login
    <2> QED
      BY <1>2, <1>3, <2>1, <2>2, OfficeChange
  <1>5. CASE ArchiveDriver
    <2>1. /\ login.role = "driver" /\ login' = [login EXCEPT !.active = FALSE]
          /\ ended' = Given /\ UNCHANGED <<letters, cookies, revoked, visitor, hashes, moved>>
      BY <1>5 DEF ArchiveDriver
    <2>2. /\ login' \in Login /\ login'.role = login.role /\ login'.password = login.password
          /\ login'.hash = login.hash /\ login'.version = login.version
          /\ login'.email = login.email /\ ~login'.active
      BY <1>1, <2>1 DEF Login
    <2>3. login'.version >= login.version
      BY <1>1, <2>2
    <2> QED
      BY <1>2, <1>3, <2>1, <2>2, <2>3, OfficeChange
  <1>6. ASSUME NEW v \in Visitors, ChangeProfile(v, email) PROVE AccountInv'
    <2>1. /\ login.role = "user" /\ login' = [login EXCEPT !.email = email]
          /\ letters' = Spent(ProfileSpends(email))
          /\ moved' = IF email = login.email THEN moved ELSE Made
          /\ Goes(v) /\ UNCHANGED <<cookies, revoked, hashes, ended>>
      BY <1>6 DEF ChangeProfile
    <2>2. /\ login' \in Login /\ login'.role = login.role /\ login'.password = login.password
          /\ login'.hash = login.hash /\ login'.version = login.version /\ login'.email = email
      BY <1>1, <2>1 DEF Login
    <2>3. PICK S : S = ProfileSpends(email)
      OBVIOUS
    <2>4. /\ \A x \in Letters : Stays(x) /\ (x \in S => letters'[x].used)
          /\ letters' \in [Letters -> Letter]
          /\ \A x \in Letters : letters'[x].uses > 0 => letters'[x].used
      BY <2>1, <2>3, LettersStay
    <2>5. email # login.email => \A x \in Of("reset") \cup Of("invite") : letters'[x].used
      BY <2>1, <2>3, <2>4 DEF ProfileSpends, Of, RoleParts
    <2>6. /\ visitor' \in [Visitors -> Visitor]
          /\ \A w \in Visitors : visitor'[w] = visitor[w] \/ HoldsWell(w)
      BY <1>1, <2>1, Answered
    <2>7. \/ login'.email = login.email
          \/ \A l \in Of("reset") : letters'[l].used
      BY <2>2, <2>5
    <2>8. \/ moved' = moved
          \/ moved' = Made /\ (login.role # "driver" =>
                                 \A l \in Of("reset") \cup Of("invite") : letters'[l].used)
      BY <2>1, <2>5
    <2> QED
      BY <2>1, <2>2, <2>4, <2>6, <2>7, <2>8, OfficeChange
  <1>7. ASSUME NEW active \in BOOLEAN, NEW l \in Letters, SaveCollaborator(email, active, l)
        PROVE  AccountInv'
    <2> DEFINE changed == email # login.email
               pending == login.pending \/ changed
               sends == active /\ pending /\ (changed \/ ~login.active)
               revokes == changed \/ (login.active /\ ~active)
               ends == IF revokes THEN Of("reset") \cup Of("invite") ELSE {}
    <2>1. /\ login.role = "collaborator"
          /\ sends => letters[l].kind = "none"
          /\ revokes => login.version < MaxVersion
          /\ login' = [login EXCEPT !.email = email, !.active = active, !.pending = pending,
                                    !.version = IF revokes THEN @ + 1 ELSE @]
          /\ ended' = IF revokes THEN Given ELSE ended
          /\ moved' = IF changed THEN Made ELSE moved
          /\ UNCHANGED <<cookies, revoked, visitor, hashes>>
      BY <1>7 DEF SaveCollaborator
    <2>2. letters' = IF sends THEN Issued(Spent(ends), l, email) ELSE Spent(ends)
      BY <1>7, NoneSpent DEF SaveCollaborator
    <2>3. changed => revokes
      OBVIOUS
    <2>4. pending \in BOOLEAN /\ (~changed => email = login.email)
      BY <1>1 DEF Login
    <2>5. \A x \in Of("reset") \cup Of("invite") : revokes => x \in ends
      OBVIOUS
    <2> HIDE DEF changed, pending, sends, revokes, ends
    <2>6. /\ login' \in Login /\ login'.role = login.role /\ login'.password = login.password
          /\ login'.hash = login.hash /\ login'.email = email
          /\ login'.version = IF revokes THEN login.version + 1 ELSE login.version
      <3> DEFINE version == IF revokes THEN login.version + 1 ELSE login.version
      <3>1. version \in 0..MaxVersion
        BY <1>1, <2>1
      <3>2. login' = [login EXCEPT !.email = email, !.active = active, !.pending = pending,
                                   !.version = version]
        BY <1>1, <2>1 DEF Login
      <3> HIDE DEF version
      <3>3. /\ login' \in Login /\ login'.role = login.role /\ login'.password = login.password
            /\ login'.hash = login.hash /\ login'.email = email /\ login'.version = version
        BY <1>1, <2>4, <3>1, <3>2 DEF Login
      <3> QED
        BY <3>3 DEF version
    <2>7. /\ \A x \in Letters : Stays(x) \/ (IsNew(x) /\ letters'[x].kind = "invite")
          /\ \A x \in Letters : x \in ends /\ letters[x].kind # "none" => letters'[x].used
          /\ letters' \in [Letters -> Letter]
          /\ \A x \in Letters : letters'[x].uses > 0 => letters'[x].used
      <3>1. CASE sends
        <4>1. letters' = Issued(Spent(ends), l, email) /\ letters[l].kind = "none"
          BY <2>1, <2>2, <3>1
        <4> QED
          BY <4>1, LettersIssued
      <3>2. CASE ~sends
        <4>1. letters' = Spent(ends)
          BY <2>2, <3>2
        <4> QED
          BY <4>1, LettersStay
      <3> QED
        BY <3>1, <3>2
    <2>8. revokes => \A x \in Of("reset") \cup Of("invite") : letters'[x].used
      BY <2>5, <2>7 DEF Of
    <2>9. \/ moved' = moved
          \/ moved' = Made /\ (login.role # "driver" =>
                                 \A x \in Of("reset") \cup Of("invite") : letters'[x].used)
      BY <2>1, <2>3, <2>8
    <2>10. \/ ended' = ended /\ login'.version = login.version
           \/ ended' = Given /\ login'.version > login.version /\ login'.version >= login.version
      BY <1>1, <2>1, <2>6
    <2>11. login.role # "user" /\ login.role # "driver"
      BY <2>1
    <2> QED
      BY <1>2, <2>1, <2>6, <2>7, <2>9, <2>10, <2>11, OfficeChange
  <1> QED
    BY <1>4, <1>5, <1>6, <1>7

(* Every step of an account keeps the invariant. *)
LEMMA AccountStep == AccountInv /\ [AccountsNext]_accountVars => AccountInv'
  <1> SUFFICES ASSUME AccountInv, [AccountsNext]_accountVars PROVE AccountInv'
    OBVIOUS
  <1>1. CASE UNCHANGED accountVars
    BY <1>1 DEF accountVars, AccountInv, AccountsTypeOK, RoleParts, Of, SessionParts, Surpassed, Given,
       Made, Credential, LetterParts, LinksWorkOnce, ResetEndsOtherLinks, AddressEndsLinks, Unused
  <1>2. CASE OfficeNext
    <2>1. login.email \in Mailboxes
      BY AccountTypes DEF AccountInv
    <2>2. ASSUME NEW c \in Cookies, LogInOwner(c) \/ LogOut(c) PROVE AccountInv'
      BY <2>2, QuietActions
    <2>3. ASSUME NEW l \in Letters,
                 \/ InviteDriver(l) \/ InviteAgain(l) \/ LetterExpires(l)
                 \/ \E stops \in BOOLEAN : RequestReset(l, stops)
                 \/ \E mailed \in BOOLEAN : AcknowledgeLetter(l, mailed)
          PROVE  AccountInv'
      BY <2>3, LetterActions
    <2>4. ASSUME NEW l \in Letters, NEW email \in Mailboxes, NEW active \in BOOLEAN,
                 SaveCollaborator(email, active, l)
          PROVE  AccountInv'
      BY <2>4, RecordActions
    <2>5. ASSUME NEW email \in Mailboxes, SaveDriver(email) PROVE AccountInv'
      BY <2>5, RecordActions
    <2>6. CASE ArchiveDriver
      BY <2>1, <2>6, RecordActions
    <2> QED
      BY <1>2, <2>2, <2>3, <2>4, <2>5, <2>6 DEF OfficeNext
  <1>3. ASSUME NEW v \in Visitors, VisitorNext(v) PROVE AccountInv'
    <2>1. CASE VerifyPassword(v) \/ GiveUp(v)
      BY <2>1, QuietActions
    <2>2. ASSUME NEW c \in Cookies, LogIn(v, c) \/ Authenticate(v, c) PROVE AccountInv'
      BY <2>2, QuietActions
    <2>3. ASSUME NEW l \in Letters, OpenLetter(v, l) PROVE AccountInv'
      BY <2>3, QuietActions
    <2>4. CASE ConfirmReset(v) \/ ChangePassword(v) \/ AcceptInvitation(v) \/ CommitLogin(v)
      BY <2>4, PasswordActions
    <2>5. ASSUME NEW c \in Cookies, CompleteSetup(v, c) PROVE AccountInv'
      BY <2>5, PasswordActions
    <2>6. ASSUME NEW email \in Mailboxes, ChangeProfile(v, email) PROVE AccountInv'
      BY <2>6, RecordActions
    <2> QED
      BY <1>3, <2>1, <2>2, <2>3, <2>4, <2>5, <2>6 DEF VisitorNext
  <1> QED
    BY <1>1, <1>2, <1>3 DEF AccountsNext

(* No session and no letter is there at first.                             *)
LEMMA AccountBegins == AccountsInit => AccountInv
  <1> SUFFICES ASSUME AccountsInit PROVE AccountInv
    OBVIOUS
  <1>1. MaxHash \in Nat \ {0} /\ MaxVersion \in Nat /\ NoMailbox \notin Mailboxes
    BY AccountsAssumption
  <1>2. /\ login \in [role : Roles, password : {0, 1}, hash : {0, 1}, version : {0},
                      email : Mailboxes, active : {TRUE}, pending : BOOLEAN]
        /\ letters = [l \in Letters |-> NotWritten]
        /\ cookies = [c \in Cookies |-> NoCredential]
        /\ revoked = {} /\ visitor = [v \in Visitors |-> Away]
        /\ hashes = 1 /\ ended = {} /\ moved = {}
    BY DEF AccountsInit
  <1>3. /\ login \in Login /\ hashes \in 1..MaxHash /\ login.password <= hashes
        /\ login.hash <= hashes
    <2>1. /\ 0 \in 0..MaxHash /\ 1 \in 0..MaxHash /\ 0 \in 0..MaxVersion /\ 1 \in 1..MaxHash
      BY <1>1
    <2>2. /\ login \in Login
          /\ login.hash \in {0, 1} /\ login.password \in {0, 1}
      BY <1>2, <2>1 DEF Login
    <2> QED
      BY <1>2, <2>1, <2>2
  <1>4. NotWritten \in Letter /\ NotWritten.kind = "none" /\ NotWritten.uses = 0
    BY <1>1 DEF NotWritten, Letter
  <1>5. \A l \in Letters : letters[l] = NotWritten
    BY <1>2
  <1>6. \A c \in Cookies : cookies[c] = NoCredential
    BY <1>2
  <1>7. \A v \in Visitors : visitor[v] = Away
    BY <1>2
  <1>8. AccountsTypeOK
    BY <1>2, <1>3, <1>4, <1>5, <1>6, <1>7, AwayFields DEF AccountsTypeOK
  <1>9. RoleParts
    BY <1>2, <1>3, <1>4, <1>5, <1>6, <1>7, AwayFields DEF RoleParts, Of
  <1>10. SessionParts
    BY <1>2, <1>6 DEF SessionParts, Given
  <1>11. LetterParts
    BY <1>2, <1>4, <1>5 DEF LetterParts, LinksWorkOnce, ResetEndsOtherLinks, AddressEndsLinks, Of
  <1> QED
    BY <1>8, <1>9, <1>10, <1>11 DEF AccountInv

(* Sessions that a new password, a new address or a closed account ended   *)
(* never work again; no letter is used twice, and none outlives the        *)
(* password or the address it was made for (auth.py, collaborators.py).    *)
THEOREM CredentialsEnd == AccountsSpec => []CredentialsEndForGood
  <1>1. AccountsInit => AccountInv
    BY AccountBegins
  <1>2. AccountInv => CredentialsEndForGood
    <2> SUFFICES ASSUME AccountInv, NEW c \in ended, Works(c) PROVE FALSE
      BY DEF AccountInv, LetterParts, CredentialsEndForGood, SessionsEndForGood
    <2>1. Surpassed(c) /\ c \in Cookies /\ AccountsTypeOK
      BY DEF AccountInv, SessionParts, AccountsTypeOK
    <2>2. cookies[c] = Credential /\ ActiveIdentity
      BY DEF Works
    <2>3. /\ Credential.hash = login.hash /\ login.hash \in Nat /\ Credential.version \in Nat
      BY <2>1, AccountTypes
    <2>4. login.role = "driver" /\ ~login.active
      BY <2>1, <2>2, <2>3 DEF Surpassed
    <2> QED
      BY <2>2, <2>4 DEF ActiveIdentity
  <1> QED
    BY <1>1, <1>2, AccountStep, PTL DEF AccountsSpec

-----------------------------------------------------------------------------
(* Billing: the inductive invariant.  What is held, what was paid, which   *)
(* session may still be paid, which plan follows and what is still to be   *)
(* told are kept up together by every step.                                *)

(* A request that has, or asks for, the state of a subscription.           *)
Busy(r) == billing[r].phase \in {"selected", "syncing"}
Syncing(r) == billing[r].phase = "syncing"

(* The subscription and the notification of a request are there.           *)
RequestHolds(r) ==
  /\ billing[r].phase = "scheduling" => account.sub # NoSubscription
  /\ billing[r].phase = "selected" => ~billing[r].clears
  /\ Syncing(r) => billing[r].sub # NoSubscription /\ billing[r].seen.status # "none"
  /\ Busy(r) => /\ billing[r].event \in sent \cup {NoEvent}
                /\ IF billing[r].sub = NoSubscription THEN account.sub = NoSubscription
                   ELSE subs[billing[r].sub].status # "none"

(* A notification is of a change that was made.                            *)
SentHold == \A e \in sent : e.change <= changes /\ subs[e.sub].status # "none"

OneLocks ==
  \A r, q \in BillingRequests :
    /\ billing[r].phase \in {"creating", "selected", "syncing"}
    /\ billing[q].phase \in {"creating", "selected", "syncing"}
    => r = q

(* One request has the lock, what is named is there, and a plan is known   *)
(* where one is bought.                                                    *)
RequestsHold ==
  /\ OneLocks
  /\ account.sub # NoSubscription => subs[account.sub].status # "none"
  /\ SentHold
  /\ \A r \in BillingRequests : RequestHolds(r)
  /\ \A k \in CheckoutKeys : sessions[k].status # "none" => sessions[k].plan \in Plans
  /\ account.checkout.key # NoKey => account.checkout.plan \in Plans
  /\ \A s \in Subscriptions : subs[s].status # "none" => subs[s].plan \in Plans

(* What was paid and what was not, of a subscription and of what a request *)
(* has read of one.                                                        *)
MoneyOf(s) ==
  /\ subs[s].paid => subs[s].plan \in past.paid
  /\ subs[s].status = "active" /\ ~subs[s].paid => s \in past.lapsed
  /\ subs[s].status = "past_due" => s \in past.lapsed
  /\ subs[s].status = "canceled" => s \in past.lapsed \/ s \notin past.settled
  /\ subs[s].status \in {"none", "incomplete"} => s \notin past.settled

SeenHolds(r) ==
  /\ billing[r].seen.paid => billing[r].seen.plan \in past.paid
  /\ billing[r].seen.status = "active" /\ ~billing[r].seen.paid => billing[r].sub \in past.lapsed
  /\ billing[r].seen.status = "past_due" => billing[r].sub \in past.lapsed
  /\ billing[r].seen.status = "canceled" => subs[billing[r].sub].status = "canceled"

MoneyHolds ==
  /\ \A s \in Subscriptions : MoneyOf(s)
  /\ \A r \in BillingRequests : Syncing(r) => SeenHolds(r)
  /\ ActivePlanWasPaid
  /\ mails <= IF account.noticed THEN 1 ELSE 0

(* While the row let go of no session that was open: it has the only one,  *)
(* with its time, and a subscription that is alive is the only one and     *)
(* leaves no session that may still be paid.                               *)
SessionsHold ==
  /\ \A k \in CheckoutKeys : sessions[k].status = "open" => k \notin late
  /\ ~past.doubled =>
       /\ \A k \in CheckoutKeys : sessions[k].status = "open" =>
            account.checkout.key = k /\ account.checkout.timed
       /\ \A s, t \in LiveSubs : s = t
       /\ LiveSubs # {} =>
            \A k \in CheckoutKeys :
              /\ sessions[k].status # "open"
              /\ account.checkout.key = k => sessions[k].status # "none"

(* A schedule is of the subscription of the account and shown, or has      *)
(* become the plan; what a request read of it did not change.              *)
Shown(s) ==
  \/ account.pending = subs[s].schedule
  \/ account.pending = 0 /\ subs[s].schedule = subs[s].plan /\ subs[s].update = 0

Untouched(s, r) ==
  /\ billing[r].sub = s /\ ~billing[r].clears
  /\ Syncing(r) /\ billing[r].seen.status = "active" /\ billing[r].seen.paid
                /\ billing[r].seen.update = 0
     => subs[s].update = 0 /\ subs[s].plan = billing[r].seen.plan

ScheduleOf(s) ==
  /\ account.sub = s /\ Shown(s)
  /\ \A r \in BillingRequests : Busy(r) => Untouched(s, r)

SchedulesHold ==
  /\ \A s \in Subscriptions : subs[s].status \in {"none", "canceled"} => subs[s].schedule = 0
  /\ ~past.cut /\ ~past.doubled =>
       \A s \in Subscriptions : subs[s].schedule # 0 => ScheduleOf(s)

(* One more look at x would not change the account.                        *)
Fresh(a, x) ==
  /\ x.status = "active" /\ x.update = 0 /\ x.paid =>
       a.plan = x.plan /\ a.status = "active" /\ a.grace = "none"
         /\ (a.pending = x.plan => a.pending = 0)
  /\ x.status = "active" /\ x.update = 0 /\ ~x.paid => a.status = "incomplete"
  /\ x.status = "past_due" =>
       a.status = "incomplete" \/ (a.status = "past_due" /\ a.grace # "none")
  /\ x.status = "canceled" => a.status = "cancelled" /\ a.grace = "none"
  /\ x.status \in {"none", "incomplete"} => a.status = "incomplete" /\ a.grace = "none"

(* A notification that still comes and makes a request look: one that is   *)
(* not about a subscription always does, the others when it is theirs.     *)
LooksAt(e, s) == e.kind # "subscription" \/ e.sub = s

NewsOf(r) ==
  /\ \A s \in LiveSubs : s # billing[r].sub =>
       \E e \in sent \ answered : e.kind # "subscription" /\ e # billing[r].event
  /\ Syncing(r) /\ subs[billing[r].sub] # billing[r].seen =>
       \E e \in sent \ answered : LooksAt(e, billing[r].sub) /\ e # billing[r].event

NewsHolds ==
  /\ IsFiniteSet(LiveSubs)
  /\ \A s \in LiveSubs : s # account.sub => \E e \in sent \ answered : e.kind # "subscription"
  /\ \A s \in Subscriptions : s = account.sub =>
       Fresh(account, subs[s]) \/ \E e \in sent \ answered : LooksAt(e, s)
  /\ \A r \in BillingRequests : Busy(r) => NewsOf(r)

BillingInv ==
  BillingTypeOK /\ RequestsHold /\ MoneyHolds /\ SessionsHold /\ SchedulesHold /\ NewsHolds

-----------------------------------------------------------------------------

(* The variables of the subscription, field by field.                      *)
LEMMA BillingTypes ==
  ASSUME BillingTypeOK
  PROVE  /\ account \in Account /\ account.checkout \in Checkout
         /\ account.sub \in Subscriptions \cup {NoSubscription}
         /\ account.plan \in Ranks /\ account.pending \in Ranks
         /\ account.status \in {"trial", "active", "incomplete", "past_due", "cancelled"}
         /\ account.grace \in {"none", "running", "over"} /\ account.noticed \in BOOLEAN
         /\ account.checkout.key \in CheckoutKeys \cup {NoKey}
         /\ account.checkout.plan \in Ranks
         /\ account.checkout.ready \in BOOLEAN /\ account.checkout.timed \in BOOLEAN
         /\ \A s \in Subscriptions :
              /\ subs[s] \in Contract /\ subs[s].plan \in Ranks /\ subs[s].paid \in BOOLEAN
              /\ subs[s].status \in {"none", "incomplete", "active", "past_due", "canceled"}
              /\ subs[s].update \in Ranks /\ subs[s].schedule \in Ranks /\ subs[s].ends \in BOOLEAN
         /\ \A k \in CheckoutKeys :
              sessions[k].status \in {"none", "open", "complete", "expired"} /\ sessions[k].plan \in Ranks
         /\ \A r \in BillingRequests :
              /\ billing[r] \in Request /\ billing[r].plan \in Ranks /\ billing[r].clears \in BOOLEAN
              /\ billing[r].sub \in Subscriptions \cup {NoSubscription}
              /\ billing[r].seen \in Contract /\ billing[r].event \in Event \cup {NoEvent}
         /\ past.paid \subseteq Plans /\ past.settled \subseteq Subscriptions
         /\ past.lapsed \subseteq Subscriptions /\ past.doubled \in BOOLEAN /\ past.cut \in BOOLEAN
         /\ changes \in Nat /\ mails \in Nat
<1>1. account \in Account /\ subs \in [Subscriptions -> Contract]
      /\ sessions \in [CheckoutKeys -> [status : {"none", "open", "complete", "expired"}, plan : Ranks]]
      /\ billing \in [BillingRequests -> Request] /\ changes \in 0..MaxChanges /\ mails \in Nat
      /\ past \in [paid : SUBSET Plans, settled : SUBSET Subscriptions, lapsed : SUBSET Subscriptions,
                   doubled : BOOLEAN, cut : BOOLEAN]
  BY DEF BillingTypeOK
<1>2. account.checkout \in Checkout
  BY <1>1 DEF Account
<1>3. \A r \in BillingRequests : billing[r] \in Request
  BY <1>1
<1>4. \A s \in Subscriptions : subs[s] \in Contract
  BY <1>1
<1>5. changes \in Nat
  BY <1>1, BillingAssumption
<1>6. \A k \in CheckoutKeys : sessions[k] \in [status : {"none", "open", "complete", "expired"}, plan : Ranks]
  BY <1>1
<1>7. /\ account.sub \in Subscriptions \cup {NoSubscription}
      /\ account.plan \in Ranks /\ account.pending \in Ranks
      /\ account.status \in {"trial", "active", "incomplete", "past_due", "cancelled"}
      /\ account.grace \in {"none", "running", "over"} /\ account.noticed \in BOOLEAN
  BY <1>1 DEF Account
<1>8. /\ account.checkout.key \in CheckoutKeys \cup {NoKey}
      /\ account.checkout.plan \in Ranks
      /\ account.checkout.ready \in BOOLEAN /\ account.checkout.timed \in BOOLEAN
  BY <1>2 DEF Checkout
<1>9. \A s \in Subscriptions :
        /\ subs[s].plan \in Ranks /\ subs[s].paid \in BOOLEAN
        /\ subs[s].status \in {"none", "incomplete", "active", "past_due", "canceled"}
        /\ subs[s].update \in Ranks /\ subs[s].schedule \in Ranks /\ subs[s].ends \in BOOLEAN
  BY <1>4 DEF Contract
<1>10. \A r \in BillingRequests :
         /\ billing[r].plan \in Ranks /\ billing[r].clears \in BOOLEAN
         /\ billing[r].sub \in Subscriptions \cup {NoSubscription}
         /\ billing[r].seen \in Contract /\ billing[r].event \in Event \cup {NoEvent}
  BY <1>3 DEF Request
<1>11. QED BY <1>1, <1>2, <1>3, <1>4, <1>5, <1>6, <1>7, <1>8, <1>9, <1>10

(* A request that waits holds nothing.                                     *)
LEMMA WaitingType ==
  /\ Waiting \in Request /\ NoContract \in Contract /\ NoCheckout \in Checkout /\ 0 \in Ranks
  /\ Waiting.phase = "idle" /\ Waiting.clears = FALSE /\ Waiting.event = NoEvent
  /\ Waiting.sub = NoSubscription /\ Waiting.seen = NoContract
<1>1. NoContract \in Contract /\ 0 \in Ranks
  BY DEF NoContract, Contract, Ranks
<1>2. NoCheckout \in Checkout
  BY <1>1 DEF NoCheckout, Checkout
<1>3. QED BY <1>1, <1>2 DEF Waiting, Request

(* What is read of a subscription.                                         *)
LEMMA SyncedIs ==
  ASSUME NEW a \in Account, NEW s \in Subscriptions, NEW x \in Contract
  PROVE  /\ Synced(a, s, x) \in Account
         /\ Synced(a, s, x).sub = s
         /\ Synced(a, s, x).checkout = a.checkout /\ Synced(a, s, x).noticed = a.noticed
         /\ Fresh(Synced(a, s, x), x)
         /\ Synced(a, s, x).status = "active" =>
              \/ Synced(a, s, x).plan = x.plan /\ x.paid
              \/ Synced(a, s, x).plan = a.plan /\ a.status = "active"
         /\ Synced(a, s, x).pending =
              IF x.status = "active" /\ x.update = 0 /\ x.paid /\ a.pending = x.plan
              THEN 0 ELSE a.pending
         /\ a.status = "active" /\ Synced(a, s, x).status # "active" =>
              \/ x.status = "active" /\ ~x.paid
              \/ x.status \in {"none", "incomplete", "past_due", "canceled"}
         /\ a.grace = "over" /\ Synced(a, s, x).status = "past_due" => Synced(a, s, x).grace = "over"
<1>1. /\ x.status \in {"none", "incomplete", "active", "past_due", "canceled"}
      /\ x.plan \in Ranks /\ x.paid \in BOOLEAN /\ x.update \in Ranks
  BY DEF Contract
<1>2. CASE x.status = "active" /\ x.update # 0
  <2>1. Synced(a, s, x) = [a EXCEPT !.sub = s]
    BY <1>2 DEF Synced
  <2>2. QED BY <1>1, <1>2, <2>1 DEF Account, Fresh
<1>3. CASE x.status = "active" /\ x.update = 0 /\ x.paid
  <2>1. Synced(a, s, x) = [a EXCEPT !.sub = s, !.plan = x.plan, !.status = "active", !.grace = "none",
                             !.pending = IF @ = x.plan THEN 0 ELSE @]
    BY <1>3 DEF Synced, Account
  <2>2. QED BY <1>1, <1>3, <2>1 DEF Account, Fresh, Ranks
<1>4. CASE x.status = "active" /\ x.update = 0 /\ ~x.paid
  <2>1. Synced(a, s, x) = [a EXCEPT !.sub = s, !.status = "incomplete"]
    BY <1>4 DEF Synced, Account
  <2>2. QED BY <1>1, <1>4, <2>1 DEF Account, Fresh
<1>5. CASE x.status = "past_due" /\ a.status \in {"active", "past_due"}
  <2>1. Synced(a, s, x) = [a EXCEPT !.sub = s, !.status = "past_due",
                             !.grace = IF @ = "none" THEN "running" ELSE @]
    BY <1>5 DEF Synced, Account
  <2>2. QED BY <1>1, <1>5, <2>1 DEF Account, Fresh
<1>6. CASE x.status = "past_due" /\ a.status \notin {"active", "past_due"}
  <2>1. Synced(a, s, x) = [a EXCEPT !.sub = s, !.status = "incomplete"]
    BY <1>6 DEF Synced, Account
  <2>2. QED BY <1>1, <1>6, <2>1 DEF Account, Fresh
<1>7. CASE x.status \in {"none", "incomplete", "canceled"}
  <2>1. Synced(a, s, x) = [a EXCEPT !.sub = s,
                             !.status = IF x.status = "canceled" THEN "cancelled" ELSE "incomplete",
                             !.grace = "none"]
    BY <1>7 DEF Synced, Account
  <2>2. QED BY <1>1, <1>7, <2>1 DEF Account, Fresh
<1>8. QED BY <1>1, <1>2, <1>3, <1>4, <1>5, <1>6, <1>7

(* Two accounts with the same columns are the same.                        *)
LEMMA SameAccount ==
  ASSUME NEW a \in Account, NEW b \in Account, a.sub = b.sub, a.plan = b.plan,
         a.checkout = b.checkout, a.status = b.status, a.grace = b.grace,
         a.pending = b.pending, a.noticed = b.noticed
  PROVE  a = b
BY DEF Account

(* Who is fresh stays what it is.                                          *)
LEMMA FreshStays ==
  ASSUME NEW a \in Account, NEW s \in Subscriptions, NEW x \in Contract, a.sub = s, Fresh(a, x)
  PROVE  Synced(a, s, x) = a
<1>1. /\ x.status \in {"none", "incomplete", "active", "past_due", "canceled"}
      /\ x.plan \in Ranks /\ x.paid \in BOOLEAN /\ x.update \in Ranks
  BY DEF Contract
<1> DEFINE b == Synced(a, s, x)
<1>2. b \in Account
  BY SyncedIs
<1> SUFFICES /\ a.sub = b.sub /\ a.plan = b.plan /\ a.checkout = b.checkout
             /\ a.status = b.status /\ a.grace = b.grace
             /\ a.pending = b.pending /\ a.noticed = b.noticed
  BY <1>2, SameAccount
<1>3. CASE x.status = "active" /\ x.update # 0
  BY <1>3 DEF Synced, Account
<1>4. CASE x.status = "active" /\ x.update = 0 /\ x.paid
  <2>1. Synced(a, s, x) = [a EXCEPT !.sub = s, !.plan = x.plan, !.status = "active", !.grace = "none",
                             !.pending = IF @ = x.plan THEN 0 ELSE @]
    BY <1>4 DEF Synced, Account
  <2>2. QED BY <1>1, <1>4, <2>1 DEF Account, Fresh
<1>5. CASE x.status = "active" /\ x.update = 0 /\ ~x.paid
  <2>1. Synced(a, s, x) = [a EXCEPT !.sub = s, !.status = "incomplete"]
    BY <1>5 DEF Synced, Account
  <2>2. QED BY <1>1, <1>5, <2>1 DEF Account, Fresh
<1>6. CASE x.status = "past_due" /\ a.status \in {"active", "past_due"}
  <2>1. Synced(a, s, x) = [a EXCEPT !.sub = s, !.status = "past_due",
                             !.grace = IF @ = "none" THEN "running" ELSE @]
    BY <1>6 DEF Synced, Account
  <2>2. QED BY <1>1, <1>6, <2>1 DEF Account, Fresh
<1>7. CASE x.status = "past_due" /\ a.status \notin {"active", "past_due"}
  <2>1. Synced(a, s, x) = [a EXCEPT !.sub = s, !.status = "incomplete"]
    BY <1>7 DEF Synced, Account
  <2>2. QED BY <1>1, <1>7, <2>1 DEF Account, Fresh
<1>8. CASE x.status \in {"none", "incomplete", "canceled"}
  <2>1. Synced(a, s, x) = [a EXCEPT !.sub = s,
                             !.status = IF x.status = "canceled" THEN "cancelled" ELSE "incomplete",
                             !.grace = "none"]
    BY <1>8 DEF Synced, Account
  <2>2. QED BY <1>1, <1>8, <2>1 DEF Account, Fresh
<1>9. QED BY <1>1, <1>3, <1>4, <1>5, <1>6, <1>7, <1>8

(* What a request holds after a step, and what the others do.              *)
LEMMA HoldsIs ==
  ASSUME BillingTypeOK, NEW r \in BillingRequests, NEW h \in Request, Holds(r, h)
  PROVE  /\ billing' \in [BillingRequests -> Request]
         /\ billing'[r] = h
         /\ \A q \in BillingRequests \ {r} : billing'[q] = billing[q]
<1>1. billing \in [BillingRequests -> Request]
  BY DEF BillingTypeOK
<1>2. QED BY <1>1 DEF Holds

(* A request that ends holds nothing.                                      *)
LEMMA EndsIs ==
  ASSUME BillingTypeOK, NEW r \in BillingRequests, Ends(r)
  PROVE  /\ billing' \in [BillingRequests -> Request]
         /\ billing'[r] = Waiting
         /\ \A q \in BillingRequests \ {r} : billing'[q] = billing[q]
BY WaitingType, HoldsIs DEF Ends

(* What a change of a subscription leaves, and that it is told.            *)
OnlySub(s) == \A t \in Subscriptions \ {s} : subs'[t] = subs[t]
Told(s) == sent \subseteq sent' /\ answered' = answered
           /\ \E e \in sent' \ answered' : e.sub = s /\ e \notin sent

(* The notifications of a change are new ones of its subscription.         *)
LEMMA TellIs ==
  ASSUME BillingTypeOK, RequestsHold, NEW s \in Subscriptions, subs'[s].status # "none",
         \A t \in Subscriptions : subs[t].status # "none" => subs'[t].status # "none",
         NEW kinds \in SUBSET {"checkout", "subscription", "invoice"}, "subscription" \in kinds,
         Tell(kinds, s), answered' = answered, recorded' = recorded
  PROVE  /\ changes' \in 0..MaxChanges
         /\ sent \subseteq sent' /\ sent' \subseteq Event
         /\ answered' \subseteq sent' /\ recorded' \subseteq answered'
         /\ SentHold' /\ Told(s)
         /\ \A k \in kinds : \E e \in sent' \ answered' : e.kind = k /\ e \notin sent
<1>1. /\ changes \in 0..MaxChanges /\ sent \subseteq Event /\ answered \subseteq sent
      /\ recorded \subseteq answered /\ MaxChanges \in Nat
      /\ \A e \in sent : e.change <= changes /\ subs[e.sub].status # "none"
  BY BillingAssumption DEF BillingTypeOK, RequestsHold, SentHold
<1>2. /\ changes < MaxChanges /\ changes' = changes + 1
      /\ sent' = sent \cup {[change |-> changes + 1, kind |-> k, sub |-> s] : k \in kinds}
  BY DEF Tell
<1>3. changes' \in 0..MaxChanges /\ changes' \in 1..MaxChanges
  BY <1>1, <1>2
<1> DEFINE New(k) == [change |-> changes + 1, kind |-> k, sub |-> s]
<1>4. ASSUME NEW k \in kinds
      PROVE  /\ New(k) \in Event /\ New(k) \in sent' /\ New(k) \notin sent
             /\ New(k).kind = k /\ New(k).sub = s /\ New(k).change = changes'
  <2>1. New(k) \in Event /\ New(k) \in sent'
    BY <1>2, <1>3 DEF Event
  <2>2. New(k).change = changes + 1
    OBVIOUS
  <2>3. New(k) \notin sent
    BY <1>1, <2>2
  <2>4. QED BY <1>2, <2>1, <2>2, <2>3
<1>5. \A e \in sent' : e \in sent \/ \E k \in kinds : e = New(k)
  BY <1>2
<1> HIDE DEF New
<1>6. \A e \in sent : e.sub \in Subscriptions
  BY <1>1 DEF Event
<1>7. \A e \in sent' : e.change <= changes' /\ subs'[e.sub].status # "none"
  <2> SUFFICES ASSUME NEW e \in sent' PROVE e.change <= changes' /\ subs'[e.sub].status # "none"
    OBVIOUS
  <2>1. CASE e \in sent
    <3>1. e.change \in Nat /\ changes \in Nat
      BY <1>1, <2>1 DEF Event
    <3>2. e.change <= changes'
      BY <1>1, <1>2, <2>1, <3>1
    <3>3. QED BY <1>1, <1>6, <2>1, <3>2
  <2>2. CASE e \notin sent
    BY <1>3, <1>4, <1>5, <2>2
  <2>3. QED BY <2>1, <2>2
<1>8. sent \subseteq sent' /\ sent' \subseteq Event /\ answered' \subseteq sent' /\ recorded' \subseteq answered'
  BY <1>1, <1>2, <1>4, <1>5
<1>9. \A k \in kinds : New(k) \in sent' \ answered' /\ New(k) \notin sent
  BY <1>1, <1>4
<1>10. Told(s)
  BY <1>4, <1>8, <1>9 DEF Told
<1>11. QED BY <1>3, <1>4, <1>7, <1>8, <1>9, <1>10 DEF SentHold

-----------------------------------------------------------------------------

(* What a subscription becomes, and that nothing else does.                *)
LEMMA SubIs ==
  ASSUME BillingTypeOK, NEW s \in Subscriptions, NEW x \in Contract, subs' = [subs EXCEPT ![s] = x]
  PROVE  /\ subs' \in [Subscriptions -> Contract] /\ subs'[s] = x
         /\ \A t \in Subscriptions \ {s} : subs'[t] = subs[t]
<1>1. subs \in [Subscriptions -> Contract]
  BY DEF BillingTypeOK
<1>2. QED BY <1>1

(* A payment is remembered.                                                *)
LEMMA PaidIs ==
  ASSUME BillingTypeOK, NEW s \in Subscriptions, NEW p \in Plans, Paid(s, p)
  PROVE  /\ past' \in [paid : SUBSET Plans, settled : SUBSET Subscriptions,
                       lapsed : SUBSET Subscriptions, doubled : BOOLEAN, cut : BOOLEAN]
         /\ past'.paid = past.paid \cup {p} /\ past'.settled = past.settled \cup {s}
         /\ past'.lapsed = past.lapsed /\ past'.doubled = past.doubled /\ past'.cut = past.cut
BY DEF BillingTypeOK, Paid

(* So is a session that was let go.                                        *)
LEMMA LetsGoIs ==
  ASSUME BillingTypeOK, NEW keys, LetsGo(keys)
  PROVE  /\ past' \in [paid : SUBSET Plans, settled : SUBSET Subscriptions,
                       lapsed : SUBSET Subscriptions, doubled : BOOLEAN, cut : BOOLEAN]
         /\ past'.paid = past.paid /\ past'.settled = past.settled
         /\ past'.lapsed = past.lapsed /\ past'.cut = past.cut
         /\ past'.doubled <=> past.doubled \/ \E k \in keys : sessions'[k].status = "open"
BY DEF BillingTypeOK, LetsGo

-----------------------------------------------------------------------------
(* The steps that change a subscription.                                   *)

LEMMA PayCheckoutIs ==
  ASSUME BillingTypeOK, RequestsHold, NEW key \in CheckoutKeys, NEW s \in Subscriptions,
         NEW paid \in BOOLEAN, PayCheckout(key, s, paid)
  PROVE  /\ BillingTypeOK' /\ SentHold' /\ OnlySub(s) /\ Told(s)
         /\ \E e \in sent' \ answered' : e.kind # "subscription" /\ e \notin sent
         /\ subs[s].status = "none"
         /\ subs'[s].status = (IF paid THEN "active" ELSE "incomplete")
         /\ subs'[s].plan \in Plans /\ subs'[s].paid = paid /\ subs'[s].update = 0
         /\ subs'[s].schedule = 0
         /\ past'.lapsed = past.lapsed /\ past'.doubled = past.doubled /\ past'.cut = past.cut
         /\ past'.paid = (IF paid THEN past.paid \cup {subs'[s].plan} ELSE past.paid)
         /\ past'.settled = (IF paid THEN past.settled \cup {s} ELSE past.settled)
         /\ sessions[key].status = "open" /\ sessions'[key].status = "complete"
         /\ \A k \in CheckoutKeys : sessions'[k].plan = sessions[k].plan
         /\ \A k \in CheckoutKeys \ {key} : sessions'[k] = sessions[k]
<1> DEFINE x == [NoContract EXCEPT !.status = IF paid THEN "active" ELSE "incomplete",
                                   !.plan = sessions[key].plan, !.paid = paid]
<1>1. /\ sessions[key].status = "open" /\ subs[s].status = "none"
      /\ sessions' = [sessions EXCEPT ![key].status = "complete"]
      /\ subs' = [subs EXCEPT ![s] = x]
      /\ Tell({"checkout", "subscription", "invoice"}, s)
      /\ IF paid THEN Paid(s, sessions[key].plan) ELSE UNCHANGED past
      /\ account' = account /\ late' = late /\ billing' = billing
      /\ answered' = answered /\ recorded' = recorded /\ mails' = mails
  BY DEF PayCheckout, notifications
<1>2. sessions[key].plan \in Plans /\ sessions[key].plan \in Ranks
  BY <1>1, BillingTypes DEF RequestsHold
<1>3. /\ x \in Contract /\ x.status = (IF paid THEN "active" ELSE "incomplete")
      /\ x.plan = sessions[key].plan /\ x.paid = paid /\ x.update = 0 /\ x.schedule = 0
  BY <1>2, WaitingType DEF Contract, NoContract
<1> HIDE DEF x
<1>4. /\ subs' \in [Subscriptions -> Contract] /\ subs'[s] = x
      /\ \A t \in Subscriptions \ {s} : subs'[t] = subs[t]
  BY <1>1, <1>3, SubIs
<1>5. subs'[s].status # "none" /\ \A t \in Subscriptions : subs[t].status # "none" => subs'[t].status # "none"
  BY <1>3, <1>4
<1>6. /\ changes' \in 0..MaxChanges /\ sent' \subseteq Event
      /\ answered' \subseteq sent' /\ recorded' \subseteq answered'
      /\ SentHold' /\ Told(s) /\ \E e \in sent' \ answered' : e.kind = "checkout" /\ e \notin sent
  BY <1>1, <1>5, TellIs
<1>7. /\ past' \in [paid : SUBSET Plans, settled : SUBSET Subscriptions,
                    lapsed : SUBSET Subscriptions, doubled : BOOLEAN, cut : BOOLEAN]
      /\ past'.lapsed = past.lapsed /\ past'.doubled = past.doubled /\ past'.cut = past.cut
      /\ past'.paid = (IF paid THEN past.paid \cup {sessions[key].plan} ELSE past.paid)
      /\ past'.settled = (IF paid THEN past.settled \cup {s} ELSE past.settled)
  <2>1. CASE paid
    BY <1>1, <1>2, <2>1, PaidIs
  <2>2. CASE ~paid
    BY <1>1, <2>2 DEF BillingTypeOK
  <2>3. QED BY <2>1, <2>2
<1>8. /\ sessions' \in [CheckoutKeys -> [status : {"none", "open", "complete", "expired"}, plan : Ranks]]
      /\ sessions'[key].status = "complete" /\ sessions'[key].plan = sessions[key].plan
      /\ \A k \in CheckoutKeys \ {key} : sessions'[k] = sessions[k]
  <2>1. sessions \in [CheckoutKeys -> [status : {"none", "open", "complete", "expired"}, plan : Ranks]]
    BY DEF BillingTypeOK
  <2>2. QED BY <1>1, <2>1
<1>9. BillingTypeOK'
  BY <1>1, <1>4, <1>6, <1>7, <1>8 DEF BillingTypeOK
<1>10. QED BY <1>1, <1>2, <1>3, <1>4, <1>6, <1>7, <1>8, <1>9 DEF OnlySub

(* A payment settles the subscription with the plan it is for.             *)
LEMMA PayInvoiceIs ==
  ASSUME BillingTypeOK, RequestsHold, NEW s \in Subscriptions, PayInvoice(s)
  PROVE  /\ BillingTypeOK' /\ SentHold' /\ OnlySub(s) /\ Told(s)
         /\ s \in LiveSubs
         /\ subs'[s].status = "active" /\ subs'[s].paid /\ subs'[s].update = 0
         /\ subs'[s].plan = (IF subs[s].update # 0 THEN subs[s].update ELSE subs[s].plan)
         /\ subs'[s].plan \in Plans /\ subs'[s].schedule = subs[s].schedule
         /\ past'.lapsed = past.lapsed /\ past'.doubled = past.doubled /\ past'.cut = past.cut
         /\ past'.paid = past.paid \cup {subs'[s].plan}
         /\ past'.settled = past.settled \cup {s}
<1> DEFINE plan == IF subs[s].update # 0 THEN subs[s].update ELSE subs[s].plan
           x == [subs[s] EXCEPT !.status = "active", !.plan = plan, !.paid = TRUE, !.update = 0]
<1>1. /\ s \in LiveSubs
      /\ subs' = [subs EXCEPT ![s] = x]
      /\ Tell({"subscription", "invoice"}, s) /\ Paid(s, plan)
      /\ account' = account /\ late' = late /\ billing' = billing /\ sessions' = sessions
      /\ answered' = answered /\ recorded' = recorded /\ mails' = mails
  BY DEF PayInvoice, notifications
<1>2. plan \in Plans /\ plan \in Ranks
  BY <1>1, BillingTypes DEF RequestsHold, LiveSubs, Ranks
<1>3. /\ x \in Contract /\ x.status = "active" /\ x.plan = plan /\ x.paid /\ x.update = 0
      /\ x.schedule = subs[s].schedule
  BY <1>2, BillingTypes, WaitingType DEF Contract
<1> HIDE DEF x, plan
<1>4. /\ subs' \in [Subscriptions -> Contract] /\ subs'[s] = x
      /\ \A t \in Subscriptions \ {s} : subs'[t] = subs[t]
  BY <1>1, <1>3, SubIs
<1>5. subs'[s].status # "none" /\ \A t \in Subscriptions : subs[t].status # "none" => subs'[t].status # "none"
  BY <1>3, <1>4
<1>6. /\ changes' \in 0..MaxChanges /\ sent' \subseteq Event
      /\ answered' \subseteq sent' /\ recorded' \subseteq answered'
      /\ SentHold' /\ Told(s)
  BY <1>1, <1>5, TellIs
<1>7. /\ past' \in [paid : SUBSET Plans, settled : SUBSET Subscriptions,
                    lapsed : SUBSET Subscriptions, doubled : BOOLEAN, cut : BOOLEAN]
      /\ past'.lapsed = past.lapsed /\ past'.doubled = past.doubled /\ past'.cut = past.cut
      /\ past'.paid = past.paid \cup {plan} /\ past'.settled = past.settled \cup {s}
  BY <1>1, <1>2, PaidIs
<1>8. BillingTypeOK'
  BY <1>1, <1>4, <1>6, <1>7 DEF BillingTypeOK
<1>9. QED BY <1>1, <1>2, <1>3, <1>4, <1>6, <1>7, <1>8 DEF OnlySub, plan

(* A payment that failed drops the upgrade, delays a renewal, or ends.     *)
LEMMA FailInvoiceIs ==
  ASSUME BillingTypeOK, RequestsHold, NEW s \in Subscriptions, FailInvoice(s)
  PROVE  /\ BillingTypeOK' /\ SentHold' /\ OnlySub(s) /\ Told(s)
         /\ s \in LiveSubs
         /\ subs'[s].plan = subs[s].plan
         /\ \/ /\ subs[s].update # 0 /\ subs'[s].update = 0
               /\ subs'[s].status = subs[s].status /\ subs'[s].paid = subs[s].paid
               /\ subs'[s].schedule = subs[s].schedule
            \/ /\ subs[s].status = "active" /\ ~subs[s].paid /\ subs'[s].status = "past_due"
               /\ subs[s].update = 0 /\ subs'[s].update = 0
               /\ ~subs'[s].paid /\ subs'[s].schedule = subs[s].schedule
            \/ /\ subs[s].status \in {"incomplete", "past_due"} /\ subs'[s].status = "canceled"
               /\ ~subs'[s].paid /\ subs'[s].schedule = 0
<1> DEFINE x == IF subs[s].update # 0 THEN [subs[s] EXCEPT !.update = 0]
                ELSE IF subs[s].status = "active" THEN [subs[s] EXCEPT !.status = "past_due"]
                ELSE [NoContract EXCEPT !.status = "canceled", !.plan = subs[s].plan]
<1>1. /\ s \in LiveSubs /\ (~subs[s].paid \/ subs[s].update # 0)
      /\ subs' = [subs EXCEPT ![s] = x]
      /\ Tell({"subscription"}, s) /\ past' = past
      /\ account' = account /\ late' = late /\ billing' = billing /\ sessions' = sessions
      /\ answered' = answered /\ recorded' = recorded /\ mails' = mails
  BY DEF FailInvoice, notifications, BillingTypeOK
<1>2. subs[s].status \in {"incomplete", "active", "past_due"}
  BY <1>1, BillingTypes DEF LiveSubs
<1>3. /\ x \in Contract /\ x.plan = subs[s].plan /\ x.status # "none"
      /\ \/ /\ subs[s].update # 0 /\ x.update = 0
            /\ x.status = subs[s].status /\ x.paid = subs[s].paid /\ x.schedule = subs[s].schedule
         \/ /\ subs[s].status = "active" /\ ~subs[s].paid /\ x.status = "past_due"
            /\ subs[s].update = 0 /\ x.update = 0 /\ ~x.paid /\ x.schedule = subs[s].schedule
         \/ /\ subs[s].status \in {"incomplete", "past_due"} /\ x.status = "canceled"
            /\ ~x.paid /\ x.schedule = 0
  BY <1>1, <1>2, BillingTypes, WaitingType DEF Contract, NoContract
<1> HIDE DEF x
<1>4. /\ subs' \in [Subscriptions -> Contract] /\ subs'[s] = x
      /\ \A t \in Subscriptions \ {s} : subs'[t] = subs[t]
  BY <1>1, <1>3, SubIs
<1>5. subs'[s].status # "none" /\ \A t \in Subscriptions : subs[t].status # "none" => subs'[t].status # "none"
  BY <1>3, <1>4
<1>6. /\ changes' \in 0..MaxChanges /\ sent' \subseteq Event
      /\ answered' \subseteq sent' /\ recorded' \subseteq answered'
      /\ SentHold' /\ Told(s)
  BY <1>1, <1>5, TellIs
<1>7. BillingTypeOK'
  BY <1>1, <1>4, <1>6 DEF BillingTypeOK
<1>8. QED BY <1>1, <1>3, <1>4, <1>6, <1>7 DEF OnlySub

(* A renewal is paid or leaves the subscription lapsed, and ends a         *)
(* schedule.                                                               *)
LEMMA RenewIs ==
  ASSUME BillingTypeOK, RequestsHold, NEW s \in Subscriptions, NEW paid \in BOOLEAN, Renew(s, paid)
  PROVE  /\ BillingTypeOK' /\ SentHold' /\ OnlySub(s) /\ Told(s)
         /\ subs[s].status = "active" /\ subs'[s].schedule = 0 /\ subs'[s].plan \in Plans
         /\ past'.doubled = past.doubled /\ past'.cut = past.cut
         /\ past.paid \subseteq past'.paid
         /\ past.settled \subseteq past'.settled /\ past'.settled \subseteq past.settled \cup {s}
         /\ past.lapsed \subseteq past'.lapsed
         /\ \/ subs'[s].status = "canceled" /\ ~subs'[s].paid /\ s \in past'.lapsed
            \/ subs'[s].status = "active" /\ subs'[s].paid /\ subs'[s].plan \in past'.paid
            \/ subs'[s].status = "active" /\ ~subs'[s].paid /\ s \in past'.lapsed
<1> DEFINE plan == IF subs[s].schedule # 0 THEN subs[s].schedule ELSE subs[s].plan
           x == IF subs[s].ends THEN [NoContract EXCEPT !.status = "canceled", !.plan = subs[s].plan]
                ELSE [subs[s] EXCEPT !.plan = plan, !.schedule = 0, !.paid = paid]
<1>1. /\ subs[s].status = "active" /\ subs[s].paid
      /\ subs' = [subs EXCEPT ![s] = x]
      /\ Tell({"subscription"}, s)
      /\ IF paid /\ ~subs[s].ends THEN Paid(s, plan)
           ELSE past' = [past EXCEPT !.lapsed = @ \cup {s}]
      /\ account' = account /\ late' = late /\ billing' = billing /\ sessions' = sessions
      /\ answered' = answered /\ recorded' = recorded /\ mails' = mails
  BY DEF Renew, notifications
<1>2. /\ plan \in Plans /\ plan \in Ranks /\ subs[s].plan \in Plans /\ subs[s].ends \in BOOLEAN
  BY <1>1, BillingTypes DEF RequestsHold, Ranks
<1>3. /\ x \in Contract /\ x.schedule = 0 /\ x.plan \in Plans /\ x.status # "none"
      /\ subs[s].ends => x.status = "canceled" /\ ~x.paid
      /\ ~subs[s].ends => x.status = "active" /\ x.paid = paid /\ x.plan = plan
  BY <1>1, <1>2, BillingTypes, WaitingType DEF Contract, NoContract
<1> HIDE DEF x, plan
<1>4. /\ subs' \in [Subscriptions -> Contract] /\ subs'[s] = x
      /\ \A t \in Subscriptions \ {s} : subs'[t] = subs[t]
  BY <1>1, <1>3, SubIs
<1>5. subs'[s].status # "none" /\ \A t \in Subscriptions : subs[t].status # "none" => subs'[t].status # "none"
  BY <1>3, <1>4
<1>6. /\ changes' \in 0..MaxChanges /\ sent' \subseteq Event
      /\ answered' \subseteq sent' /\ recorded' \subseteq answered'
      /\ SentHold' /\ Told(s)
  BY <1>1, <1>5, TellIs
<1>7. /\ past' \in [paid : SUBSET Plans, settled : SUBSET Subscriptions,
                    lapsed : SUBSET Subscriptions, doubled : BOOLEAN, cut : BOOLEAN]
      /\ past'.doubled = past.doubled /\ past'.cut = past.cut
      /\ past.paid \subseteq past'.paid /\ past.lapsed \subseteq past'.lapsed
      /\ past.settled \subseteq past'.settled /\ past'.settled \subseteq past.settled \cup {s}
      /\ IF paid /\ ~subs[s].ends THEN plan \in past'.paid ELSE s \in past'.lapsed
  <2>1. CASE paid /\ ~subs[s].ends
    BY <1>1, <1>2, <2>1, PaidIs
  <2>2. CASE ~(paid /\ ~subs[s].ends)
    BY <1>1, <2>2 DEF BillingTypeOK
  <2>3. QED BY <2>1, <2>2
<1>8. BillingTypeOK'
  BY <1>1, <1>4, <1>6, <1>7 DEF BillingTypeOK
<1>9. QED BY <1>1, <1>2, <1>3, <1>4, <1>6, <1>7, <1>8 DEF OnlySub

(* An upgrade is paid for or waits; the request knows what it made of the  *)
(* subscription.                                                           *)
LEMMA UpgradeIs ==
  ASSUME BillingTypeOK, RequestsHold, NEW r \in BillingRequests, NEW p \in Plans,
         NEW paid \in BOOLEAN, Upgrade(r, p, paid)
  PROVE  LET s == account.sub IN
         /\ BillingTypeOK' /\ SentHold' /\ s \in Subscriptions /\ OnlySub(s) /\ Told(s)
         /\ Begins(r) /\ subs[s].status = "active" /\ subs'[s].status = "active"
         /\ subs[s].update = 0 /\ subs'[s].schedule = subs[s].schedule /\ subs'[s].plan \in Plans
         /\ subs[s].schedule # 0 => account.pending = p
         /\ past'.lapsed = past.lapsed /\ past'.doubled = past.doubled /\ past'.cut = past.cut
         /\ past.paid \subseteq past'.paid /\ past.settled \subseteq past'.settled
         /\ past'.settled \subseteq past.settled \cup {s}
         /\ \/ subs'[s].plan \in past'.paid /\ subs'[s].paid
            \/ subs'[s].plan = subs[s].plan /\ subs'[s].paid = subs[s].paid
         /\ billing'[r] = [Waiting EXCEPT !.phase = "syncing", !.sub = s, !.seen = subs'[s]]
         /\ \A q \in BillingRequests \ {r} : billing'[q] = billing[q]
<1> DEFINE s == account.sub
           x == IF paid THEN [subs[s] EXCEPT !.plan = p, !.paid = TRUE]
                        ELSE [subs[s] EXCEPT !.update = p]
           h == [Waiting EXCEPT !.phase = "syncing", !.sub = s, !.seen = subs'[s]]
<1>1. /\ Begins(r) /\ s # NoSubscription /\ subs[s].status = "active" /\ subs[s].update = 0
      /\ subs[s].schedule # 0 => account.pending = p
      /\ subs' = [subs EXCEPT ![s] = x]
      /\ Tell({"subscription"}, s)
      /\ IF paid THEN Paid(s, p) ELSE UNCHANGED past
      /\ Holds(r, h)
      /\ account' = account /\ late' = late /\ sessions' = sessions
      /\ answered' = answered /\ recorded' = recorded /\ mails' = mails
  BY DEF Upgrade, Changeable, notifications
<1>2. s \in Subscriptions /\ p \in Ranks
  BY <1>1, BillingTypes DEF Ranks
<1>3. /\ x \in Contract /\ x.status = "active" /\ x.schedule = subs[s].schedule
      /\ IF paid THEN x.plan = p /\ x.paid ELSE x.plan = subs[s].plan /\ x.paid = subs[s].paid
      /\ x.plan \in Plans
  <2>1. subs[s] \in Contract /\ subs[s].plan \in Plans
    BY <1>1, <1>2, BillingTypes DEF RequestsHold
  <2>2. CASE paid
    BY <1>1, <1>2, <2>1, <2>2 DEF Contract
  <2>3. CASE ~paid
    BY <1>1, <1>2, <2>1, <2>3 DEF Contract
  <2>4. QED BY <2>2, <2>3
<1> HIDE DEF x
<1>4. /\ subs' \in [Subscriptions -> Contract] /\ subs'[s] = x
      /\ \A t \in Subscriptions \ {s} : subs'[t] = subs[t]
  BY <1>1, <1>2, <1>3, SubIs
<1>5. subs'[s].status # "none" /\ \A t \in Subscriptions : subs[t].status # "none" => subs'[t].status # "none"
  BY <1>3, <1>4
<1>6. /\ changes' \in 0..MaxChanges /\ sent' \subseteq Event
      /\ answered' \subseteq sent' /\ recorded' \subseteq answered'
      /\ SentHold' /\ Told(s)
  BY <1>1, <1>2, <1>5, TellIs
<1>7. h \in Request /\ subs'[s] = x
  BY <1>2, <1>3, <1>4, WaitingType DEF Request
<1> HIDE DEF h
<1>8. /\ billing' \in [BillingRequests -> Request] /\ billing'[r] = h
      /\ \A q \in BillingRequests \ {r} : billing'[q] = billing[q]
  BY <1>1, <1>7, HoldsIs
<1>9. /\ past' \in [paid : SUBSET Plans, settled : SUBSET Subscriptions,
                    lapsed : SUBSET Subscriptions, doubled : BOOLEAN, cut : BOOLEAN]
      /\ past'.lapsed = past.lapsed /\ past'.doubled = past.doubled /\ past'.cut = past.cut
      /\ past.paid \subseteq past'.paid /\ past.settled \subseteq past'.settled
      /\ past'.settled \subseteq past.settled \cup {s}
      /\ paid => p \in past'.paid
  <2>1. CASE paid
    BY <1>1, <1>2, <2>1, PaidIs
  <2>2. CASE ~paid
    BY <1>1, <2>2 DEF BillingTypeOK
  <2>3. QED BY <2>1, <2>2
<1>10. BillingTypeOK'
  BY <1>1, <1>4, <1>6, <1>8, <1>9 DEF BillingTypeOK
<1>11. QED BY <1>1, <1>2, <1>3, <1>4, <1>6, <1>8, <1>9, <1>10 DEF OnlySub, h

(* A cancellation, or its end, releases the schedule.                      *)
LEMMA CancelIs ==
  ASSUME BillingTypeOK, RequestsHold, NEW r \in BillingRequests, NEW cancel \in BOOLEAN,
         CancelOrResume(r, cancel)
  PROVE  LET s == account.sub IN
         /\ BillingTypeOK' /\ SentHold' /\ s \in Subscriptions /\ OnlySub(s) /\ Told(s)
         /\ Begins(r)
         /\ subs'[s].status = subs[s].status /\ subs'[s].plan = subs[s].plan
         /\ subs'[s].paid = subs[s].paid /\ subs'[s].update = subs[s].update /\ subs'[s].schedule = 0
         /\ billing'[r] = [Waiting EXCEPT !.phase = "syncing", !.sub = s, !.seen = subs'[s],
                                          !.clears = TRUE]
         /\ \A q \in BillingRequests \ {r} : billing'[q] = billing[q]
<1> DEFINE s == account.sub
           x == [Released(subs[s]) EXCEPT !.ends = cancel]
           h == [Waiting EXCEPT !.phase = "syncing", !.sub = s, !.seen = subs'[s], !.clears = TRUE]
<1>1. /\ Begins(r) /\ s # NoSubscription
      /\ subs' = [subs EXCEPT ![s] = x]
      /\ Tell({"subscription"}, s)
      /\ Holds(r, h)
      /\ account' = account /\ late' = late /\ sessions' = sessions /\ past' = past
      /\ answered' = answered /\ recorded' = recorded /\ mails' = mails
  BY DEF CancelOrResume, notifications
<1>2. s \in Subscriptions /\ subs[s].status # "none"
  BY <1>1, BillingTypes DEF RequestsHold
<1>3. /\ x \in Contract /\ x.status = subs[s].status /\ x.plan = subs[s].plan
      /\ x.paid = subs[s].paid /\ x.update = subs[s].update /\ x.schedule = 0
  <2>1. subs[s] \in Contract
    BY <1>2, BillingTypes
  <2>2. QED BY <2>1, WaitingType DEF Contract, Released
<1> HIDE DEF x
<1>4. /\ subs' \in [Subscriptions -> Contract] /\ subs'[s] = x
      /\ \A t \in Subscriptions \ {s} : subs'[t] = subs[t]
  BY <1>1, <1>2, <1>3, SubIs
<1>5. subs'[s].status # "none" /\ \A t \in Subscriptions : subs[t].status # "none" => subs'[t].status # "none"
  BY <1>2, <1>3, <1>4
<1>6. /\ changes' \in 0..MaxChanges /\ sent' \subseteq Event
      /\ answered' \subseteq sent' /\ recorded' \subseteq answered'
      /\ SentHold' /\ Told(s)
  BY <1>1, <1>2, <1>5, TellIs
<1>7. h \in Request
  BY <1>2, <1>3, <1>4, WaitingType DEF Request
<1> HIDE DEF h
<1>8. /\ billing' \in [BillingRequests -> Request] /\ billing'[r] = h
      /\ \A q \in BillingRequests \ {r} : billing'[q] = billing[q]
  BY <1>1, <1>7, HoldsIs
<1>9. BillingTypeOK'
  BY <1>1, <1>4, <1>6, <1>8 DEF BillingTypeOK
<1>10. QED BY <1>1, <1>2, <1>3, <1>4, <1>6, <1>8, <1>9 DEF OnlySub, h

(* A schedule is shown, unless the process stops.                          *)
LEMMA ScheduleIs ==
  ASSUME BillingTypeOK, RequestsHold, NEW r \in BillingRequests, NEW stops \in BOOLEAN,
         ScheduleDowngrade(r, stops)
  PROVE  LET s == account.sub IN
         /\ BillingTypeOK' /\ SentHold' /\ s \in Subscriptions /\ OnlySub(s) /\ Told(s)
         /\ ~CompanyLocked
         /\ subs[s].status \notin {"none", "canceled"}
         /\ subs'[s].status = subs[s].status /\ subs'[s].plan = subs[s].plan
         /\ subs'[s].paid = subs[s].paid /\ subs'[s].update = subs[s].update
         /\ past'.lapsed = past.lapsed /\ past'.doubled = past.doubled
         /\ past'.paid = past.paid /\ past'.settled = past.settled
         /\ past'.cut = (past.cut \/ stops)
         /\ account' = IF stops THEN account ELSE [account EXCEPT !.pending = subs'[s].schedule]
         /\ billing'[r] = Waiting
         /\ \A q \in BillingRequests \ {r} : billing'[q] = billing[q]
<1> DEFINE s == account.sub
           x == [subs[s] EXCEPT !.schedule = billing[r].plan]
<1>1. /\ billing[r].phase = "scheduling" /\ ~CompanyLocked /\ subs[s].status # "canceled"
      /\ subs' = [subs EXCEPT ![s].schedule = billing[r].plan]
      /\ Tell({"subscription"}, s)
      /\ account' = IF stops THEN account ELSE [account EXCEPT !.pending = billing[r].plan]
      /\ past' = [past EXCEPT !.cut = @ \/ stops]
      /\ Ends(r)
      /\ late' = late /\ sessions' = sessions
      /\ answered' = answered /\ recorded' = recorded /\ mails' = mails
  BY DEF ScheduleDowngrade, notifications
<1>2. s \in Subscriptions /\ subs[s].status # "none" /\ subs[s] \in Contract /\ billing[r].plan \in Ranks
  BY <1>1, BillingTypes DEF RequestsHold, RequestHolds
<1>3. /\ x \in Contract /\ x.status = subs[s].status /\ x.plan = subs[s].plan
      /\ x.paid = subs[s].paid /\ x.update = subs[s].update /\ x.schedule = billing[r].plan
  BY <1>2 DEF Contract
<1>4. subs' = [subs EXCEPT ![s] = x]
  BY <1>1, <1>2
<1> HIDE DEF x
<1>5. /\ subs' \in [Subscriptions -> Contract] /\ subs'[s] = x
      /\ \A t \in Subscriptions \ {s} : subs'[t] = subs[t]
  BY <1>2, <1>3, <1>4, SubIs
<1>6. subs'[s].status # "none" /\ \A t \in Subscriptions : subs[t].status # "none" => subs'[t].status # "none"
  BY <1>2, <1>3, <1>5
<1>7. /\ changes' \in 0..MaxChanges /\ sent' \subseteq Event
      /\ answered' \subseteq sent' /\ recorded' \subseteq answered'
      /\ SentHold' /\ Told(s)
  BY <1>1, <1>2, <1>6, TellIs
<1>8. /\ billing' \in [BillingRequests -> Request] /\ billing'[r] = Waiting
      /\ \A q \in BillingRequests \ {r} : billing'[q] = billing[q]
  BY <1>1, EndsIs
<1>9. /\ past' \in [paid : SUBSET Plans, settled : SUBSET Subscriptions,
                    lapsed : SUBSET Subscriptions, doubled : BOOLEAN, cut : BOOLEAN]
      /\ past'.lapsed = past.lapsed /\ past'.doubled = past.doubled
      /\ past'.paid = past.paid /\ past'.settled = past.settled
      /\ past'.cut = (past.cut \/ stops)
  BY <1>1 DEF BillingTypeOK
<1>10. account' \in Account
  BY <1>1, <1>2, BillingTypes DEF Account
<1>11. BillingTypeOK'
  BY <1>1, <1>5, <1>7, <1>8, <1>9, <1>10 DEF BillingTypeOK
<1>12. QED BY <1>1, <1>2, <1>3, <1>5, <1>7, <1>8, <1>9, <1>11 DEF OnlySub

-----------------------------------------------------------------------------
(* The steps of a checkout: the columns of the checkout change, and what   *)
(* the provider has of it.                                                 *)

Locked(r) == billing[r].phase \in {"creating", "selected", "syncing"}

(* The request that steps has the lock, or gets it when nobody has.        *)
OneSteps(r) ==
  /\ \A q \in BillingRequests \ {r} : billing'[q] = billing[q]
  /\ billing'[r].phase \in {"creating", "selected", "syncing"} => Locked(r) \/ ~CompanyLocked

(* One request at most has the lock after such a step.                     *)
LEMMA OneLock ==
  ASSUME RequestsHold, NEW r \in BillingRequests, OneSteps(r)
  PROVE  OneLocks'
BY DEF RequestsHold, OneLocks, OneSteps, Locked, CompanyLocked

CheckoutOnly ==
  /\ BillingTypeOK'
  /\ \E c \in Checkout : account' = [account EXCEPT !.checkout = c]
  /\ account'.checkout.key # NoKey => account'.checkout.plan \in Plans
  /\ \A k \in CheckoutKeys : sessions'[k].status # "none" => sessions'[k].plan \in Plans
  /\ subs' = subs /\ changes' = changes /\ sent' = sent
  /\ answered' = answered /\ recorded' = recorded /\ mails' = mails
  /\ past'.paid = past.paid /\ past'.settled = past.settled
  /\ past'.lapsed = past.lapsed /\ past'.cut = past.cut /\ (past.doubled => past'.doubled)
  /\ \A q \in BillingRequests :
       billing'[q] = billing[q] \/ billing'[q].phase \notin {"selected", "syncing", "scheduling"}

(* The session of a key is there after Session.create.                     *)
LEMMA CreatedIs ==
  ASSUME BillingTypeOK, NEW key, NEW p \in Plans, Created(key, p)
  PROVE  /\ sessions' \in [CheckoutKeys -> [status : {"none", "open", "complete", "expired"}, plan : Ranks]]
         /\ \A k \in CheckoutKeys : k # key => sessions'[k] = sessions[k]
         /\ key \in CheckoutKeys /\ sessions[key].status # "none" => sessions'[key] = sessions[key]
         /\ key \in CheckoutKeys /\ sessions[key].status = "none" =>
              /\ sessions'[key].plan = p
              /\ sessions'[key].status = IF key \in late THEN "expired" ELSE "open"
<1>1. sessions \in [CheckoutKeys -> [status : {"none", "open", "complete", "expired"}, plan : Ranks]]
      /\ p \in Ranks
  BY DEF BillingTypeOK, Ranks
<1>2. QED BY <1>1 DEF Created

(* An hour that is over closes the session of its key.                     *)
LEMMA HourIs ==
  ASSUME BillingTypeOK, RequestsHold, NEW key \in CheckoutKeys, HourPasses(key)
  PROVE  /\ CheckoutOnly /\ account' = account /\ billing' = billing /\ past' = past
         /\ late' = late \cup {key}
         /\ \A k \in CheckoutKeys : /\ sessions'[k].plan = sessions[k].plan
                                    /\ k # key => sessions'[k] = sessions[k]
         /\ sessions'[key].status = (IF sessions[key].status = "open" THEN "expired"
                                     ELSE sessions[key].status)
<1>1. /\ late' = late \cup {key}
      /\ sessions' = [sessions EXCEPT ![key].status = IF @ = "open" THEN "expired" ELSE @]
      /\ account' = account /\ subs' = subs /\ changes' = changes /\ sent' = sent
      /\ billing' = billing /\ past' = past /\ answered' = answered /\ recorded' = recorded /\ mails' = mails
  BY DEF HourPasses, notifications
<1>2. sessions \in [CheckoutKeys -> [status : {"none", "open", "complete", "expired"}, plan : Ranks]]
  BY DEF BillingTypeOK
<1>3. /\ sessions' \in [CheckoutKeys -> [status : {"none", "open", "complete", "expired"}, plan : Ranks]]
      /\ \A k \in CheckoutKeys : /\ sessions'[k].plan = sessions[k].plan
                                 /\ k # key => sessions'[k] = sessions[k]
      /\ sessions'[key].status = (IF sessions[key].status = "open" THEN "expired"
                                  ELSE sessions[key].status)
  BY <1>1, <1>2
<1>4. BillingTypeOK'
  BY <1>1, <1>3 DEF BillingTypeOK
<1>5. account.checkout \in Checkout /\ account = [account EXCEPT !.checkout = account.checkout]
  BY BillingTypes DEF Account
<1>6. \A k \in CheckoutKeys : sessions'[k].status # "none" => sessions'[k].plan \in Plans
  BY <1>3 DEF RequestsHold
<1>7. CheckoutOnly
  BY <1>1, <1>4, <1>5, <1>6 DEF CheckoutOnly, RequestsHold
<1>8. QED BY <1>1, <1>3, <1>7

(* A key is only drawn when the last one is late.                          *)
LEMMA PrepareIs ==
  ASSUME BillingTypeOK, RequestsHold, NEW r \in BillingRequests, NEW p \in Plans,
         NEW key \in CheckoutKeys, PrepareCheckout(r, p, key)
  PROVE  /\ CheckoutOnly /\ OneSteps(r)
         /\ LiveSubs = {} /\ ~Timely /\ sessions' = sessions /\ late' = late /\ past' = past
<1> DEFINE c == [key |-> key, ready |-> FALSE, plan |-> p, timed |-> TRUE]
           h == [Waiting EXCEPT !.phase = "preparing", !.plan = p]
<1>1. /\ LiveSubs = {} /\ ~Timely
      /\ account' = [account EXCEPT !.checkout = c] /\ Holds(r, h)
      /\ sessions' = sessions /\ subs' = subs /\ late' = late /\ changes' = changes /\ sent' = sent
      /\ past' = past /\ answered' = answered /\ recorded' = recorded /\ mails' = mails
  BY DEF PrepareCheckout, provider, notifications
<1>2. p \in Ranks /\ c \in Checkout /\ c.key = key /\ c.plan = p
  BY DEF Ranks, Checkout
<1>3. h \in Request /\ h.phase = "preparing"
  BY <1>2, WaitingType DEF Request
<1> HIDE DEF c, h
<1>4. account' \in Account /\ account'.checkout = c
  BY <1>1, <1>2, BillingTypes DEF Account
<1>5. /\ billing' \in [BillingRequests -> Request] /\ billing'[r] = h
      /\ \A q \in BillingRequests \ {r} : billing'[q] = billing[q]
  BY <1>1, <1>3, HoldsIs
<1>6. BillingTypeOK'
  BY <1>1, <1>4, <1>5 DEF BillingTypeOK
<1>7. CheckoutOnly
  BY <1>1, <1>2, <1>3, <1>4, <1>5, <1>6 DEF CheckoutOnly, RequestsHold
<1>8. QED BY <1>1, <1>3, <1>5, <1>7 DEF OneSteps

(* A request that ends while nothing else changes.                         *)
LEMMA EndIs ==
  ASSUME BillingTypeOK, RequestsHold, NEW r \in BillingRequests, Ends(r),
         UNCHANGED <<account, provider, notifications>>
  PROVE  CheckoutOnly /\ OneSteps(r) /\ account' = account /\ sessions' = sessions
         /\ late' = late /\ past' = past
<1>1. /\ account' = account /\ sessions' = sessions /\ subs' = subs /\ late' = late
      /\ changes' = changes /\ sent' = sent
      /\ past' = past /\ answered' = answered /\ recorded' = recorded /\ mails' = mails
  BY DEF provider, notifications
<1>2. /\ billing' \in [BillingRequests -> Request] /\ billing'[r] = Waiting
      /\ \A q \in BillingRequests \ {r} : billing'[q] = billing[q]
  BY EndsIs
<1>3. BillingTypeOK'
  BY <1>1, <1>2 DEF BillingTypeOK
<1>4. account.checkout \in Checkout /\ account = [account EXCEPT !.checkout = account.checkout]
  BY BillingTypes DEF Account
<1>5. CheckoutOnly
  BY <1>1, <1>2, <1>3, <1>4, WaitingType DEF CheckoutOnly, RequestsHold
<1>6. QED BY <1>1, <1>2, <1>5, WaitingType DEF OneSteps

(* A checkout that starts over keeps its key and loses its time.           *)
LEMMA RestartIs ==
  ASSUME BillingTypeOK, RequestsHold, NEW r \in BillingRequests, NEW p \in Plans,
         RestartCheckout(r, p)
  PROVE  /\ CheckoutOnly /\ OneSteps(r)
         /\ sessions' = sessions /\ late' = late
         /\ account'.checkout.key = account.checkout.key
         /\ sessions[account.checkout.key].status = "open" => past'.doubled
<1> DEFINE c == [account.checkout EXCEPT !.timed = FALSE]
           h == [Waiting EXCEPT !.phase = "asking", !.plan = p]
<1>1. /\ account' = [account EXCEPT !.checkout = c] /\ Holds(r, h)
      /\ sessions' = sessions /\ subs' = subs /\ late' = late /\ changes' = changes /\ sent' = sent
      /\ LetsGo({account.checkout.key})
      /\ answered' = answered /\ recorded' = recorded /\ mails' = mails
  BY BillingTypes DEF RestartCheckout, notifications, Account
<1>2. p \in Ranks /\ c \in Checkout /\ c.key = account.checkout.key /\ c.plan = account.checkout.plan
  BY BillingTypes DEF Ranks, Checkout
<1>3. h \in Request /\ h.phase = "asking"
  BY <1>2, WaitingType DEF Request
<1> HIDE DEF c, h
<1>4. account' \in Account /\ account'.checkout = c
  BY <1>1, <1>2, BillingTypes DEF Account
<1>5. /\ billing' \in [BillingRequests -> Request] /\ billing'[r] = h
      /\ \A q \in BillingRequests \ {r} : billing'[q] = billing[q]
  BY <1>1, <1>3, HoldsIs
<1>6. /\ past' \in [paid : SUBSET Plans, settled : SUBSET Subscriptions,
                    lapsed : SUBSET Subscriptions, doubled : BOOLEAN, cut : BOOLEAN]
      /\ past'.paid = past.paid /\ past'.settled = past.settled
      /\ past'.lapsed = past.lapsed /\ past'.cut = past.cut
      /\ past'.doubled <=> past.doubled \/ sessions'[account.checkout.key].status = "open"
  BY <1>1, LetsGoIs
<1>7. BillingTypeOK'
  BY <1>1, <1>4, <1>5, <1>6 DEF BillingTypeOK
<1>8. CheckoutOnly
  BY <1>1, <1>2, <1>3, <1>4, <1>5, <1>6, <1>7 DEF CheckoutOnly, RequestsHold
<1>9. QED BY <1>1, <1>2, <1>3, <1>4, <1>5, <1>6, <1>8 DEF OneSteps

(* A session that is created, for a checkout or to be cancelled.           *)
LEMMA CreateIs ==
  ASSUME BillingTypeOK, RequestsHold, NEW r \in BillingRequests, ~CompanyLocked,
         NEW p \in Plans, Created(account.checkout.key, p),
         NEW h \in Request, Holds(r, h), h.phase = "creating",
         UNCHANGED <<account, subs, late, changes, sent, past, notifications>>
  PROVE  CheckoutOnly /\ OneSteps(r)
<1>1. /\ account' = account /\ subs' = subs /\ late' = late
      /\ changes' = changes /\ sent' = sent
      /\ past' = past /\ answered' = answered /\ recorded' = recorded /\ mails' = mails
  BY DEF notifications
<1>2. /\ billing' \in [BillingRequests -> Request] /\ billing'[r] = h
      /\ \A q \in BillingRequests \ {r} : billing'[q] = billing[q]
  BY HoldsIs
<1>3. /\ sessions' \in [CheckoutKeys -> [status : {"none", "open", "complete", "expired"}, plan : Ranks]]
      /\ \A k \in CheckoutKeys : sessions'[k] = sessions[k] \/ sessions'[k].plan = p
  BY CreatedIs
<1>4. BillingTypeOK'
  BY <1>1, <1>2, <1>3 DEF BillingTypeOK
<1>5. account.checkout \in Checkout /\ account = [account EXCEPT !.checkout = account.checkout]
  BY BillingTypes DEF Account
<1>6. \A k \in CheckoutKeys : sessions'[k].status # "none" => sessions'[k].plan \in Plans
  BY <1>3 DEF RequestsHold
<1>7. CheckoutOnly
  BY <1>1, <1>2, <1>4, <1>5, <1>6 DEF CheckoutOnly, RequestsHold
<1>8. QED BY <1>2, <1>7 DEF OneSteps

(* A session that is committed has its time.                               *)
LEMMA CommitSessionIs ==
  ASSUME BillingTypeOK, RequestsHold, NEW r \in BillingRequests, CommitSession(r)
  PROVE  /\ CheckoutOnly /\ OneSteps(r) /\ sessions' = sessions /\ late' = late /\ past' = past
         /\ account'.checkout.key = account.checkout.key /\ account'.checkout.timed
<1> DEFINE c == [account.checkout EXCEPT !.ready = TRUE, !.timed = TRUE]
           h == IF billing[r].clears THEN [Waiting EXCEPT !.phase = "clearing"] ELSE Waiting
<1>1. /\ account' = [account EXCEPT !.checkout = c] /\ Holds(r, h)
      /\ sessions' = sessions /\ subs' = subs /\ late' = late /\ changes' = changes /\ sent' = sent
      /\ past' = past /\ answered' = answered /\ recorded' = recorded /\ mails' = mails
  BY BillingTypes DEF CommitSession, notifications, provider, Account, Checkout
<1>2. c \in Checkout /\ c.key = account.checkout.key /\ c.plan = account.checkout.plan /\ c.timed
  BY BillingTypes DEF Checkout
<1>3. h \in Request /\ h.phase \in {"idle", "clearing"}
  BY WaitingType DEF Request
<1> HIDE DEF c, h
<1>4. account' \in Account /\ account'.checkout = c
  BY <1>1, <1>2, BillingTypes DEF Account
<1>5. /\ billing' \in [BillingRequests -> Request] /\ billing'[r] = h
      /\ \A q \in BillingRequests \ {r} : billing'[q] = billing[q]
  BY <1>1, <1>3, HoldsIs
<1>6. BillingTypeOK'
  BY <1>1, <1>4, <1>5 DEF BillingTypeOK
<1>7. CheckoutOnly
  BY <1>1, <1>2, <1>3, <1>4, <1>5, <1>6 DEF CheckoutOnly, RequestsHold
<1>8. QED BY <1>1, <1>2, <1>3, <1>4, <1>5, <1>7 DEF OneSteps

(* A checkout that is cleared closes its session, and forgets it if the    *)
(* process goes on.                                                        *)
LEMMA ClearIs ==
  ASSUME BillingTypeOK, RequestsHold, NEW r \in BillingRequests, NEW stops \in BOOLEAN,
         ClearCheckout(r, stops)
  PROVE  /\ CheckoutOnly /\ OneSteps(r) /\ late' = late
         /\ \A k \in CheckoutKeys :
              \/ sessions'[k] = sessions[k]
              \/ sessions[k].status = "open" /\ sessions'[k].status = "expired"
         /\ account' = account \/ account'.checkout.key = NoKey
         /\ account' # account /\ account.checkout.key \in CheckoutKeys
              /\ sessions'[account.checkout.key].status = "open" => past'.doubled
<1> DEFINE key == account.checkout.key
           c == IF stops THEN account.checkout ELSE NoCheckout
           closed(k) == account.checkout.ready /\ k = key /\ sessions[k].status = "open"
<1>1. /\ sessions' = [k \in CheckoutKeys |->
           IF closed(k) THEN [sessions[k] EXCEPT !.status = "expired"] ELSE sessions[k]]
      /\ account' = IF stops THEN account ELSE [account EXCEPT !.checkout = NoCheckout]
      /\ Ends(r)
      /\ subs' = subs /\ late' = late /\ changes' = changes /\ sent' = sent
      /\ LetsGo(IF stops THEN {} ELSE {key})
      /\ answered' = answered /\ recorded' = recorded /\ mails' = mails
  BY DEF ClearCheckout, notifications
<1>2. /\ c \in Checkout /\ account' = [account EXCEPT !.checkout = c]
      /\ c.key # NoKey => c = account.checkout
      /\ ~stops => c.key = NoKey
  BY <1>1, BillingTypes, WaitingType DEF Account, NoCheckout
<1>3. account' \in Account /\ account'.checkout = c
  BY <1>2, BillingTypes DEF Account
<1>4. /\ billing' \in [BillingRequests -> Request] /\ billing'[r] = Waiting
      /\ \A q \in BillingRequests \ {r} : billing'[q] = billing[q]
  BY <1>1, EndsIs
<1>5. sessions \in [CheckoutKeys -> [status : {"none", "open", "complete", "expired"}, plan : Ranks]]
  BY DEF BillingTypeOK
<1>6. ASSUME NEW k \in CheckoutKeys
      PROVE  /\ sessions'[k] \in [status : {"none", "open", "complete", "expired"}, plan : Ranks]
             /\ \/ sessions'[k] = sessions[k]
                \/ sessions[k].status = "open" /\ sessions'[k].status = "expired"
             /\ sessions'[k].plan = sessions[k].plan
             /\ sessions'[k].status # "none" => sessions[k].status # "none"
  <2>1. sessions[k] \in [status : {"none", "open", "complete", "expired"}, plan : Ranks]
    BY <1>5
  <2>2. CASE closed(k)
    BY <1>1, <2>1, <2>2
  <2>3. CASE ~closed(k)
    BY <1>1, <2>1, <2>3
  <2>4. QED BY <2>2, <2>3
<1> HIDE DEF c, closed
<1>7. sessions' \in [CheckoutKeys -> [status : {"none", "open", "complete", "expired"}, plan : Ranks]]
  BY <1>1, <1>6
<1>8. /\ past' \in [paid : SUBSET Plans, settled : SUBSET Subscriptions,
                    lapsed : SUBSET Subscriptions, doubled : BOOLEAN, cut : BOOLEAN]
      /\ past'.paid = past.paid /\ past'.settled = past.settled
      /\ past'.lapsed = past.lapsed /\ past'.cut = past.cut
      /\ past.doubled => past'.doubled
      /\ ~stops /\ sessions'[key].status = "open" => past'.doubled
  BY <1>1, LetsGoIs
<1>9. BillingTypeOK'
  BY <1>1, <1>3, <1>4, <1>7, <1>8 DEF BillingTypeOK
<1>10. CheckoutOnly
  BY <1>1, <1>2, <1>3, <1>4, <1>6, <1>8, <1>9, WaitingType DEF CheckoutOnly, RequestsHold
<1>11. QED BY <1>1, <1>2, <1>3, <1>4, <1>6, <1>8, <1>10, WaitingType DEF OneSteps

-----------------------------------------------------------------------------
(* The steps that look at a subscription.                                  *)

LEMMA AtMostOne ==
  ASSUME NEW S, IsFiniteSet(S), Cardinality(S) <= 1, NEW s \in S, NEW t \in S
  PROVE  s = t
<1>1. Cardinality(S) \in Nat
  BY FS_CardinalityType
<1>2. Cardinality(S) # 0
  BY FS_EmptySet
<1>3. Cardinality(S) = 1
  BY <1>1, <1>2
<1>4. \E x : S = {x}
  BY <1>3, FS_Singleton
<1>5. QED BY <1>4

(* The subscription that a request takes is the only one that is alive.    *)
LEMMA CurrentIs ==
  ASSUME BillingTypeOK, RequestsHold, NewsHolds, Selectable
  PROVE  /\ Current \in Subscriptions \cup {NoSubscription}
         /\ \A s \in LiveSubs : s = Current
         /\ LiveSubs = {} => Current = account.sub
         /\ Current = NoSubscription => LiveSubs = {} /\ account.sub = NoSubscription
         /\ Current # NoSubscription => subs[Current].status # "none"
<1>1. CASE LiveSubs = {}
  <2>1. Current = account.sub
    BY <1>1 DEF Current
  <2>2. QED BY <1>1, <2>1, BillingTypes DEF RequestsHold
<1>2. CASE LiveSubs # {}
  <2>1. Current \in LiveSubs
    BY <1>2 DEF Current
  <2>2. Current \in Subscriptions /\ Current # NoSubscription
    BY <2>1, BillingAssumption DEF LiveSubs
  <2>3. \A s \in LiveSubs : s = Current
    BY <2>1, AtMostOne DEF NewsHolds, Selectable
  <2>4. QED BY <1>2, <2>1, <2>2, <2>3 DEF LiveSubs
<1>3. QED BY <1>1, <1>2

FindSame ==
  /\ sessions' = sessions /\ subs' = subs /\ late' = late /\ changes' = changes /\ sent' = sent
  /\ past' = past /\ answered' = answered /\ recorded' = recorded /\ mails' = mails

(* Only the subscription of the account changes.                           *)
LEMMA FindIs ==
  ASSUME BillingTypeOK, NEW r \in BillingRequests, NEW p \in Plans, NEW s \in Subscriptions,
         FindSubscription(r, p, s)
  PROVE  /\ BillingTypeOK' /\ FindSame /\ ~CompanyLocked /\ s \in LiveSubs
         /\ account' = [account EXCEPT !.sub = s] /\ account'.sub = s
         /\ billing'[r] = Waiting
         /\ \A q \in BillingRequests \ {r} : billing'[q] = billing[q]
<1>1. /\ FindSame /\ ~CompanyLocked /\ s \in LiveSubs
      /\ account' = [account EXCEPT !.sub = s] /\ Ends(r)
  BY DEF FindSubscription, Asks, FindSame, provider, notifications
<1>2. /\ billing' \in [BillingRequests -> Request] /\ billing'[r] = Waiting
      /\ \A q \in BillingRequests \ {r} : billing'[q] = billing[q]
  BY <1>1, EndsIs
<1>3. account' \in Account /\ account'.sub = s
  BY <1>1, BillingTypes DEF Account
<1>4. BillingTypeOK'
  BY <1>1, <1>2, <1>3 DEF BillingTypeOK, FindSame
<1>5. QED BY <1>1, <1>2, <1>3, <1>4

(* A request takes x, and e is what it answers.                            *)
Selects(r, x, e) ==
  /\ ~CompanyLocked /\ account' = account /\ FindSame
  /\ x \in Subscriptions \cup {NoSubscription} /\ e \in sent \cup {NoEvent}
  /\ billing'[r].phase = "selected" /\ billing'[r].sub = x /\ billing'[r].event = e
  /\ ~billing'[r].clears
  /\ \A q \in BillingRequests \ {r} : billing'[q] = billing[q]
  /\ \A s \in LiveSubs : s = x
  /\ IF x = NoSubscription THEN account.sub = NoSubscription ELSE subs[x].status # "none"

(* A request that takes the only subscription that is alive.               *)
LEMMA SelectedIs ==
  ASSUME BillingTypeOK, NEW r \in BillingRequests, NEW x \in Subscriptions \cup {NoSubscription},
         NEW e \in sent \cup {NoEvent}, ~CompanyLocked,
         NEW h \in Request, Holds(r, h),
         h.phase = "selected", h.sub = x, h.event = e, ~h.clears,
         UNCHANGED <<account, provider, notifications>>,
         \A s \in LiveSubs : s = x,
         IF x = NoSubscription THEN account.sub = NoSubscription ELSE subs[x].status # "none"
  PROVE  BillingTypeOK' /\ Selects(r, x, e)
<1>1. FindSame /\ account' = account
  BY DEF FindSame, provider, notifications
<1>2. /\ billing' \in [BillingRequests -> Request] /\ billing'[r] = h
      /\ \A q \in BillingRequests \ {r} : billing'[q] = billing[q]
  BY HoldsIs
<1>3. BillingTypeOK'
  BY <1>1, <1>2 DEF BillingTypeOK, FindSame
<1>4. QED BY <1>1, <1>2, <1>3 DEF Selects

(* "Update state" takes the current subscription.                          *)
LEMMA SelectUpdateIs ==
  ASSUME BillingTypeOK, RequestsHold, NewsHolds, NEW r \in BillingRequests, SelectForUpdate(r)
  PROVE  BillingTypeOK' /\ Selects(r, Current, NoEvent)
<1> DEFINE h == [Waiting EXCEPT !.phase = "selected", !.sub = Current]
<1>1. /\ ~CompanyLocked /\ Selectable /\ Current # NoSubscription /\ Holds(r, h)
      /\ UNCHANGED <<account, provider, notifications>>
  BY DEF SelectForUpdate, Begins
<1>2. /\ Current \in Subscriptions \cup {NoSubscription} /\ subs[Current].status # "none"
      /\ \A s \in LiveSubs : s = Current
  BY <1>1, CurrentIs
<1>3. /\ h \in Request /\ h.phase = "selected" /\ h.sub = Current
      /\ h.event = NoEvent /\ ~h.clears
  BY <1>2, WaitingType DEF Request
<1> HIDE DEF h
<1>4. QED BY <1>1, <1>2, <1>3, SelectedIs

(* A notification takes the one it names.                                  *)
LEMMA SelectEventIs ==
  ASSUME BillingTypeOK, RequestsHold, NewsHolds, NEW r \in BillingRequests, NEW e \in sent,
         SelectForEvent(r, e)
  PROVE  BillingTypeOK' /\ Selects(r, Named(e), e)
<1> DEFINE h == [Waiting EXCEPT !.phase = "selected", !.sub = Named(e), !.event = e]
<1>1. /\ ~CompanyLocked /\ Selectable /\ ~Foreign(e)
      /\ Holds(r, h) /\ UNCHANGED <<account, provider, notifications>>
  BY DEF SelectForEvent, Begins
<1>2. e.sub \in Subscriptions /\ e.sub # NoSubscription /\ subs[e.sub].status # "none"
  BY BillingAssumption DEF BillingTypeOK, Event, RequestsHold, SentHold
<1>3. /\ Named(e) \in Subscriptions \cup {NoSubscription}
      /\ \A s \in LiveSubs : s = Named(e)
      /\ IF Named(e) = NoSubscription THEN account.sub = NoSubscription
         ELSE subs[Named(e)].status # "none"
  <2>1. CASE Named(e) = Current
    BY <1>1, <2>1, CurrentIs
  <2>2. CASE Named(e) # Current
    <3>1. Named(e) = e.sub /\ Current = NoSubscription
      BY <1>1, <2>2 DEF Named, Foreign
    <3>2. LiveSubs = {}
      BY <1>1, <3>1, CurrentIs
    <3>3. QED BY <1>2, <3>1, <3>2
  <2>3. QED BY <2>1, <2>2
<1>4. e \in Event
  BY DEF BillingTypeOK
<1>5. h \in Request /\ h.phase = "selected" /\ h.sub = Named(e) /\ h.event = e /\ ~h.clears
  BY <1>3, <1>4, WaitingType DEF Request
<1> HIDE DEF h
<1>6. QED BY <1>1, <1>3, <1>5, SelectedIs

(* What is read is the subscription as it is.                              *)
LEMMA RetrieveIs ==
  ASSUME BillingTypeOK, NEW r \in BillingRequests, RetrieveSubscription(r)
  PROVE  /\ BillingTypeOK' /\ account' = account /\ FindSame
         /\ billing[r].phase = "selected" /\ billing[r].sub \in Subscriptions
         /\ billing'[r] = [billing[r] EXCEPT !.phase = "syncing", !.seen = subs[billing[r].sub]]
         /\ billing'[r].phase = "syncing" /\ billing'[r].seen = subs[billing[r].sub]
         /\ billing'[r].sub = billing[r].sub /\ billing'[r].event = billing[r].event
         /\ billing'[r].clears = billing[r].clears
         /\ \A q \in BillingRequests \ {r} : billing'[q] = billing[q]
<1> DEFINE h == [billing[r] EXCEPT !.phase = "syncing", !.seen = subs[billing[r].sub]]
<1>1. /\ billing[r].phase = "selected" /\ billing[r].sub # NoSubscription
      /\ Holds(r, h) /\ FindSame /\ account' = account
  BY DEF RetrieveSubscription, Retrieved, FindSame, provider, notifications
<1>2. billing[r].sub \in Subscriptions /\ subs[billing[r].sub] \in Contract /\ billing[r] \in Request
  BY <1>1, BillingTypes
<1>3. /\ h \in Request /\ h.phase = "syncing" /\ h.seen = subs[billing[r].sub]
      /\ h.sub = billing[r].sub /\ h.event = billing[r].event /\ h.clears = billing[r].clears
  BY <1>2 DEF Request
<1> HIDE DEF h
<1>4. /\ billing' \in [BillingRequests -> Request] /\ billing'[r] = h
      /\ \A q \in BillingRequests \ {r} : billing'[q] = billing[q]
  BY <1>1, <1>3, HoldsIs
<1>5. BillingTypeOK'
  BY <1>1, <1>4 DEF BillingTypeOK, FindSame
<1>6. QED BY <1>1, <1>2, <1>3, <1>4, <1>5 DEF h

(* What is committed after a look.                                         *)
LEMMA CommitSyncIs ==
  ASSUME BillingTypeOK, RequestsHold, NEW r \in BillingRequests, NEW paid \in BOOLEAN,
         NEW stops \in BOOLEAN, CommitSync(r, paid, stops)
  PROVE  LET s == billing[r].sub
             e == billing[r].event
             read == Synced(account, s, billing[r].seen) IN
         /\ BillingTypeOK' /\ Busy(r)
         /\ sessions' = sessions /\ subs' = subs /\ late' = late /\ changes' = changes /\ sent' = sent
         /\ past'.paid = past.paid /\ past'.settled = past.settled
         /\ past'.lapsed = past.lapsed /\ past'.cut = past.cut /\ (past.doubled => past'.doubled)
         /\ billing'[r] = Waiting
         /\ \A q \in BillingRequests \ {r} : billing'[q] = billing[q]
         /\ answered' \subseteq answered \cup {e}
         /\ mails' = mails \/ (mails' = mails + 1 /\ ~account.noticed /\ account'.noticed)
         /\ account.noticed => account'.noticed
         /\ account'.checkout.key = account.checkout.key
         /\ account'.checkout.plan = account.checkout.plan
         /\ \/ account'.checkout.timed = account.checkout.timed
            \/ account.checkout.key \in CheckoutKeys
                 /\ sessions[account.checkout.key].status = "open" => past'.doubled
         /\ s = NoSubscription => account'.sub = account.sub /\ account'.status = account.status
                                  /\ account'.plan = account.plan /\ account'.grace = account.grace
                                  /\ ~Syncing(r)
         /\ s # NoSubscription =>
              /\ Syncing(r) /\ s \in Subscriptions /\ account'.sub = s
              /\ account'.status = read.status /\ account'.plan = read.plan
              /\ account'.grace = read.grace
              /\ account'.pending = IF billing[r].clears THEN 0 ELSE read.pending
              /\ Fresh(account', billing[r].seen)
<1> DEFINE s == billing[r].sub
           e == billing[r].event
           read == IF s = NoSubscription THEN account ELSE Synced(account, s, billing[r].seen)
           c == [account.checkout EXCEPT !.timed = @ /\ ~Completes(r)]
           says == account.noticed \/ Announces(r, paid)
           pends == IF billing[r].clears THEN 0 ELSE read.pending
<1>1. /\ billing[r].phase = "syncing" \/ (billing[r].phase = "selected" /\ s = NoSubscription)
      /\ account' = [Reconciled(r) EXCEPT !.noticed = @ \/ Announces(r, paid)]
      /\ answered' = IF e = NoEvent THEN answered ELSE answered \cup {e}
      /\ recorded' = IF e = NoEvent THEN recorded ELSE recorded \cup {e}
      /\ mails' = IF Announces(r, paid) /\ ~stops THEN mails + 1 ELSE mails
      /\ Ends(r)
      /\ sessions' = sessions /\ subs' = subs /\ late' = late /\ changes' = changes /\ sent' = sent
      /\ LetsGo(IF Completes(r) THEN {account.checkout.key} \ {NoKey} ELSE {})
  BY DEF CommitSync
<1>2. /\ s \in Subscriptions \cup {NoSubscription} /\ billing[r].seen \in Contract
      /\ billing[r].clears \in BOOLEAN /\ account \in Account /\ account.checkout \in Checkout
      /\ account.noticed \in BOOLEAN /\ e \in Event \cup {NoEvent}
  BY BillingTypes
<1>3. Busy(r) /\ (s = NoSubscription => ~Syncing(r)) /\ (s # NoSubscription => Syncing(r))
  BY <1>1 DEF Busy, Syncing, RequestsHold, RequestHolds
<1>4. /\ read \in Account /\ read.checkout = account.checkout /\ read.noticed = account.noticed
      /\ s # NoSubscription => read.sub = s /\ Fresh(read, billing[r].seen)
  BY <1>2, SyncedIs
<1>5. Reconciled(r) = [read EXCEPT !.checkout.timed = @ /\ ~Completes(r),
                                   !.pending = IF billing[r].clears THEN 0 ELSE @]
  BY DEF Reconciled
<1> HIDE DEF read
<1>6. Completes(r) \in BOOLEAN /\ Announces(r, paid) \in BOOLEAN /\ says \in BOOLEAN
  BY DEF Completes, Announces
<1>7. c \in Checkout /\ c.key = account.checkout.key /\ c.plan = account.checkout.plan
      /\ (~Completes(r) => c.timed = account.checkout.timed)
  BY <1>2, <1>6 DEF Checkout
<1>8. pends \in Ranks /\ read.pending \in Ranks
  BY <1>2, <1>4, WaitingType DEF Account
<1>9. Reconciled(r) = [read EXCEPT !.checkout = c, !.pending = pends]
  BY <1>4, <1>5 DEF Account
<1>10. account' = [read EXCEPT !.checkout = c, !.pending = pends, !.noticed = says]
  <2>1. Reconciled(r).noticed = account.noticed
    BY <1>4, <1>9 DEF Account
  <2>2. QED BY <1>1, <1>4, <1>9, <2>1 DEF Account
<1> HIDE DEF c, pends, says
<1>11. /\ account' \in Account /\ account'.sub = read.sub /\ account'.status = read.status
       /\ account'.plan = read.plan /\ account'.grace = read.grace
       /\ account'.checkout = c /\ account'.pending = pends /\ account'.noticed = says
  BY <1>4, <1>6, <1>7, <1>8, <1>10 DEF Account
<1>12. /\ past' \in [paid : SUBSET Plans, settled : SUBSET Subscriptions,
                     lapsed : SUBSET Subscriptions, doubled : BOOLEAN, cut : BOOLEAN]
       /\ past'.paid = past.paid /\ past'.settled = past.settled
       /\ past'.lapsed = past.lapsed /\ past'.cut = past.cut
       /\ past.doubled => past'.doubled
       /\ \A k \in IF Completes(r) THEN {account.checkout.key} \ {NoKey} ELSE {} :
            sessions'[k].status = "open" => past'.doubled
  BY <1>1, LetsGoIs
<1>13. \/ account'.checkout.timed = account.checkout.timed
       \/ account.checkout.key \in CheckoutKeys
            /\ sessions[account.checkout.key].status = "open" => past'.doubled
  <2>1. CASE ~Completes(r)
    BY <1>7, <1>11, <2>1
  <2>2. CASE Completes(r)
    BY <1>1, <1>12, <2>2, BillingAssumption
  <2>3. QED BY <2>1, <2>2
<1>14. /\ billing' \in [BillingRequests -> Request] /\ billing'[r] = Waiting
       /\ \A q \in BillingRequests \ {r} : billing'[q] = billing[q]
  BY <1>1, EndsIs
<1>15. e = NoEvent \/ e \in sent
  BY <1>3 DEF RequestsHold, RequestHolds
<1>16. answered' \subseteq sent' /\ recorded' \subseteq answered' /\ answered' \subseteq answered \cup {e}
  BY <1>1, <1>15 DEF BillingTypeOK
<1>17. /\ mails' \in Nat
       /\ mails' = mails \/ (mails' = mails + 1 /\ ~account.noticed /\ account'.noticed)
       /\ account.noticed => account'.noticed
  BY <1>1, <1>11, BillingTypes DEF says, Announces
<1>18. BillingTypeOK'
  BY <1>1, <1>11, <1>12, <1>14, <1>16, <1>17 DEF BillingTypeOK
<1>19. s # NoSubscription => Fresh(account', billing[r].seen)
  <2>1. pends = 0 \/ pends = read.pending
    BY DEF pends
  <2>2. CASE pends = read.pending
    BY <1>4, <1>11, <2>2 DEF Fresh
  <2>3. CASE pends = 0
    BY <1>4, <1>11, <2>3 DEF Fresh
  <2>4. QED BY <2>1, <2>2, <2>3
<1>20. QED
  BY <1>1, <1>2, <1>3, <1>4, <1>7, <1>11, <1>12, <1>13, <1>14, <1>16, <1>17, <1>18, <1>19
     DEF read, pends

-----------------------------------------------------------------------------
(* The steps that only change what the page says, or answer.               *)

LEMMA DowngradeIs ==
  ASSUME BillingTypeOK, NEW r \in BillingRequests, NEW p \in Plans, RequestDowngrade(r, p)
  PROVE  /\ BillingTypeOK' /\ FindSame /\ Begins(r) /\ account.sub # NoSubscription
         /\ subs[account.sub].schedule # 0 => account.pending = p
         /\ p < subs[account.sub].plan
         /\ account' = [account EXCEPT !.pending = p]
         /\ billing'[r].phase = "scheduling"
         /\ \A q \in BillingRequests \ {r} : billing'[q] = billing[q]
<1> DEFINE h == [Waiting EXCEPT !.phase = "scheduling", !.plan = p]
<1>1. /\ FindSame /\ Begins(r) /\ account.sub # NoSubscription
      /\ subs[account.sub].schedule # 0 => account.pending = p
      /\ p < subs[account.sub].plan
      /\ account' = [account EXCEPT !.pending = p] /\ Holds(r, h)
  BY DEF RequestDowngrade, Changeable, FindSame, provider, notifications
<1>2. p \in Ranks
  BY DEF Ranks
<1>3. h \in Request /\ h.phase = "scheduling"
  BY <1>2, WaitingType DEF Request
<1> HIDE DEF h
<1>4. /\ billing' \in [BillingRequests -> Request] /\ billing'[r] = h
      /\ \A q \in BillingRequests \ {r} : billing'[q] = billing[q]
  BY <1>1, <1>3, HoldsIs
<1>5. account' \in Account
  BY <1>1, <1>2, BillingTypes DEF Account
<1>6. BillingTypeOK'
  BY <1>1, <1>4, <1>5 DEF BillingTypeOK, FindSame
<1>7. QED BY <1>1, <1>3, <1>4, <1>6

(* A grace that runs is over.                                              *)
LEMMA GraceIs ==
  ASSUME BillingTypeOK, GraceEnds
  PROVE  /\ BillingTypeOK' /\ FindSame /\ billing' = billing
         /\ account.grace = "running" /\ account' = [account EXCEPT !.grace = "over"]
<1>1. /\ FindSame /\ billing' = billing
      /\ account.grace = "running" /\ account' = [account EXCEPT !.grace = "over"]
  BY DEF GraceEnds, FindSame, provider, notifications
<1>2. account' \in Account
  BY <1>1, BillingTypes DEF Account
<1>3. QED BY <1>1, <1>2 DEF BillingTypeOK, FindSame

(* A notification is answered, and nothing else changes.                   *)
LEMMA IgnoreIs ==
  ASSUME BillingTypeOK, NEW e \in sent, IgnoreEvent(e)
  PROVE  /\ BillingTypeOK' /\ billing' = billing /\ account' = account
         /\ ~CompanyLocked /\ Selectable /\ Foreign(e)
         /\ answered' = answered \cup {e}
         /\ sessions' = sessions /\ subs' = subs /\ late' = late /\ changes' = changes
         /\ sent' = sent /\ past' = past /\ mails' = mails
<1>1. /\ billing' = billing /\ account' = account /\ ~CompanyLocked /\ Selectable /\ Foreign(e)
      /\ answered' = answered \cup {e} /\ recorded' = recorded
      /\ sessions' = sessions /\ subs' = subs /\ late' = late /\ changes' = changes
      /\ sent' = sent /\ past' = past /\ mails' = mails
  BY DEF IgnoreEvent, provider
<1>2. QED BY <1>1 DEF BillingTypeOK

-----------------------------------------------------------------------------
(* What keeps each part of the invariant.                                  *)

LEMMA RequestsStay ==
  ASSUME RequestsHold,
         OneLocks',
         account'.sub # NoSubscription => subs'[account'.sub].status # "none",
         account.sub # NoSubscription => account'.sub # NoSubscription,
         SentHold', sent \subseteq sent',
         \A s \in Subscriptions :
           /\ subs[s].status # "none" => subs'[s].status # "none"
           /\ subs'[s].status # "none" => subs'[s].plan \in Plans,
         \A q \in BillingRequests : billing[q].sub \in Subscriptions \cup {NoSubscription},
         \A k \in CheckoutKeys : sessions'[k].status # "none" => sessions'[k].plan \in Plans,
         account'.checkout.key # NoKey => account'.checkout.plan \in Plans,
         account'.sub # account.sub =>
           \A q \in BillingRequests : billing'[q] = billing[q] => ~Busy(q),
         \A q \in BillingRequests : billing'[q] = billing[q] \/ RequestHolds(q)'
  PROVE  RequestsHold'
<1>1. ASSUME NEW q \in BillingRequests PROVE RequestHolds(q)'
  <2>1. CASE billing'[q] = billing[q]
    <3>1. RequestHolds(q)
      BY DEF RequestsHold
    <3>2. Busy(q)' = Busy(q) /\ Syncing(q)' = Syncing(q)
      BY <2>1 DEF Busy, Syncing
    <3>3. billing[q].sub \in Subscriptions => (subs[billing[q].sub].status # "none"
                                                => subs'[billing[q].sub].status # "none")
      OBVIOUS
    <3>4. QED BY <2>1, <3>1, <3>2, <3>3 DEF RequestHolds
  <2>2. QED BY <2>1
<1>2. QED BY <1>1 DEF RequestsHold

(* The money, when what was paid stays paid.                               *)
LEMMA MoneyStays ==
  ASSUME MoneyHolds, past.paid \subseteq past'.paid, past.lapsed \subseteq past'.lapsed,
         \A s \in Subscriptions :
           MoneyOf(s)' /\ (subs[s].status = "canceled" => subs'[s].status = "canceled"),
         \A q \in BillingRequests : Syncing(q) => billing[q].sub \in Subscriptions,
         \A q \in BillingRequests :
           billing'[q] = billing[q] \/ (Syncing(q)' => SeenHolds(q)'),
         ActivePlanWasPaid', mails' <= IF account'.noticed THEN 1 ELSE 0
  PROVE  MoneyHolds'
<1>1. ASSUME NEW q \in BillingRequests, Syncing(q)' PROVE SeenHolds(q)'
  <2>1. CASE billing'[q] = billing[q]
    <3>1. Syncing(q)
      BY <1>1, <2>1 DEF Syncing
    <3>2. SeenHolds(q)
      BY <3>1 DEF MoneyHolds
    <3>3. QED BY <2>1, <3>1, <3>2 DEF SeenHolds
  <2>2. QED BY <1>1, <2>1
<1>2. QED BY <1>1 DEF MoneyHolds

(* The sessions and the subscriptions that are alive are no more.          *)
LEMMA OpenSessionsStay ==
  ASSUME SessionsHold, sessions' = sessions, late' = late,
         account'.checkout = account.checkout, past.doubled => past'.doubled,
         LiveSubs' \subseteq LiveSubs
  PROVE  SessionsHold'
BY DEF SessionsHold

(* The schedules, when the subscriptions and what is shown are the same.   *)
LEMMA SchedulesStay ==
  ASSUME BillingTypeOK, SchedulesHold, past.cut => past'.cut, past.doubled => past'.doubled,
         account'.sub = account.sub, account'.pending = account.pending, subs' = subs,
         \A q \in BillingRequests : billing'[q] = billing[q] \/ ~Busy(q)'
  PROVE  SchedulesHold'
<1>1. ASSUME ~past'.cut, ~past'.doubled, NEW s \in Subscriptions, subs'[s].schedule # 0
      PROVE  ScheduleOf(s)'
  <2>1. /\ account.sub = s /\ Shown(s)
        /\ \A q \in BillingRequests : Busy(q) => Untouched(s, q)
    BY <1>1 DEF SchedulesHold, ScheduleOf
  <2>2. Shown(s)'
    BY <2>1 DEF Shown
  <2>3. ASSUME NEW q \in BillingRequests, Busy(q)' PROVE Untouched(s, q)'
    <3>1. billing'[q] = billing[q] /\ Busy(q) /\ Syncing(q)' = Syncing(q)
      BY <2>3 DEF Busy, Syncing
    <3>2. QED BY <2>1, <3>1 DEF Untouched
  <2>4. QED BY <2>1, <2>2, <2>3 DEF ScheduleOf
<1>2. QED BY <1>1 DEF SchedulesHold

(* What is still to be told, when nothing is told or answered.             *)
LEMMA NewsStay ==
  ASSUME BillingTypeOK, NewsHolds, account'.sub = account.sub, subs' = subs,
         sent' = sent, answered' = answered,
         \A s \in Subscriptions :
           s = account.sub /\ Fresh(account, subs[s]) => Fresh(account', subs[s]),
         \A q \in BillingRequests : billing'[q] = billing[q] \/ ~Busy(q)'
  PROVE  NewsHolds'
<1>1. LiveSubs' = LiveSubs
  BY DEF LiveSubs
<1>2. \A s \in Subscriptions : s = account'.sub =>
        Fresh(account', subs'[s]) \/ \E e \in sent' \ answered' : LooksAt(e, s)
  BY DEF NewsHolds
<1>3. ASSUME NEW q \in BillingRequests, Busy(q)' PROVE NewsOf(q)'
  <2>1. billing'[q] = billing[q] /\ Busy(q) /\ Syncing(q)' = Syncing(q)
    BY <1>3 DEF Busy, Syncing
  <2>2. NewsOf(q)
    BY <2>1 DEF NewsHolds
  <2>3. QED BY <1>1, <2>1, <2>2 DEF NewsOf, LooksAt
<1>4. QED BY <1>1, <1>2, <1>3 DEF NewsHolds

(* A step of a checkout keeps all but what it may do to the sessions.      *)
LEMMA CheckoutKeeps ==
  ASSUME BillingTypeOK, RequestsHold, MoneyHolds, SchedulesHold, NewsHolds, CheckoutOnly,
         billing' = billing \/ \E r \in BillingRequests : OneSteps(r)
  PROVE  RequestsHold' /\ MoneyHolds' /\ SchedulesHold' /\ NewsHolds'
<1>1. /\ BillingTypeOK' /\ subs' = subs /\ changes' = changes /\ sent' = sent
      /\ answered' = answered /\ mails' = mails
      /\ past'.paid = past.paid /\ past'.settled = past.settled
      /\ past'.lapsed = past.lapsed /\ past'.cut = past.cut /\ (past.doubled => past'.doubled)
      /\ \A q \in BillingRequests :
           billing'[q] = billing[q] \/ billing'[q].phase \notin {"selected", "syncing", "scheduling"}
  BY DEF CheckoutOnly
<1>2. PICK c \in Checkout : account' = [account EXCEPT !.checkout = c]
  BY DEF CheckoutOnly
<1>3. /\ account'.sub = account.sub /\ account'.plan = account.plan
      /\ account'.status = account.status /\ account'.grace = account.grace
      /\ account'.pending = account.pending /\ account'.noticed = account.noticed
  BY <1>2, BillingTypes DEF Account
<1>4. \A q \in BillingRequests : billing'[q] = billing[q] \/ (~Busy(q)' /\ RequestHolds(q)')
  BY <1>1 DEF Busy, Syncing, RequestHolds
<1>5. RequestsHold'
  <2>1. OneLocks'
    <3>1. CASE billing' = billing
      BY <3>1 DEF RequestsHold, OneLocks
    <3>2. CASE \E r \in BillingRequests : OneSteps(r)
      BY <3>2, OneLock
    <3>3. QED BY <3>1, <3>2
  <2>2. SentHold'
    BY <1>1 DEF RequestsHold, SentHold
  <2>3. \A s \in Subscriptions : subs'[s].status # "none" => subs'[s].plan \in Plans
    BY <1>1 DEF RequestsHold
  <2>4. /\ account'.checkout.key # NoKey => account'.checkout.plan \in Plans
        /\ \A k \in CheckoutKeys : sessions'[k].status # "none" => sessions'[k].plan \in Plans
    BY DEF CheckoutOnly
  <2>5. account.sub # NoSubscription => subs[account.sub].status # "none"
    BY DEF RequestsHold
  <2>6. \A q \in BillingRequests : billing[q].sub \in Subscriptions \cup {NoSubscription}
    BY BillingTypes
  <2>7. QED BY <1>1, <1>3, <1>4, <2>1, <2>2, <2>3, <2>4, <2>5, <2>6, RequestsStay
<1>6. MoneyHolds'
  <2>1. \A s \in Subscriptions : MoneyOf(s)'
    BY <1>1 DEF MoneyHolds, MoneyOf
  <2>2. ActivePlanWasPaid' /\ mails' <= IF account'.noticed THEN 1 ELSE 0
    BY <1>1, <1>3 DEF MoneyHolds, ActivePlanWasPaid
  <2>3. \A q \in BillingRequests : Syncing(q) => billing[q].sub \in Subscriptions
    BY BillingTypes DEF RequestsHold, RequestHolds
  <2>4. \A q \in BillingRequests : billing'[q] = billing[q] \/ ~Syncing(q)'
    BY <1>1 DEF Syncing
  <2>5. QED BY <1>1, <2>1, <2>2, <2>3, <2>4, MoneyStays
<1>7. SchedulesHold'
  BY <1>1, <1>3, <1>4, SchedulesStay
<1>8. NewsHolds'
  <2>1. \A s \in Subscriptions : Fresh(account, subs[s]) => Fresh(account', subs[s])
    BY <1>3 DEF Fresh
  <2>2. QED BY <1>1, <1>3, <1>4, <2>1, NewsStay
<1>9. QED BY <1>5, <1>6, <1>7, <1>8

-----------------------------------------------------------------------------
(* A subscription changes, and it is told.                                 *)

Turned(s) ==
  /\ BillingTypeOK' /\ SentHold' /\ OnlySub(s) /\ Told(s)
  /\ subs'[s].status # "none" /\ subs'[s].plan \in Plans
  /\ \A k \in CheckoutKeys : sessions'[k].status # "none" => sessions'[k].plan \in Plans
  /\ \/ account' = account
     \/ account.sub = s /\ account'.sub = s /\ account'.checkout = account.checkout
  /\ \/ s \in LiveSubs' => s \in LiveSubs
     \/ \E e \in sent' \ answered' : e.kind # "subscription" /\ e \notin sent
  /\ \/ billing' = billing
     \/ /\ account.sub = s /\ ~CompanyLocked
        /\ \E r \in BillingRequests :
             /\ \A q \in BillingRequests \ {r} : billing'[q] = billing[q]
             /\ \/ billing'[r] = Waiting
                \/ /\ billing'[r].phase = "syncing" /\ billing'[r].sub = s
                   /\ billing'[r].seen = subs'[s] /\ billing'[r].event = NoEvent

(* One request at most has the lock, and knows what it changed.            *)
LEMMA TurnedRequests ==
  ASSUME BillingTypeOK, RequestsHold, NEW s \in Subscriptions, Turned(s)
  PROVE  RequestsHold'
<1>1. /\ SentHold' /\ OnlySub(s) /\ Told(s) /\ subs'[s].status # "none" /\ subs'[s].plan \in Plans
      /\ \A k \in CheckoutKeys : sessions'[k].status # "none" => sessions'[k].plan \in Plans
      /\ account'.sub = account.sub /\ account'.checkout = account.checkout
  BY DEF Turned
<1>2. \A t \in Subscriptions :
        /\ subs[t].status # "none" => subs'[t].status # "none"
        /\ subs'[t].status # "none" => subs'[t].plan \in Plans
  BY <1>1 DEF OnlySub, RequestsHold
<1>3. account.sub # NoSubscription => subs'[account.sub].status # "none"
  BY <1>2, BillingTypes DEF RequestsHold
<1>4. OneLocks' /\ \A q \in BillingRequests : billing'[q] = billing[q] \/ RequestHolds(q)'
  <2>1. CASE billing' = billing
    BY <2>1 DEF RequestsHold, OneLocks
  <2>2. ASSUME NEW r \in BillingRequests, ~CompanyLocked,
               \A q \in BillingRequests \ {r} : billing'[q] = billing[q],
               \/ billing'[r] = Waiting
               \/ /\ billing'[r].phase = "syncing" /\ billing'[r].sub = s
                  /\ billing'[r].seen = subs'[s] /\ billing'[r].event = NoEvent
        PROVE  OneLocks' /\ \A q \in BillingRequests : billing'[q] = billing[q] \/ RequestHolds(q)'
    <3>1. RequestHolds(r)'
      <4>1. CASE billing'[r] = Waiting
        BY <4>1, WaitingType DEF RequestHolds, Busy, Syncing
      <4>2. CASE billing'[r] # Waiting
        BY <1>1, <2>2, <4>2, BillingAssumption DEF RequestHolds, Busy, Syncing
      <4>3. QED BY <4>1, <4>2
    <3>2. QED BY <2>2, <3>1 DEF CompanyLocked, OneLocks
  <2>3. QED BY <2>1, <2>2 DEF Turned
<1>5. account'.checkout.key # NoKey => account'.checkout.plan \in Plans
  BY <1>1 DEF RequestsHold
<1>6. sent \subseteq sent' /\ \A q \in BillingRequests : billing[q].sub \in Subscriptions \cup {NoSubscription}
  BY <1>1, BillingTypes DEF Told
<1>7. QED BY <1>1, <1>2, <1>3, <1>4, <1>5, <1>6, RequestsStay

(* Who has read, or knows, something else is told.                         *)
LEMMA TurnedNews ==
  ASSUME BillingTypeOK, RequestsHold, NewsHolds, NEW s \in Subscriptions, Turned(s)
  PROVE  NewsHolds'
<1>1. /\ OnlySub(s) /\ sent \subseteq sent' /\ answered' = answered
      /\ account'.sub = account.sub /\ (account' = account \/ account.sub = s)
      /\ sent' \subseteq Event
  BY DEF Turned, Told, BillingTypeOK
<1>2. PICK n \in sent' \ answered' : n.sub = s /\ n \notin sent
  BY DEF Turned, Told
<1>3. LiveSubs' \subseteq LiveSubs \cup {s}
  BY <1>1 DEF LiveSubs, OnlySub
<1>4. IsFiniteSet(LiveSubs')
  <2>1. IsFiniteSet(LiveSubs \cup {s})
    BY FS_AddElement DEF NewsHolds
  <2>2. QED BY <1>3, <2>1, FS_Subset
<1>5. \/ LiveSubs' \subseteq LiveSubs
      \/ \E e \in sent' \ answered' : e.kind # "subscription" /\ e \notin sent
  BY <1>3 DEF Turned
<1>6. \A t \in LiveSubs' : t # account.sub => \E e \in sent' \ answered' : e.kind # "subscription"
  BY <1>1, <1>5 DEF NewsHolds
<1>7. \A t \in Subscriptions : t = account.sub =>
        Fresh(account', subs'[t]) \/ \E e \in sent' \ answered' : LooksAt(e, t)
  <2> SUFFICES ASSUME NEW t \in Subscriptions, t = account.sub
               PROVE Fresh(account', subs'[t]) \/ \E e \in sent' \ answered' : LooksAt(e, t)
    OBVIOUS
  <2>1. CASE t = s
    BY <1>2, <2>1 DEF LooksAt
  <2>2. CASE t # s
    BY <1>1, <2>2 DEF OnlySub, NewsHolds
  <2>3. QED BY <2>1, <2>2
<1>8. NoEvent \notin sent'
  BY <1>1, BillingAssumption DEF Event, NoEvent
<1>9. ASSUME NEW q \in BillingRequests, billing'[q] = billing[q], Busy(q)' PROVE NewsOf(q)'
  <2>1. Busy(q) /\ Syncing(q)' = Syncing(q) /\ NewsOf(q)
    BY <1>9 DEF Busy, Syncing, NewsHolds
  <2>2. billing[q].event \in sent \cup {NoEvent}
    BY <2>1 DEF RequestsHold, RequestHolds
  <2>3. \A e \in sent' : e \notin sent => e # billing[q].event
    BY <1>8, <2>2
  <2>4. \A t \in LiveSubs' : t # billing[q].sub =>
          \E e \in sent' \ answered' : e.kind # "subscription" /\ e # billing[q].event
    BY <1>1, <1>5, <2>1, <2>3 DEF NewsOf
  <2>5. Syncing(q) /\ subs'[billing[q].sub] # billing[q].seen =>
          \E e \in sent' \ answered' : LooksAt(e, billing[q].sub) /\ e # billing[q].event
    <3> SUFFICES ASSUME Syncing(q), subs'[billing[q].sub] # billing[q].seen
                 PROVE \E e \in sent' \ answered' : LooksAt(e, billing[q].sub) /\ e # billing[q].event
      OBVIOUS
    <3>1. billing[q].sub \in Subscriptions
      BY BillingTypes DEF RequestsHold, RequestHolds
    <3>2. CASE billing[q].sub = s
      BY <1>2, <2>3, <3>2 DEF LooksAt
    <3>3. CASE billing[q].sub # s
      BY <1>1, <2>1, <3>1, <3>3 DEF OnlySub, NewsOf
    <3>4. QED BY <3>2, <3>3
  <2>6. QED BY <1>9, <2>1, <2>4, <2>5 DEF NewsOf, LooksAt
<1>10. ASSUME NEW q \in BillingRequests, Busy(q)' PROVE NewsOf(q)'
  <2>1. CASE billing'[q] = billing[q]
    BY <1>9, <1>10, <2>1
  <2>2. CASE billing'[q] # billing[q]
    <3>1. /\ account.sub = s /\ billing'[q].sub = s /\ billing'[q].seen = subs'[s]
          /\ billing'[q].event = NoEvent
      BY <1>10, <2>2, WaitingType DEF Turned, Busy
    <3>2. \A t \in LiveSubs' : t # s => \E e \in sent' \ answered' : e.kind # "subscription"
      BY <1>6, <3>1
    <3>3. QED BY <1>8, <3>1, <3>2 DEF NewsOf
  <2>3. QED BY <2>1, <2>2
<1>11. QED BY <1>1, <1>4, <1>6, <1>7, <1>10 DEF NewsHolds, LooksAt

(* The rest of the invariant, by what became of the subscription.          *)
LEMMA TurnedKeeps ==
  ASSUME BillingInv, NEW s \in Subscriptions, Turned(s), SessionsHold',
         past'.doubled = past.doubled, past.cut => past'.cut,
         past.paid \subseteq past'.paid, past.lapsed \subseteq past'.lapsed,
         past'.settled \subseteq past.settled \cup {s},
         MoneyOf(s)', subs[s].status = "canceled" => subs'[s].status = "canceled",
         mails' = mails, account'.noticed = account.noticed,
         account'.status = account.status, account'.plan = account.plan,
         subs'[s].status = "canceled" => subs'[s].schedule = 0,
         ~past'.cut /\ ~past.doubled /\ subs'[s].schedule # 0 => ScheduleOf(s)'
  PROVE  BillingInv'
<1>1. BillingTypeOK /\ RequestsHold /\ MoneyHolds /\ SessionsHold /\ SchedulesHold /\ NewsHolds
  BY DEF BillingInv
<1>2. BillingTypeOK' /\ OnlySub(s) /\ subs'[s].status # "none"
  BY DEF Turned
<1>3. RequestsHold' /\ NewsHolds'
  BY <1>1, TurnedRequests, TurnedNews
<1>4. MoneyHolds'
  <2>1. \A t \in Subscriptions :
          MoneyOf(t)' /\ (subs[t].status = "canceled" => subs'[t].status = "canceled")
    BY <1>1, <1>2 DEF OnlySub, MoneyHolds, MoneyOf
  <2>2. \A q \in BillingRequests : Syncing(q) => billing[q].sub \in Subscriptions
    BY <1>1, BillingTypes DEF RequestsHold, RequestHolds
  <2>3. ASSUME NEW q \in BillingRequests, billing'[q] # billing[q], Syncing(q)'
        PROVE  SeenHolds(q)'
    <3>1. billing'[q].sub = s /\ billing'[q].seen = subs'[s]
      BY <2>3, WaitingType DEF Turned, Syncing
    <3>2. QED BY <3>1 DEF SeenHolds, MoneyOf
  <2>4. ActivePlanWasPaid' /\ mails' <= IF account'.noticed THEN 1 ELSE 0
    BY <1>1 DEF MoneyHolds, ActivePlanWasPaid
  <2>5. QED BY <1>1, <2>1, <2>2, <2>3, <2>4, MoneyStays
<1>5. SchedulesHold'
  <2>1. \A t \in Subscriptions : subs'[t].status \in {"none", "canceled"} => subs'[t].schedule = 0
    BY <1>1, <1>2 DEF OnlySub, SchedulesHold
  <2>2. ASSUME ~past'.cut, ~past'.doubled, NEW t \in Subscriptions, t # s, subs'[t].schedule # 0
        PROVE  ScheduleOf(t)'
    <3>1. subs'[t] = subs[t] /\ ScheduleOf(t)
      BY <1>1, <1>2, <2>2 DEF OnlySub, SchedulesHold
    <3>2. account.sub # s
      BY <2>2, <3>1 DEF ScheduleOf
    <3>3. account' = account /\ billing' = billing
      BY <3>2 DEF Turned
    <3>4. \A q \in BillingRequests : Busy(q)' = Busy(q) /\ Syncing(q)' = Syncing(q)
      BY <3>3 DEF Busy, Syncing
    <3>5. QED BY <3>1, <3>3, <3>4 DEF ScheduleOf, Shown, Untouched
  <2>3. QED BY <2>1, <2>2 DEF SchedulesHold
<1>6. QED BY <1>2, <1>3, <1>4, <1>5 DEF BillingInv

(* The subscription was alive before.                                      *)
LEMMA NoNewSub ==
  ASSUME NEW s \in Subscriptions, OnlySub(s), s \in LiveSubs' => s \in LiveSubs
  PROVE  LiveSubs' \subseteq LiveSubs
BY DEF LiveSubs, OnlySub

(* The first payment closes the only session that could be paid.           *)
LEMMA PayCheckoutKeeps ==
  ASSUME BillingInv, NEW key \in CheckoutKeys, NEW s \in Subscriptions, NEW paid \in BOOLEAN,
         PayCheckout(key, s, paid)
  PROVE  BillingInv'
<1>1. BillingTypeOK /\ RequestsHold /\ MoneyHolds /\ SessionsHold
  BY DEF BillingInv
<1>2. /\ BillingTypeOK' /\ SentHold' /\ OnlySub(s) /\ Told(s)
      /\ \E e \in sent' \ answered' : e.kind # "subscription" /\ e \notin sent
      /\ subs[s].status = "none"
      /\ subs'[s].status = (IF paid THEN "active" ELSE "incomplete")
      /\ subs'[s].plan \in Plans /\ subs'[s].paid = paid /\ subs'[s].update = 0
      /\ subs'[s].schedule = 0
      /\ past'.lapsed = past.lapsed /\ past'.doubled = past.doubled /\ past'.cut = past.cut
      /\ past'.paid = (IF paid THEN past.paid \cup {subs'[s].plan} ELSE past.paid)
      /\ past'.settled = (IF paid THEN past.settled \cup {s} ELSE past.settled)
      /\ sessions[key].status = "open" /\ sessions'[key].status = "complete"
      /\ \A k \in CheckoutKeys : sessions'[k].plan = sessions[k].plan
      /\ \A k \in CheckoutKeys \ {key} : sessions'[k] = sessions[k]
  BY <1>1, PayCheckoutIs
<1>3. account' = account /\ late' = late /\ billing' = billing /\ mails' = mails
  BY DEF PayCheckout, notifications
<1>4. \A k \in CheckoutKeys : sessions'[k].status # "none" => sessions'[k].plan \in Plans
  BY <1>1, <1>2 DEF RequestsHold
<1>5. Turned(s)
  BY <1>2, <1>3, <1>4 DEF Turned
<1>6. MoneyOf(s)'
  BY <1>1, <1>2 DEF MoneyHolds, MoneyOf
<1>7. SessionsHold'
  <2>1. ~past.doubled => LiveSubs = {} /\ account.checkout.key = key
    BY <1>1, <1>2 DEF SessionsHold
  <2>2. ~past.doubled => LiveSubs' \subseteq {s}
    BY <1>2, <2>1 DEF LiveSubs, OnlySub
  <2>3. QED BY <1>1, <1>2, <1>3, <2>1, <2>2 DEF SessionsHold
<1>8. QED BY <1>2, <1>3, <1>5, <1>6, <1>7, TurnedKeeps

(* A payment keeps the schedule as it is shown.                            *)
LEMMA PayInvoiceKeeps ==
  ASSUME BillingInv, NEW s \in Subscriptions, PayInvoice(s)
  PROVE  BillingInv'
<1>1. BillingTypeOK /\ RequestsHold /\ MoneyHolds /\ SessionsHold /\ SchedulesHold
  BY DEF BillingInv
<1>2. /\ BillingTypeOK' /\ SentHold' /\ OnlySub(s) /\ Told(s)
      /\ s \in LiveSubs
      /\ subs'[s].status = "active" /\ subs'[s].paid /\ subs'[s].update = 0
      /\ subs'[s].plan = (IF subs[s].update # 0 THEN subs[s].update ELSE subs[s].plan)
      /\ subs'[s].plan \in Plans /\ subs'[s].schedule = subs[s].schedule
      /\ past'.lapsed = past.lapsed /\ past'.doubled = past.doubled /\ past'.cut = past.cut
      /\ past'.paid = past.paid \cup {subs'[s].plan}
      /\ past'.settled = past.settled \cup {s}
  BY <1>1, PayInvoiceIs
<1>3. /\ account' = account /\ sessions' = sessions /\ late' = late /\ billing' = billing
      /\ mails' = mails
  BY DEF PayInvoice, notifications
<1>4. Turned(s)
  BY <1>1, <1>2, <1>3 DEF Turned, RequestsHold
<1>5. MoneyOf(s)'
  BY <1>2 DEF MoneyOf
<1>6. SessionsHold'
  BY <1>1, <1>2, <1>3, NoNewSub, OpenSessionsStay
<1>7. ASSUME ~past'.cut, ~past.doubled, subs'[s].schedule # 0 PROVE ScheduleOf(s)'
  <2>1. ScheduleOf(s)
    BY <1>1, <1>2, <1>7 DEF SchedulesHold
  <2>2. \A q \in BillingRequests : Busy(q)' = Busy(q) /\ Syncing(q)' = Syncing(q)
    BY <1>3 DEF Busy, Syncing
  <2>3. Shown(s)'
    BY <1>2, <1>3, <2>1 DEF ScheduleOf, Shown
  <2>4. \A q \in BillingRequests : Busy(q)' => Untouched(s, q)'
    BY <1>2, <1>3, <2>1, <2>2 DEF ScheduleOf, Untouched
  <2>5. QED BY <1>3, <2>1, <2>3, <2>4 DEF ScheduleOf
<1>8. subs[s].status # "canceled"
  BY <1>2 DEF LiveSubs
<1>9. QED BY <1>2, <1>3, <1>4, <1>5, <1>6, <1>7, <1>8, TurnedKeeps

(* So does one that failed.                                                *)
LEMMA FailInvoiceKeeps ==
  ASSUME BillingInv, NEW s \in Subscriptions, FailInvoice(s)
  PROVE  BillingInv'
<1>1. BillingTypeOK /\ RequestsHold /\ MoneyHolds /\ SessionsHold /\ SchedulesHold
  BY DEF BillingInv
<1>2. /\ BillingTypeOK' /\ SentHold' /\ OnlySub(s) /\ Told(s)
      /\ s \in LiveSubs
      /\ subs'[s].plan = subs[s].plan
      /\ \/ /\ subs[s].update # 0 /\ subs'[s].update = 0
            /\ subs'[s].status = subs[s].status /\ subs'[s].paid = subs[s].paid
            /\ subs'[s].schedule = subs[s].schedule
         \/ /\ subs[s].status = "active" /\ ~subs[s].paid /\ subs'[s].status = "past_due"
            /\ subs[s].update = 0 /\ subs'[s].update = 0
            /\ ~subs'[s].paid /\ subs'[s].schedule = subs[s].schedule
         \/ /\ subs[s].status \in {"incomplete", "past_due"} /\ subs'[s].status = "canceled"
            /\ ~subs'[s].paid /\ subs'[s].schedule = 0
  BY <1>1, FailInvoiceIs
<1>3. /\ account' = account /\ sessions' = sessions /\ late' = late /\ billing' = billing
      /\ past' = past /\ mails' = mails
  BY DEF FailInvoice, notifications
<1>4. subs[s].status \notin {"none", "canceled"} /\ subs'[s].status # "none" /\ subs'[s].plan \in Plans
  BY <1>1, <1>2 DEF LiveSubs, RequestsHold
<1>5. Turned(s)
  BY <1>1, <1>2, <1>3, <1>4 DEF Turned, RequestsHold
<1>6. MoneyOf(s)'
  BY <1>1, <1>2, <1>3 DEF MoneyHolds, MoneyOf
<1>7. SessionsHold'
  BY <1>1, <1>2, <1>3, NoNewSub, OpenSessionsStay
<1>8. ASSUME ~past'.cut, ~past.doubled, subs'[s].schedule # 0 PROVE ScheduleOf(s)'
  <2>1. ScheduleOf(s) /\ subs'[s].schedule = subs[s].schedule
    BY <1>1, <1>2, <1>3, <1>8 DEF SchedulesHold
  <2>2. \A q \in BillingRequests : Busy(q)' = Busy(q) /\ Syncing(q)' = Syncing(q)
    BY <1>3 DEF Busy, Syncing
  <2>3. Shown(s)'
    BY <1>2, <1>3, <1>8, <2>1 DEF ScheduleOf, Shown
  <2>4. \A q \in BillingRequests : Busy(q)' => Untouched(s, q)'
    BY <1>2, <1>3, <1>8, <2>1, <2>2 DEF ScheduleOf, Untouched
  <2>5. QED BY <1>3, <2>1, <2>3, <2>4 DEF ScheduleOf
<1>9. subs'[s].status = "canceled" => subs'[s].schedule = 0
  BY <1>2, <1>4
<1>10. QED BY <1>3, <1>4, <1>5, <1>6, <1>7, <1>8, <1>9, TurnedKeeps

(* A renewal leaves no schedule.                                           *)
LEMMA RenewKeeps ==
  ASSUME BillingInv, NEW s \in Subscriptions, NEW paid \in BOOLEAN, Renew(s, paid)
  PROVE  BillingInv'
<1>1. BillingTypeOK /\ RequestsHold /\ MoneyHolds /\ SessionsHold
  BY DEF BillingInv
<1>2. /\ BillingTypeOK' /\ SentHold' /\ OnlySub(s) /\ Told(s)
      /\ subs[s].status = "active" /\ subs'[s].schedule = 0 /\ subs'[s].plan \in Plans
      /\ past'.doubled = past.doubled /\ past'.cut = past.cut
      /\ past.paid \subseteq past'.paid
      /\ past.settled \subseteq past'.settled /\ past'.settled \subseteq past.settled \cup {s}
      /\ past.lapsed \subseteq past'.lapsed
      /\ \/ subs'[s].status = "canceled" /\ ~subs'[s].paid /\ s \in past'.lapsed
         \/ subs'[s].status = "active" /\ subs'[s].paid /\ subs'[s].plan \in past'.paid
         \/ subs'[s].status = "active" /\ ~subs'[s].paid /\ s \in past'.lapsed
  BY <1>1, RenewIs
<1>3. /\ account' = account /\ sessions' = sessions /\ late' = late /\ billing' = billing
      /\ mails' = mails
  BY DEF Renew, notifications
<1>4. s \in LiveSubs
  BY <1>2 DEF LiveSubs
<1>5. Turned(s)
  BY <1>1, <1>2, <1>3, <1>4 DEF Turned, RequestsHold
<1>6. MoneyOf(s)'
  BY <1>2 DEF MoneyOf
<1>7. SessionsHold'
  BY <1>1, <1>2, <1>3, <1>4, NoNewSub, OpenSessionsStay
<1>8. QED BY <1>2, <1>3, <1>5, <1>6, <1>7, TurnedKeeps

(* An upgrade beside a schedule is one to the plan that is shown as        *)
(* pending.                                                                *)
LEMMA UpgradeKeeps ==
  ASSUME BillingInv, NEW r \in BillingRequests, NEW p \in Plans, NEW paid \in BOOLEAN,
         Upgrade(r, p, paid)
  PROVE  BillingInv'
<1> DEFINE s == account.sub
<1>1. BillingTypeOK /\ RequestsHold /\ MoneyHolds /\ SessionsHold /\ SchedulesHold
  BY DEF BillingInv
<1>2. /\ BillingTypeOK' /\ SentHold' /\ s \in Subscriptions /\ OnlySub(s) /\ Told(s)
      /\ Begins(r) /\ subs[s].status = "active" /\ subs'[s].status = "active"
      /\ subs[s].update = 0 /\ subs'[s].schedule = subs[s].schedule /\ subs'[s].plan \in Plans
      /\ subs[s].schedule # 0 => account.pending = p
      /\ past'.lapsed = past.lapsed /\ past'.doubled = past.doubled /\ past'.cut = past.cut
      /\ past.paid \subseteq past'.paid /\ past.settled \subseteq past'.settled
      /\ past'.settled \subseteq past.settled \cup {s}
      /\ \/ subs'[s].plan \in past'.paid /\ subs'[s].paid
         \/ subs'[s].plan = subs[s].plan /\ subs'[s].paid = subs[s].paid
      /\ billing'[r] = [Waiting EXCEPT !.phase = "syncing", !.sub = s, !.seen = subs'[s]]
      /\ \A q \in BillingRequests \ {r} : billing'[q] = billing[q]
  BY <1>1, UpgradeIs
<1>3. account' = account /\ sessions' = sessions /\ late' = late /\ mails' = mails
  BY DEF Upgrade, notifications
<1>4. /\ billing'[r].phase = "syncing" /\ billing'[r].sub = s /\ billing'[r].seen = subs'[s]
      /\ billing'[r].event = NoEvent /\ ~billing'[r].clears
  BY <1>2 DEF Waiting
<1>5. s \in LiveSubs /\ ~CompanyLocked
  BY <1>2 DEF LiveSubs, Begins
<1>6. Turned(s)
  BY <1>1, <1>2, <1>3, <1>4, <1>5 DEF Turned, RequestsHold
<1>7. MoneyOf(s)'
  <2>1. CASE subs'[s].plan \in past'.paid /\ subs'[s].paid
    BY <1>2, <1>3, <2>1 DEF MoneyOf
  <2>2. CASE subs'[s].plan = subs[s].plan /\ subs'[s].paid = subs[s].paid
    <3>1. MoneyOf(s)
      BY <1>1, <1>2 DEF MoneyHolds
    <3>2. subs'[s].paid <=> subs[s].paid
      BY <2>2
    <3>3. QED BY <1>2, <1>3, <2>2, <3>1, <3>2 DEF MoneyOf
  <2>3. QED BY <1>2, <2>1, <2>2
<1>8. SessionsHold'
  BY <1>1, <1>2, <1>3, <1>5, NoNewSub, OpenSessionsStay
<1>9. ASSUME ~past'.cut, ~past.doubled, subs'[s].schedule # 0 PROVE ScheduleOf(s)'
  <2>1. ScheduleOf(s)
    BY <1>1, <1>2, <1>9 DEF SchedulesHold
  <2>2. account.pending # 0
    BY <1>2, <1>9, BillingAssumption
  <2>3. Shown(s)'
    BY <1>2, <1>3, <2>1, <2>2 DEF ScheduleOf, Shown
  <2>4. Untouched(s, r)'
    BY <1>3, <1>4 DEF Untouched, Syncing
  <2>5. \A q \in BillingRequests : Busy(q)' => Untouched(s, q)'
    BY <1>2, <1>5, <2>4 DEF Busy, CompanyLocked
  <2>6. QED BY <1>3, <2>3, <2>5 DEF ScheduleOf
<1>10. QED BY <1>2, <1>3, <1>6, <1>7, <1>8, <1>9, TurnedKeeps

(* A cancellation leaves no schedule.                                      *)
LEMMA CancelKeeps ==
  ASSUME BillingInv, NEW r \in BillingRequests, NEW cancel \in BOOLEAN, CancelOrResume(r, cancel)
  PROVE  BillingInv'
<1> DEFINE s == account.sub
<1>1. BillingTypeOK /\ RequestsHold /\ MoneyHolds /\ SessionsHold
  BY DEF BillingInv
<1>2. /\ BillingTypeOK' /\ SentHold' /\ s \in Subscriptions /\ OnlySub(s) /\ Told(s)
      /\ Begins(r)
      /\ subs'[s].status = subs[s].status /\ subs'[s].plan = subs[s].plan
      /\ subs'[s].paid = subs[s].paid /\ subs'[s].update = subs[s].update /\ subs'[s].schedule = 0
      /\ billing'[r] = [Waiting EXCEPT !.phase = "syncing", !.sub = s, !.seen = subs'[s],
                                       !.clears = TRUE]
      /\ \A q \in BillingRequests \ {r} : billing'[q] = billing[q]
  BY <1>1, CancelIs
<1>3. /\ account' = account /\ sessions' = sessions /\ late' = late /\ mails' = mails
      /\ past' = past /\ s # NoSubscription
  BY DEF CancelOrResume, notifications
<1>4. /\ billing'[r].phase = "syncing" /\ billing'[r].sub = s /\ billing'[r].seen = subs'[s]
      /\ billing'[r].event = NoEvent
  BY <1>2 DEF Waiting
<1>5. ~CompanyLocked /\ subs'[s].status # "none" /\ subs'[s].plan \in Plans
  BY <1>1, <1>2, <1>3 DEF Begins, RequestsHold
<1>6. s \in LiveSubs' => s \in LiveSubs
  BY <1>2 DEF LiveSubs
<1>7. Turned(s)
  BY <1>1, <1>2, <1>3, <1>4, <1>5, <1>6 DEF Turned, RequestsHold
<1>8. MoneyOf(s)'
  BY <1>1, <1>2, <1>3 DEF MoneyHolds, MoneyOf
<1>9. SessionsHold'
  BY <1>1, <1>2, <1>3, <1>6, NoNewSub, OpenSessionsStay
<1>10. QED BY <1>2, <1>3, <1>7, <1>8, <1>9, TurnedKeeps

(* A schedule that is made is shown, unless the process stopped.           *)
LEMMA ScheduleKeeps ==
  ASSUME BillingInv, NEW r \in BillingRequests, NEW stops \in BOOLEAN, ScheduleDowngrade(r, stops)
  PROVE  BillingInv'
<1> DEFINE s == account.sub
<1>1. BillingTypeOK /\ RequestsHold /\ MoneyHolds /\ SessionsHold
  BY DEF BillingInv
<1>2. /\ BillingTypeOK' /\ SentHold' /\ s \in Subscriptions /\ OnlySub(s) /\ Told(s)
      /\ ~CompanyLocked
      /\ subs[s].status \notin {"none", "canceled"}
      /\ subs'[s].status = subs[s].status /\ subs'[s].plan = subs[s].plan
      /\ subs'[s].paid = subs[s].paid /\ subs'[s].update = subs[s].update
      /\ past'.lapsed = past.lapsed /\ past'.doubled = past.doubled
      /\ past'.paid = past.paid /\ past'.settled = past.settled
      /\ past'.cut = (past.cut \/ stops)
      /\ account' = IF stops THEN account ELSE [account EXCEPT !.pending = subs'[s].schedule]
      /\ billing'[r] = Waiting
      /\ \A q \in BillingRequests \ {r} : billing'[q] = billing[q]
  BY <1>1, ScheduleIs
<1>3. sessions' = sessions /\ late' = late /\ mails' = mails
  BY DEF ScheduleDowngrade, notifications
<1>4. /\ account'.sub = s /\ account'.checkout = account.checkout
      /\ account'.status = account.status /\ account'.plan = account.plan
      /\ account'.noticed = account.noticed
      /\ ~stops => account'.pending = subs'[s].schedule
  BY <1>1, <1>2, BillingTypes DEF Account
<1>5. s \in LiveSubs /\ subs'[s].status # "none" /\ subs'[s].plan \in Plans
  BY <1>1, <1>2 DEF LiveSubs, RequestsHold
<1>6. Turned(s)
  BY <1>1, <1>2, <1>3, <1>4, <1>5 DEF Turned, RequestsHold
<1>7. MoneyOf(s)'
  BY <1>1, <1>2 DEF MoneyHolds, MoneyOf
<1>8. SessionsHold'
  BY <1>1, <1>2, <1>3, <1>4, <1>5, NoNewSub, OpenSessionsStay
<1>9. ASSUME ~past'.cut PROVE ScheduleOf(s)'
  <2>1. Shown(s)'
    BY <1>2, <1>4, <1>9 DEF Shown
  <2>2. \A q \in BillingRequests : ~Busy(q)'
    BY <1>2, WaitingType DEF Busy, CompanyLocked
  <2>3. QED BY <1>4, <2>1, <2>2 DEF ScheduleOf
<1>10. past.cut => past'.cut
  BY <1>2
<1>11. QED BY <1>2, <1>3, <1>4, <1>6, <1>7, <1>8, <1>9, <1>10, TurnedKeeps

-----------------------------------------------------------------------------
(* The sessions of a checkout.                                             *)

LEMMA HourKeeps ==
  ASSUME BillingInv, NEW key \in CheckoutKeys, HourPasses(key)
  PROVE  BillingInv'
<1>1. /\ BillingTypeOK /\ RequestsHold /\ MoneyHolds /\ SessionsHold
      /\ SchedulesHold /\ NewsHolds
  BY DEF BillingInv
<1>2. /\ CheckoutOnly /\ account' = account /\ billing' = billing /\ past' = past
      /\ late' = late \cup {key}
      /\ \A k \in CheckoutKeys : /\ sessions'[k].plan = sessions[k].plan
                                 /\ k # key => sessions'[k] = sessions[k]
      /\ sessions'[key].status = (IF sessions[key].status = "open" THEN "expired"
                                  ELSE sessions[key].status)
  BY <1>1, HourIs
<1>3. LiveSubs' = LiveSubs /\ BillingTypeOK'
  BY <1>2 DEF LiveSubs, CheckoutOnly
<1>4. SessionsHold'
  BY <1>1, <1>2, <1>3 DEF SessionsHold
<1>5. QED BY <1>1, <1>2, <1>3, <1>4, CheckoutKeeps DEF BillingInv

(* A step of a checkout keeps all, when it keeps the sessions.             *)
LEMMA CheckoutNextKeeps ==
  ASSUME BillingInv, NEW r \in BillingRequests, CheckoutOnly, OneSteps(r), SessionsHold'
  PROVE  BillingInv'
BY CheckoutKeeps DEF BillingInv, CheckoutOnly

(* A request that ends keeps all.                                          *)
LEMMA EndKeeps ==
  ASSUME BillingInv, NEW r \in BillingRequests, Ends(r), UNCHANGED <<account, provider, notifications>>
  PROVE  BillingInv'
<1>1. BillingTypeOK /\ RequestsHold /\ SessionsHold
  BY DEF BillingInv
<1>2. CheckoutOnly /\ OneSteps(r) /\ account' = account /\ sessions' = sessions
      /\ late' = late /\ past' = past
  BY <1>1, EndIs
<1>3. LiveSubs' = LiveSubs
  BY <1>2 DEF LiveSubs, CheckoutOnly
<1>4. QED BY <1>1, <1>2, <1>3, OpenSessionsStay, CheckoutNextKeeps

(* When a key is late no session is open.                                  *)
LEMMA PrepareKeeps ==
  ASSUME BillingInv, NEW r \in BillingRequests, NEW p \in Plans,
         NEW key \in CheckoutKeys, PrepareCheckout(r, p, key)
  PROVE  BillingInv'
<1>1. BillingTypeOK /\ RequestsHold /\ SessionsHold
  BY DEF BillingInv
<1>2. /\ CheckoutOnly /\ OneSteps(r)
      /\ LiveSubs = {} /\ ~Timely /\ sessions' = sessions /\ late' = late /\ past' = past
  BY <1>1, PrepareIs
<1>3. LiveSubs' = {}
  BY <1>2 DEF LiveSubs, CheckoutOnly
<1>4. ~past.doubled => \A k \in CheckoutKeys : sessions[k].status # "open"
  BY <1>1, <1>2 DEF SessionsHold, Timely
<1>5. SessionsHold'
  BY <1>1, <1>2, <1>3, <1>4 DEF SessionsHold
<1>6. QED BY <1>2, <1>5, CheckoutNextKeeps

(* A checkout that starts over lets go of its session if that is open.     *)
LEMMA RestartKeeps ==
  ASSUME BillingInv, NEW r \in BillingRequests, NEW p \in Plans, RestartCheckout(r, p)
  PROVE  BillingInv'
<1>1. BillingTypeOK /\ RequestsHold /\ SessionsHold
  BY DEF BillingInv
<1>2. /\ CheckoutOnly /\ OneSteps(r)
      /\ sessions' = sessions /\ late' = late
      /\ account'.checkout.key = account.checkout.key
      /\ sessions[account.checkout.key].status = "open" => past'.doubled
  BY <1>1, RestartIs
<1>3. LiveSubs' = LiveSubs /\ (past.doubled => past'.doubled)
  BY <1>2 DEF LiveSubs, CheckoutOnly
<1>4. ~past'.doubled => \A k \in CheckoutKeys : sessions[k].status # "open"
  BY <1>1, <1>2, <1>3 DEF SessionsHold
<1>5. SessionsHold'
  BY <1>1, <1>2, <1>3, <1>4 DEF SessionsHold
<1>6. QED BY <1>2, <1>5, CheckoutNextKeeps

(* The key of the account is the one that a session is created with: it is *)
(* there already when a subscription is alive.                             *)
LEMMA CreatedKeeps ==
  ASSUME BillingInv, NEW r \in BillingRequests, ~CompanyLocked,
         NEW p \in Plans, Created(account.checkout.key, p), account.checkout.timed,
         NEW h \in Request, Holds(r, h), h.phase = "creating",
         UNCHANGED <<account, subs, late, changes, sent, past, notifications>>
  PROVE  BillingInv'
<1> DEFINE key == account.checkout.key
<1>1. BillingTypeOK /\ RequestsHold /\ SessionsHold
  BY DEF BillingInv
<1>2. CheckoutOnly /\ OneSteps(r)
  BY <1>1, CreateIs
<1>3. /\ \A k \in CheckoutKeys : k # key => sessions'[k] = sessions[k]
      /\ key \in CheckoutKeys /\ sessions[key].status # "none" => sessions'[key] = sessions[key]
      /\ key \in CheckoutKeys /\ sessions[key].status = "none" =>
           sessions'[key].status = IF key \in late THEN "expired" ELSE "open"
  BY <1>1, CreatedIs
<1>4. LiveSubs' = LiveSubs
  BY DEF LiveSubs
<1>5. \A k \in CheckoutKeys : \/ sessions'[k] = sessions[k]
                              \/ k = key /\ sessions[k].status = "none" /\ sessions'[k].status # "none"
                                   /\ (sessions'[k].status = "open" => k \notin late)
  BY <1>3
<1>6. SessionsHold'
  BY <1>1, <1>4, <1>5 DEF SessionsHold
<1>7. QED BY <1>2, <1>6, CheckoutNextKeeps

(* The session of a checkout.                                              *)
LEMMA CreateSessionKeeps ==
  ASSUME BillingInv, NEW r \in BillingRequests, NEW p \in Plans, CreateSession(r, p)
  PROVE  BillingInv'
<1> DEFINE h == [Waiting EXCEPT !.phase = "creating", !.plan = p]
<1>1. /\ Created(account.checkout.key, p) /\ account.checkout.timed /\ Holds(r, h)
      /\ UNCHANGED <<account, subs, late, changes, sent, past, notifications>>
      /\ ~CompanyLocked
  BY DEF CreateSession, Proceeds, Asks
<1>2. h \in Request /\ h.phase = "creating"
  BY WaitingType DEF Request, Ranks
<1> HIDE DEF h
<1>3. QED BY <1>1, <1>2, CreatedKeeps

(* The session that is finished to be cancelled.                           *)
LEMMA CancelCheckoutKeeps ==
  ASSUME BillingInv, NEW r \in BillingRequests, CancelCheckout(r)
  PROVE  BillingInv'
<1> DEFINE p == account.checkout.plan
           h == [Waiting EXCEPT !.phase = "creating", !.clears = TRUE, !.plan = p]
<1>1. /\ Created(account.checkout.key, p) /\ account.checkout.timed
      /\ account.checkout.key # NoKey
      /\ Holds(r, h)
      /\ UNCHANGED <<account, subs, late, changes, sent, past, notifications>>
      /\ ~CompanyLocked
  BY DEF CancelCheckout, Begins, InPreparation, Timely
<1>2. p \in Plans
  BY <1>1 DEF BillingInv, RequestsHold
<1>3. h \in Request /\ h.phase = "creating"
  BY <1>2, WaitingType DEF Request, Ranks
<1> HIDE DEF h
<1>4. QED BY <1>1, <1>2, <1>3, CreatedKeeps

(* The session is still the one of the account.                            *)
LEMMA CommitSessionKeeps ==
  ASSUME BillingInv, NEW r \in BillingRequests, CommitSession(r)
  PROVE  BillingInv'
<1>1. BillingTypeOK /\ RequestsHold /\ SessionsHold
  BY DEF BillingInv
<1>2. /\ CheckoutOnly /\ OneSteps(r) /\ sessions' = sessions /\ late' = late /\ past' = past
      /\ account'.checkout.key = account.checkout.key /\ account'.checkout.timed
  BY <1>1, CommitSessionIs
<1>3. LiveSubs' = LiveSubs
  BY <1>2 DEF LiveSubs, CheckoutOnly
<1>4. SessionsHold'
  BY <1>1, <1>2, <1>3 DEF SessionsHold
<1>5. QED BY <1>2, <1>4, CheckoutNextKeeps

(* A checkout that is forgotten lets go of its session if that is open.    *)
LEMMA ClearKeeps ==
  ASSUME BillingInv, NEW r \in BillingRequests, NEW stops \in BOOLEAN, ClearCheckout(r, stops)
  PROVE  BillingInv'
<1>1. BillingTypeOK /\ RequestsHold /\ SessionsHold
  BY DEF BillingInv
<1>2. /\ CheckoutOnly /\ OneSteps(r) /\ late' = late
      /\ \A k \in CheckoutKeys :
           \/ sessions'[k] = sessions[k]
           \/ sessions[k].status = "open" /\ sessions'[k].status = "expired"
      /\ account' = account \/ account'.checkout.key = NoKey
      /\ account' # account /\ account.checkout.key \in CheckoutKeys
           /\ sessions'[account.checkout.key].status = "open" => past'.doubled
  BY <1>1, ClearIs
<1>3. LiveSubs' = LiveSubs /\ (past.doubled => past'.doubled)
  BY <1>2 DEF LiveSubs, CheckoutOnly
<1>4. CASE account' = account
  <2>1. SessionsHold'
    BY <1>1, <1>2, <1>3, <1>4 DEF SessionsHold
  <2>2. QED BY <1>2, <2>1, CheckoutNextKeeps
<1>5. CASE account' # account
  <2>1. ~past'.doubled => \A k \in CheckoutKeys : sessions'[k].status # "open"
    BY <1>1, <1>2, <1>3, <1>5 DEF SessionsHold
  <2>2. account'.checkout.key \notin CheckoutKeys
    BY <1>2, <1>5, BillingAssumption
  <2>3. SessionsHold'
    BY <1>1, <1>2, <1>3, <2>1, <2>2 DEF SessionsHold
  <2>4. QED BY <1>2, <2>3, CheckoutNextKeeps
<1>6. QED BY <1>4, <1>5

-----------------------------------------------------------------------------
(* The looks, and what the page says.                                      *)

(* Nobody has, or asks for, the state of a subscription.                   *)
LEMMA NobodyBusy ==
  ASSUME ~CompanyLocked, NEW q \in BillingRequests
  PROVE  ~Busy(q)
BY DEF CompanyLocked, Busy

(* The subscription that is found is the one of the schedule, or more is   *)
(* to be told.                                                             *)
LEMMA FindKeeps ==
  ASSUME BillingInv, NEW r \in BillingRequests, NEW p \in Plans, NEW s \in Subscriptions,
         FindSubscription(r, p, s)
  PROVE  BillingInv'
<1>1. /\ BillingTypeOK /\ RequestsHold /\ MoneyHolds /\ SessionsHold
      /\ SchedulesHold /\ NewsHolds
  BY DEF BillingInv
<1>2. /\ BillingTypeOK' /\ ~CompanyLocked /\ s \in LiveSubs
      /\ account' = [account EXCEPT !.sub = s] /\ account'.sub = s
      /\ billing'[r] = Waiting
      /\ \A q \in BillingRequests \ {r} : billing'[q] = billing[q]
  BY <1>1, FindIs
<1>3. /\ sessions' = sessions /\ subs' = subs /\ late' = late /\ changes' = changes /\ sent' = sent
      /\ past' = past /\ answered' = answered /\ mails' = mails /\ LiveSubs' = LiveSubs
  BY <1>1, FindIs DEF FindSame, LiveSubs
<1>4. /\ account'.checkout = account.checkout /\ account'.pending = account.pending
      /\ account'.status = account.status /\ account'.plan = account.plan
      /\ account'.grace = account.grace /\ account'.noticed = account.noticed
      /\ s = account.sub => account' = account
  BY <1>1, <1>2, BillingTypes DEF Account
<1>5. \A q \in BillingRequests : ~Busy(q) /\ ~Busy(q)' /\ ~Syncing(q)'
                                  /\ (billing'[q] = billing[q] \/ RequestHolds(q)')
  BY <1>2, NobodyBusy, WaitingType DEF Busy, Syncing, RequestHolds
<1>6. RequestsHold'
  <2>1. OneLocks'
    BY <1>2, WaitingType DEF OneLocks, CompanyLocked
  <2>2. SentHold' /\ subs'[s].status # "none"
    BY <1>1, <1>2, <1>3 DEF RequestsHold, SentHold, LiveSubs
  <2>3. /\ \A t \in Subscriptions : subs'[t].status # "none" => subs'[t].plan \in Plans
        /\ \A k \in CheckoutKeys : sessions'[k].status # "none" => sessions'[k].plan \in Plans
        /\ account'.checkout.key # NoKey => account'.checkout.plan \in Plans
    BY <1>1, <1>3, <1>4 DEF RequestsHold
  <2>4. /\ s # NoSubscription
        /\ \A q \in BillingRequests : billing[q].sub \in Subscriptions \cup {NoSubscription}
    BY <1>1, BillingTypes, BillingAssumption
  <2>5. QED BY <1>1, <1>2, <1>3, <1>5, <2>1, <2>2, <2>3, <2>4, RequestsStay
<1>7. MoneyHolds'
  <2>1. (\A t \in Subscriptions : MoneyOf(t)') /\ ActivePlanWasPaid'
    BY <1>1, <1>3, <1>4 DEF MoneyHolds, MoneyOf, ActivePlanWasPaid
  <2>2. QED BY <1>1, <1>3, <1>4, <1>5, <2>1 DEF MoneyHolds
<1>8. SessionsHold'
  BY <1>1, <1>3, <1>4, OpenSessionsStay
<1>9. SchedulesHold'
  <2>1. ASSUME ~past'.cut, ~past'.doubled, NEW t \in Subscriptions, subs'[t].schedule # 0
        PROVE  ScheduleOf(t)'
    <3>1. ScheduleOf(t) /\ t \in LiveSubs
      BY <1>1, <1>3, <2>1, BillingTypes DEF SchedulesHold, LiveSubs
    <3>2. t = s
      BY <1>1, <1>2, <1>3, <2>1, <3>1 DEF SessionsHold
    <3>3. account' = account
      BY <1>4, <3>1, <3>2 DEF ScheduleOf
    <3>4. QED BY <1>3, <1>5, <3>1, <3>3 DEF ScheduleOf, Shown
  <2>2. QED BY <1>1, <1>3, <2>1 DEF SchedulesHold
<1>10. NewsHolds'
  <2>1. \A t \in LiveSubs : t # s => \E e \in sent \ answered : e.kind # "subscription"
    BY <1>1, <1>2 DEF NewsHolds
  <2>2. Fresh(account', subs[s]) \/ \E e \in sent \ answered : LooksAt(e, s)
    <3>1. CASE s = account.sub
      BY <1>1, <1>4, <3>1 DEF NewsHolds
    <3>2. CASE s # account.sub
      BY <1>1, <1>2, <3>2 DEF NewsHolds, LooksAt
    <3>3. QED BY <3>1, <3>2
  <2>3. QED BY <1>1, <1>2, <1>3, <1>5, <2>1, <2>2 DEF NewsHolds, LooksAt
<1>11. QED BY <1>2, <1>6, <1>7, <1>8, <1>9, <1>10 DEF BillingInv

(* The only subscription that is alive is that of the schedule.            *)
LEMMA SelectsKeeps ==
  ASSUME BillingInv, BillingTypeOK', NEW r \in BillingRequests, NEW x, NEW e, Selects(r, x, e)
  PROVE  BillingInv'
<1>1. /\ BillingTypeOK /\ RequestsHold /\ MoneyHolds /\ SessionsHold
      /\ SchedulesHold /\ NewsHolds
  BY DEF BillingInv
<1>2. /\ ~CompanyLocked /\ account' = account
      /\ x \in Subscriptions \cup {NoSubscription} /\ e \in sent \cup {NoEvent}
      /\ billing'[r].phase = "selected" /\ billing'[r].sub = x /\ billing'[r].event = e
      /\ ~billing'[r].clears
      /\ \A q \in BillingRequests \ {r} : billing'[q] = billing[q]
      /\ \A s \in LiveSubs : s = x
      /\ IF x = NoSubscription THEN account.sub = NoSubscription ELSE subs[x].status # "none"
  BY DEF Selects
<1>3. /\ sessions' = sessions /\ subs' = subs /\ late' = late /\ changes' = changes /\ sent' = sent
      /\ past' = past /\ answered' = answered /\ mails' = mails /\ LiveSubs' = LiveSubs
  BY DEF Selects, FindSame, LiveSubs
<1>4. \A q \in BillingRequests : ~Busy(q) /\ (Busy(q)' => q = r) /\ ~Syncing(q)'
  BY <1>2, NobodyBusy DEF Busy, Syncing
<1>5. RequestsHold'
  <2>1. OneLocks'
    BY <1>2 DEF OneLocks, CompanyLocked
  <2>2. RequestHolds(r)'
    BY <1>2, <1>3, <1>4 DEF RequestHolds
  <2>3. \A q \in BillingRequests : billing'[q] = billing[q] \/ RequestHolds(q)'
    BY <1>2, <2>2
  <2>4. SentHold'
    BY <1>1, <1>3 DEF RequestsHold, SentHold
  <2>5. /\ \A t \in Subscriptions : subs'[t].status # "none" => subs'[t].plan \in Plans
        /\ \A k \in CheckoutKeys : sessions'[k].status # "none" => sessions'[k].plan \in Plans
        /\ account'.checkout.key # NoKey => account'.checkout.plan \in Plans
        /\ account.sub # NoSubscription => subs[account.sub].status # "none"
    BY <1>1, <1>2, <1>3 DEF RequestsHold
  <2>6. \A q \in BillingRequests : billing[q].sub \in Subscriptions \cup {NoSubscription}
    BY <1>1, BillingTypes
  <2>7. QED BY <1>1, <1>2, <1>3, <2>1, <2>3, <2>4, <2>5, <2>6, RequestsStay
<1>6. MoneyHolds'
  <2>1. (\A t \in Subscriptions : MoneyOf(t)') /\ ActivePlanWasPaid'
    BY <1>1, <1>2, <1>3 DEF MoneyHolds, MoneyOf, ActivePlanWasPaid
  <2>2. QED BY <1>1, <1>2, <1>3, <1>4, <2>1 DEF MoneyHolds
<1>7. SessionsHold'
  BY <1>1, <1>2, <1>3, OpenSessionsStay
<1>8. SchedulesHold'
  <2>1. ASSUME ~past'.cut, ~past'.doubled, NEW t \in Subscriptions, subs'[t].schedule # 0
        PROVE  ScheduleOf(t)'
    <3>1. ScheduleOf(t) /\ t \in LiveSubs
      BY <1>1, <1>3, <2>1, BillingTypes DEF SchedulesHold, LiveSubs
    <3>2. t = x
      BY <1>2, <3>1
    <3>3. \A q \in BillingRequests : Busy(q)' => Untouched(t, q)'
      BY <1>2, <1>4, <3>2 DEF Untouched
    <3>4. QED BY <1>2, <1>3, <3>1, <3>3 DEF ScheduleOf, Shown
  <2>2. QED BY <1>1, <1>3, <2>1 DEF SchedulesHold
<1>9. NewsHolds'
  <2>1. \A q \in BillingRequests : Busy(q)' => NewsOf(q)'
    BY <1>2, <1>3, <1>4 DEF NewsOf
  <2>2. QED BY <1>1, <1>2, <1>3, <2>1 DEF NewsHolds, LooksAt
<1>10. QED BY <1>5, <1>6, <1>7, <1>8, <1>9 DEF BillingInv

(* What was just read did not change.                                      *)
LEMMA RetrieveKeeps ==
  ASSUME BillingInv, NEW r \in BillingRequests, RetrieveSubscription(r)
  PROVE  BillingInv'
<1>1. /\ BillingTypeOK /\ RequestsHold /\ MoneyHolds /\ SessionsHold
      /\ SchedulesHold /\ NewsHolds
  BY DEF BillingInv
<1>2. /\ BillingTypeOK' /\ account' = account
      /\ billing[r].phase = "selected" /\ billing[r].sub \in Subscriptions
      /\ billing'[r].phase = "syncing" /\ billing'[r].seen = subs[billing[r].sub]
      /\ billing'[r].sub = billing[r].sub /\ billing'[r].event = billing[r].event
      /\ billing'[r].clears = billing[r].clears
      /\ \A q \in BillingRequests \ {r} : billing'[q] = billing[q]
  BY <1>1, RetrieveIs
<1>3. /\ sessions' = sessions /\ subs' = subs /\ late' = late /\ changes' = changes /\ sent' = sent
      /\ past' = past /\ answered' = answered /\ mails' = mails /\ LiveSubs' = LiveSubs
  BY <1>1, RetrieveIs DEF FindSame, LiveSubs
<1>4. Busy(r) /\ ~Syncing(r) /\ RequestHolds(r)
  BY <1>1, <1>2 DEF Busy, Syncing, RequestsHold
<1>5. \A q \in BillingRequests : (Busy(q)' <=> Busy(q)) /\ (q # r => Syncing(q)' = Syncing(q))
  BY <1>2 DEF Busy, Syncing
<1>6. RequestsHold'
  <2>1. OneLocks'
    BY <1>1, <1>2 DEF RequestsHold, OneLocks
  <2>2. RequestHolds(r)'
    BY <1>2, <1>3, <1>4, BillingAssumption DEF RequestHolds
  <2>3. \A q \in BillingRequests : billing'[q] = billing[q] \/ RequestHolds(q)'
    BY <1>2, <2>2
  <2>4. SentHold'
    BY <1>1, <1>3 DEF RequestsHold, SentHold
  <2>5. /\ \A t \in Subscriptions : subs'[t].status # "none" => subs'[t].plan \in Plans
        /\ \A k \in CheckoutKeys : sessions'[k].status # "none" => sessions'[k].plan \in Plans
        /\ account'.checkout.key # NoKey => account'.checkout.plan \in Plans
        /\ account.sub # NoSubscription => subs[account.sub].status # "none"
    BY <1>1, <1>2, <1>3 DEF RequestsHold
  <2>6. \A q \in BillingRequests : billing[q].sub \in Subscriptions \cup {NoSubscription}
    BY <1>1, BillingTypes
  <2>7. QED BY <1>1, <1>2, <1>3, <2>1, <2>3, <2>4, <2>5, <2>6, RequestsStay
<1>7. MoneyHolds'
  <2>1. (\A t \in Subscriptions : MoneyOf(t)') /\ ActivePlanWasPaid'
        /\ mails' <= IF account'.noticed THEN 1 ELSE 0
    BY <1>1, <1>2, <1>3 DEF MoneyHolds, MoneyOf, ActivePlanWasPaid
  <2>2. SeenHolds(r)'
    BY <1>1, <1>2, <1>3 DEF MoneyHolds, MoneyOf, SeenHolds
  <2>3. /\ \A q \in BillingRequests : billing'[q] = billing[q] \/ (Syncing(q)' => SeenHolds(q)')
        /\ \A q \in BillingRequests : Syncing(q) => billing[q].sub \in Subscriptions
    BY <1>1, <1>2, <2>2, BillingTypes DEF RequestsHold, RequestHolds
  <2>4. QED BY <1>1, <1>3, <2>1, <2>3, MoneyStays
<1>8. SessionsHold'
  BY <1>1, <1>2, <1>3, OpenSessionsStay
<1>9. SchedulesHold'
  <2>1. ASSUME ~past'.cut, ~past'.doubled, NEW t \in Subscriptions, subs'[t].schedule # 0
        PROVE  ScheduleOf(t)'
    <3>1. ScheduleOf(t)
      BY <1>1, <1>3, <2>1 DEF SchedulesHold
    <3>2. Untouched(t, r)'
      BY <1>2, <1>3, <1>4, <3>1 DEF ScheduleOf, Untouched
    <3>3. ASSUME NEW q \in BillingRequests, Busy(q)', q # r PROVE Untouched(t, q)'
      BY <1>2, <1>3, <1>5, <3>1, <3>3 DEF ScheduleOf, Untouched
    <3>4. QED BY <1>2, <1>3, <3>1, <3>2, <3>3 DEF ScheduleOf, Shown
  <2>2. QED BY <1>1, <1>3, <2>1 DEF SchedulesHold
<1>10. NewsHolds'
  <2>1. NewsOf(r)'
    BY <1>1, <1>2, <1>3, <1>4 DEF NewsHolds, NewsOf
  <2>2. ASSUME NEW q \in BillingRequests, Busy(q)', q # r PROVE NewsOf(q)'
    BY <1>1, <1>2, <1>3, <1>5, <2>2 DEF NewsHolds, NewsOf, LooksAt
  <2>3. QED BY <1>1, <1>2, <1>3, <2>1, <2>2 DEF NewsHolds, LooksAt
<1>11. QED BY <1>2, <1>6, <1>7, <1>8, <1>9, <1>10 DEF BillingInv

(* The account has what was read, or a notification still comes.           *)
LEMMA CommitSyncKeeps ==
  ASSUME BillingInv, NEW r \in BillingRequests, NEW paid \in BOOLEAN, NEW stops \in BOOLEAN,
         CommitSync(r, paid, stops)
  PROVE  BillingInv'
<1> DEFINE s == billing[r].sub
           e == billing[r].event
           x == billing[r].seen
           read == Synced(account, s, x)
<1>1. /\ BillingTypeOK /\ RequestsHold /\ MoneyHolds /\ SessionsHold
      /\ SchedulesHold /\ NewsHolds
  BY DEF BillingInv
<1>2. /\ BillingTypeOK' /\ Busy(r)
      /\ sessions' = sessions /\ subs' = subs /\ late' = late /\ changes' = changes /\ sent' = sent
      /\ past'.paid = past.paid /\ past'.settled = past.settled
      /\ past'.lapsed = past.lapsed /\ past'.cut = past.cut /\ (past.doubled => past'.doubled)
      /\ billing'[r] = Waiting
      /\ \A q \in BillingRequests \ {r} : billing'[q] = billing[q]
      /\ answered' \subseteq answered \cup {e}
      /\ mails' = mails \/ (mails' = mails + 1 /\ ~account.noticed /\ account'.noticed)
      /\ account.noticed => account'.noticed
      /\ account'.checkout.key = account.checkout.key
      /\ account'.checkout.plan = account.checkout.plan
      /\ \/ account'.checkout.timed = account.checkout.timed
         \/ account.checkout.key \in CheckoutKeys
              /\ sessions[account.checkout.key].status = "open" => past'.doubled
  BY <1>1, CommitSyncIs
<1>3. s = NoSubscription => /\ account'.sub = account.sub /\ account'.status = account.status
                            /\ account'.plan = account.plan /\ account'.grace = account.grace
                            /\ ~Syncing(r)
  BY <1>1, CommitSyncIs
<1>4. s # NoSubscription =>
        /\ Syncing(r) /\ s \in Subscriptions /\ account'.sub = s
        /\ account'.status = read.status /\ account'.plan = read.plan
        /\ account'.grace = read.grace
        /\ account'.pending = IF billing[r].clears THEN 0 ELSE read.pending
        /\ Fresh(account', x)
  BY <1>1, CommitSyncIs
<1>5. /\ RequestHolds(r) /\ NewsOf(r) /\ (Syncing(r) => SeenHolds(r))
      /\ account \in Account /\ x \in Contract
  BY <1>1, <1>2, BillingTypes DEF RequestsHold, NewsHolds, MoneyHolds
<1>6. \A q \in BillingRequests : ~Busy(q)' /\ ~Syncing(q)' /\ (billing'[q] = billing[q] => ~Busy(q))
                                  /\ (billing'[q] = billing[q] \/ RequestHolds(q)')
  <2>1. \A q \in BillingRequests \ {r} : ~Busy(q)
    BY <1>1, <1>2 DEF RequestsHold, OneLocks, Busy
  <2>2. billing'[r] # billing[r]
    BY <1>2, WaitingType DEF Busy
  <2>3. ~Busy(r)' /\ ~Syncing(r)' /\ RequestHolds(r)'
    BY <1>2, WaitingType DEF Busy, Syncing, RequestHolds
  <2>4. \A q \in BillingRequests \ {r} : ~Busy(q)' /\ ~Syncing(q)'
    BY <1>2, <2>1 DEF Busy, Syncing
  <2>5. QED BY <1>2, <2>1, <2>2, <2>3, <2>4
<1>7. LiveSubs' = LiveSubs
  BY <1>2 DEF LiveSubs
<1>8. RequestsHold'
  <2>1. OneLocks'
    BY <1>1, <1>2, WaitingType DEF RequestsHold, OneLocks
  <2>2. account.sub # NoSubscription => account'.sub # NoSubscription
    BY <1>3, <1>4
  <2>3. account'.sub # NoSubscription => subs'[account'.sub].status # "none"
    BY <1>1, <1>2, <1>3, <1>4, <1>5 DEF RequestsHold, RequestHolds
  <2>4. SentHold'
    BY <1>1, <1>2 DEF RequestsHold, SentHold
  <2>5. /\ \A t \in Subscriptions : subs'[t].status # "none" => subs'[t].plan \in Plans
        /\ \A k \in CheckoutKeys : sessions'[k].status # "none" => sessions'[k].plan \in Plans
        /\ account'.checkout.key # NoKey => account'.checkout.plan \in Plans
    BY <1>1, <1>2 DEF RequestsHold
  <2>6. \A q \in BillingRequests : billing[q].sub \in Subscriptions \cup {NoSubscription}
    BY <1>1, BillingTypes
  <2>7. QED BY <1>1, <1>2, <1>6, <2>1, <2>2, <2>3, <2>4, <2>5, <2>6, RequestsStay
<1>9. MoneyHolds'
  <2>1. \A t \in Subscriptions : MoneyOf(t)'
    BY <1>1, <1>2 DEF MoneyHolds, MoneyOf
  <2>2. ActivePlanWasPaid'
    <3>1. CASE s = NoSubscription
      BY <1>1, <1>2, <1>3, <3>1 DEF MoneyHolds, ActivePlanWasPaid
    <3>2. CASE s # NoSubscription
      <4>1. read.status = "active" => \/ read.plan = x.plan /\ x.paid
                                      \/ read.plan = account.plan /\ account.status = "active"
        BY <1>4, <1>5, <3>2, SyncedIs
      <4>2. QED BY <1>1, <1>2, <1>4, <1>5, <3>2, <4>1 DEF MoneyHolds, ActivePlanWasPaid, SeenHolds
    <3>3. QED BY <3>1, <3>2
  <2>3. mails' <= IF account'.noticed THEN 1 ELSE 0
    BY <1>1, <1>2, BillingTypes DEF MoneyHolds
  <2>4. QED BY <1>6, <2>1, <2>2, <2>3 DEF MoneyHolds
<1>10. SessionsHold'
  BY <1>1, <1>2, <1>7 DEF SessionsHold
<1>11. SchedulesHold'
  <2>1. ASSUME ~past'.cut, ~past'.doubled, NEW t \in Subscriptions, subs'[t].schedule # 0
        PROVE  ScheduleOf(t)'
    <3>1. ScheduleOf(t) /\ Untouched(t, r)
      BY <1>1, <1>2, <2>1 DEF SchedulesHold, ScheduleOf
    <3>2. s = t /\ s # NoSubscription /\ ~billing[r].clears
      BY <3>1, BillingAssumption DEF Untouched
    <3>3. account'.sub = t /\ account'.pending = read.pending
      BY <1>4, <3>2
    <3>4. read.pending = IF x.status = "active" /\ x.update = 0 /\ x.paid /\ account.pending = x.plan
                         THEN 0 ELSE account.pending
      BY <1>4, <1>5, <3>2, SyncedIs
    <3>5. Syncing(r)
      BY <1>4, <3>2
    <3>6. Shown(t)'
      BY <1>2, <3>1, <3>3, <3>4, <3>5 DEF ScheduleOf, Shown, Untouched
    <3>7. QED BY <1>6, <3>3, <3>6 DEF ScheduleOf
  <2>2. QED BY <1>1, <1>2, <2>1 DEF SchedulesHold
<1>12. NewsHolds'
  <2>1. s = NoSubscription => account.sub = NoSubscription
    BY <1>2, <1>5 DEF RequestHolds
  <2>2. account'.sub = s
    BY <1>3, <1>4, <2>1
  <2>3. \A t \in LiveSubs : t # s => \E n \in sent' \ answered' : n.kind # "subscription"
    BY <1>2, <1>5 DEF NewsOf
  <2>4. s \in Subscriptions => Fresh(account', subs'[s]) \/ \E n \in sent' \ answered' : LooksAt(n, s)
    <3>1. CASE s = NoSubscription
      BY <3>1, BillingAssumption
    <3>2. CASE s # NoSubscription /\ subs[s] = x
      BY <1>2, <1>4, <3>2
    <3>3. CASE s # NoSubscription /\ subs[s] # x
      <4>1. \E n \in sent \ answered : LooksAt(n, s) /\ n # e
        BY <1>4, <1>5, <3>3 DEF NewsOf
      <4>2. QED BY <1>2, <4>1
    <3>4. QED BY <3>1, <3>2, <3>3
  <2>5. \A t \in Subscriptions : t = account'.sub =>
          Fresh(account', subs'[t]) \/ \E n \in sent' \ answered' : LooksAt(n, t)
    BY <2>2, <2>4
  <2>6. \A t \in LiveSubs' : t # account'.sub => \E n \in sent' \ answered' : n.kind # "subscription"
    BY <1>7, <2>2, <2>3
  <2>7. IsFiniteSet(LiveSubs')
    BY <1>1, <1>7 DEF NewsHolds
  <2>8. QED BY <1>6, <2>5, <2>6, <2>7 DEF NewsHolds, LooksAt
<1>13. QED BY <1>2, <1>8, <1>9, <1>10, <1>11, <1>12 DEF BillingInv

(* The plan that is announced is not the present one.                      *)
LEMMA DowngradeKeeps ==
  ASSUME BillingInv, NEW r \in BillingRequests, NEW p \in Plans, RequestDowngrade(r, p)
  PROVE  BillingInv'
<1>1. /\ BillingTypeOK /\ RequestsHold /\ MoneyHolds /\ SessionsHold
      /\ SchedulesHold /\ NewsHolds
  BY DEF BillingInv
<1>2. /\ BillingTypeOK' /\ ~CompanyLocked /\ account.sub # NoSubscription
      /\ subs[account.sub].schedule # 0 => account.pending = p
      /\ p < subs[account.sub].plan
      /\ account' = [account EXCEPT !.pending = p]
      /\ billing'[r].phase = "scheduling"
      /\ \A q \in BillingRequests \ {r} : billing'[q] = billing[q]
  BY <1>1, DowngradeIs DEF Begins
<1>3. /\ sessions' = sessions /\ subs' = subs /\ late' = late /\ changes' = changes /\ sent' = sent
      /\ past' = past /\ answered' = answered /\ mails' = mails /\ LiveSubs' = LiveSubs
  BY <1>1, DowngradeIs DEF FindSame, LiveSubs
<1>4. /\ account'.checkout = account.checkout /\ account'.pending = p
      /\ account'.sub = account.sub
      /\ account'.status = account.status /\ account'.plan = account.plan
      /\ account'.grace = account.grace /\ account'.noticed = account.noticed
      /\ account.sub \in Subscriptions /\ subs[account.sub].plan \in Ranks
  BY <1>1, <1>2, BillingTypes DEF Account
<1>5. \A q \in BillingRequests : ~Busy(q)' /\ ~Syncing(q)'
                                  /\ (billing'[q] = billing[q] \/ RequestHolds(q)')
  BY <1>2, <1>4, NobodyBusy DEF Busy, Syncing, RequestHolds
<1>6. RequestsHold'
  <2>1. OneLocks'
    BY <1>2 DEF OneLocks, CompanyLocked
  <2>2. SentHold'
    BY <1>1, <1>3 DEF RequestsHold, SentHold
  <2>3. /\ \A t \in Subscriptions : subs'[t].status # "none" => subs'[t].plan \in Plans
        /\ \A k \in CheckoutKeys : sessions'[k].status # "none" => sessions'[k].plan \in Plans
        /\ account'.checkout.key # NoKey => account'.checkout.plan \in Plans
        /\ subs[account.sub].status # "none"
    BY <1>1, <1>2, <1>3, <1>4 DEF RequestsHold
  <2>4. \A q \in BillingRequests : billing[q].sub \in Subscriptions \cup {NoSubscription}
    BY <1>1, BillingTypes
  <2>5. QED BY <1>1, <1>3, <1>4, <1>5, <2>1, <2>2, <2>3, <2>4, RequestsStay
<1>7. MoneyHolds'
  <2>1. (\A t \in Subscriptions : MoneyOf(t)') /\ ActivePlanWasPaid'
    BY <1>1, <1>3, <1>4 DEF MoneyHolds, MoneyOf, ActivePlanWasPaid
  <2>2. QED BY <1>1, <1>3, <1>4, <1>5, <2>1 DEF MoneyHolds
<1>8. SessionsHold'
  BY <1>1, <1>3, <1>4, OpenSessionsStay
<1>9. SchedulesHold'
  <2>1. ASSUME ~past'.cut, ~past'.doubled, NEW t \in Subscriptions, subs'[t].schedule # 0
        PROVE  ScheduleOf(t)'
    <3>1. ScheduleOf(t)
      BY <1>1, <1>3, <2>1 DEF SchedulesHold
    <3>2. account.pending = p
      BY <1>2, <1>3, <2>1, <3>1 DEF ScheduleOf
    <3>3. QED BY <1>3, <1>4, <1>5, <3>1, <3>2 DEF ScheduleOf, Shown
  <2>2. QED BY <1>1, <1>3, <2>1 DEF SchedulesHold
<1>10. NewsHolds'
  <2>1. ASSUME NEW t \in Subscriptions, t = account.sub, Fresh(account, subs[t])
        PROVE  Fresh(account', subs[t])
    <3>1. subs[t].plan \in Nat /\ p \in Nat /\ p < subs[t].plan
      BY <1>2, <1>4, <2>1, BillingAssumption DEF Ranks
    <3>2. account'.pending # subs[t].plan
      BY <1>4, <3>1
    <3>3. QED BY <1>4, <2>1, <3>2 DEF Fresh
  <2>2. QED BY <1>1, <1>3, <1>4, <1>5, <2>1, NewsStay
<1>11. QED BY <1>2, <1>6, <1>7, <1>8, <1>9, <1>10 DEF BillingInv

(* The end of a grace is no news.                                          *)
LEMMA GraceKeeps ==
  ASSUME BillingInv, GraceEnds
  PROVE  BillingInv'
<1>1. /\ BillingTypeOK /\ RequestsHold /\ MoneyHolds /\ SessionsHold
      /\ SchedulesHold /\ NewsHolds
  BY DEF BillingInv
<1>2. /\ BillingTypeOK' /\ billing' = billing
      /\ account.grace = "running" /\ account' = [account EXCEPT !.grace = "over"]
  BY <1>1, GraceIs
<1>3. /\ sessions' = sessions /\ subs' = subs /\ late' = late /\ changes' = changes /\ sent' = sent
      /\ past' = past /\ answered' = answered /\ mails' = mails /\ LiveSubs' = LiveSubs
  BY <1>1, GraceIs DEF FindSame, LiveSubs
<1>4. /\ account'.checkout = account.checkout /\ account'.pending = account.pending
      /\ account'.sub = account.sub
      /\ account'.status = account.status /\ account'.plan = account.plan
      /\ account'.grace = "over" /\ account'.noticed = account.noticed
  BY <1>1, <1>2, BillingTypes DEF Account
<1>5. RequestsHold'
  BY <1>1, <1>2, <1>3, <1>4 DEF RequestsHold, RequestHolds, OneLocks, SentHold, Busy, Syncing
<1>6. MoneyHolds'
  BY <1>1, <1>2, <1>3, <1>4 DEF MoneyHolds, MoneyOf, SeenHolds, Syncing, ActivePlanWasPaid
<1>7. SessionsHold'
  BY <1>1, <1>3, <1>4, OpenSessionsStay
<1>8. SchedulesHold'
  BY <1>1, <1>2, <1>3, <1>4, SchedulesStay
<1>9. NewsHolds'
  <2>1. \A t \in Subscriptions : Fresh(account, subs[t]) => Fresh(account', subs[t])
    BY <1>2, <1>4 DEF Fresh
  <2>2. QED BY <1>1, <1>2, <1>3, <1>4, <2>1, NewsStay
<1>10. QED BY <1>2, <1>5, <1>6, <1>7, <1>8, <1>9 DEF BillingInv

(* Who ignores a notification knows another subscription, and of that one  *)
(* there is more to come.                                                  *)
LEMMA IgnoreKeeps ==
  ASSUME BillingInv, NEW e \in sent, IgnoreEvent(e)
  PROVE  BillingInv'
<1>1. /\ BillingTypeOK /\ RequestsHold /\ MoneyHolds /\ SessionsHold
      /\ SchedulesHold /\ NewsHolds
  BY DEF BillingInv
<1>2. /\ BillingTypeOK' /\ billing' = billing /\ account' = account
      /\ ~CompanyLocked /\ Selectable /\ Foreign(e)
      /\ answered' = answered \cup {e}
      /\ sessions' = sessions /\ subs' = subs /\ late' = late /\ changes' = changes
      /\ sent' = sent /\ past' = past /\ mails' = mails
  BY <1>1, IgnoreIs
<1>3. LiveSubs' = LiveSubs /\ \A q \in BillingRequests : ~Busy(q)'
  BY <1>2, NobodyBusy DEF LiveSubs, Busy, CompanyLocked
<1>4. RequestsHold'
  BY <1>1, <1>2 DEF RequestsHold, RequestHolds, OneLocks, SentHold, Busy, Syncing
<1>5. MoneyHolds'
  BY <1>1, <1>2 DEF MoneyHolds, MoneyOf, SeenHolds, Syncing, ActivePlanWasPaid
<1>6. SessionsHold'
  BY <1>1, <1>2, <1>3, OpenSessionsStay
<1>7. SchedulesHold'
  BY <1>1, <1>2, SchedulesStay
<1>8. NewsHolds'
  <2>1. /\ e.kind = "subscription" /\ Current # NoSubscription /\ Current # e.sub
        /\ \A t \in LiveSubs : t = Current
        /\ LiveSubs = {} => Current = account.sub
    BY <1>1, <1>2, CurrentIs DEF Foreign
  <2>2. \A n \in sent \ answered : n # e => n \in sent' \ answered'
    BY <1>2
  <2>3. \A t \in LiveSubs : t # account.sub => \E n \in sent' \ answered' : n.kind # "subscription"
    BY <1>1, <2>1, <2>2 DEF NewsHolds
  <2>4. ASSUME NEW t \in Subscriptions, t = account.sub
        PROVE  Fresh(account, subs[t]) \/ \E n \in sent' \ answered' : LooksAt(n, t)
    <3>1. CASE Current = account.sub
      <4>1. ~LooksAt(e, t)
        BY <2>1, <2>4, <3>1 DEF LooksAt
      <4>2. Fresh(account, subs[t]) \/ \E n \in sent \ answered : LooksAt(n, t)
        BY <1>1, <2>4 DEF NewsHolds
      <4>3. QED BY <2>2, <4>1, <4>2
    <3>2. CASE Current # account.sub
      <4>1. \E u \in LiveSubs : u # account.sub
        BY <2>1, <3>2
      <4>2. QED BY <2>3, <4>1 DEF LooksAt
    <3>3. QED BY <3>1, <3>2
  <2>5. QED BY <1>1, <1>2, <1>3, <2>3, <2>4 DEF NewsHolds, LooksAt
<1>9. QED BY <1>2, <1>4, <1>5, <1>6, <1>7, <1>8 DEF BillingInv

-----------------------------------------------------------------------------

(* A new company has nothing and owes nothing.                             *)
LEMMA BillingStarts == BillingInit => BillingInv
<1> SUFFICES ASSUME BillingInit PROVE BillingInv
  OBVIOUS
<1>1. /\ account = [sub |-> NoSubscription, plan |-> 0, checkout |-> NoCheckout, status |-> "trial",
                    grace |-> "none", pending |-> 0, noticed |-> FALSE]
      /\ sessions = [k \in CheckoutKeys |-> [status |-> "none", plan |-> 0]]
      /\ subs = [s \in Subscriptions |-> NoContract]
      /\ late = {} /\ changes = 0 /\ sent = {} /\ answered = {} /\ recorded = {}
      /\ billing = [r \in BillingRequests |-> Waiting]
      /\ mails = 0
      /\ past = [paid |-> {}, settled |-> {}, lapsed |-> {}, doubled |-> FALSE, cut |-> FALSE]
  BY DEF BillingInit
<1>2. /\ \A s \in Subscriptions : /\ subs[s].status = "none" /\ ~subs[s].paid /\ subs[s].schedule = 0
      /\ \A r \in BillingRequests : ~Busy(r) /\ ~Syncing(r) /\ billing[r].phase = "idle"
      /\ \A k \in CheckoutKeys : sessions[k].status = "none"
      /\ account.checkout.key = NoKey /\ account.sub = NoSubscription /\ account.status = "trial"
  BY <1>1, WaitingType DEF NoContract, Busy, Syncing, NoCheckout
<1>3. LiveSubs = {}
  BY <1>2 DEF LiveSubs
<1>4. BillingTypeOK
  BY <1>1, WaitingType, BillingAssumption DEF BillingTypeOK, Account
<1>5. RequestsHold
  BY <1>1, <1>2 DEF RequestsHold, RequestHolds, OneLocks, SentHold
<1>6. MoneyHolds
  BY <1>1, <1>2 DEF MoneyHolds, MoneyOf, ActivePlanWasPaid
<1>7. SessionsHold /\ SchedulesHold
  BY <1>1, <1>2, <1>3 DEF SessionsHold, SchedulesHold
<1>8. NewsHolds
  BY <1>2, <1>3, FS_EmptySet, BillingAssumption DEF NewsHolds
<1>9. QED BY <1>4, <1>5, <1>6, <1>7, <1>8 DEF BillingInv

(* Every step keeps the invariant.                                         *)
LEMMA BillingStays == BillingInv /\ [BillingNext]_billingVars => BillingInv'
<1> SUFFICES ASSUME BillingInv, [BillingNext]_billingVars PROVE BillingInv'
  OBVIOUS
<1>1. CASE UNCHANGED billingVars
  BY <1>1 DEF billingVars, BillingInv, BillingTypeOK, RequestsHold, RequestHolds, OneLocks, SentHold,
       MoneyHolds, MoneyOf, SeenHolds, ActivePlanWasPaid, SessionsHold, SchedulesHold, ScheduleOf,
       Shown, Untouched, NewsHolds, NewsOf, Busy, Syncing, LiveSubs
<1>2. CASE ProviderNext
  BY <1>2, HourKeeps, PayCheckoutKeeps, PayInvoiceKeeps, FailInvoiceKeeps, RenewKeeps, GraceKeeps
     DEF ProviderNext
<1>3. ASSUME NEW e \in sent, IgnoreEvent(e) PROVE BillingInv'
  BY <1>3, IgnoreKeeps
<1>4. ASSUME NEW r \in BillingRequests, CheckoutNext(r) PROVE BillingInv'
  <2>1. ASSUME NEW p \in Plans, NEW s \in Subscriptions, FindSubscription(r, p, s) PROVE BillingInv'
    BY <2>1, FindKeeps
  <2>2. ASSUME NEW p \in Plans, NEW key \in CheckoutKeys, PrepareCheckout(r, p, key) PROVE BillingInv'
    BY <2>2, PrepareKeeps
  <2>3. ASSUME NEW p \in Plans, RefuseCheckout(r, p) PROVE BillingInv'
    BY <2>3, EndKeeps DEF RefuseCheckout
  <2>4. ASSUME NEW p \in Plans, RestartCheckout(r, p) PROVE BillingInv'
    BY <2>4, RestartKeeps
  <2>5. ASSUME NEW p \in Plans, CreateSession(r, p) PROVE BillingInv'
    BY <2>5, CreateSessionKeeps
  <2>6. CASE AnswerCheckout(r)
    BY <2>6, EndKeeps DEF AnswerCheckout
  <2>7. CASE CommitSession(r)
    BY <2>7, CommitSessionKeeps
  <2>8. CASE CancelCheckout(r)
    BY <2>8, CancelCheckoutKeeps
  <2>9. ASSUME NEW stops \in BOOLEAN, ClearCheckout(r, stops) PROVE BillingInv'
    BY <2>9, ClearKeeps
  <2>10. QED BY <1>4, <2>1, <2>2, <2>3, <2>4, <2>5, <2>6, <2>7, <2>8, <2>9 DEF CheckoutNext
<1>5. ASSUME NEW r \in BillingRequests, SyncNext(r) PROVE BillingInv'
  <2>1. BillingTypeOK /\ RequestsHold /\ NewsHolds
    BY DEF BillingInv
  <2>2. CASE SelectForUpdate(r)
    BY <2>1, <2>2, SelectUpdateIs, SelectsKeeps
  <2>3. CASE RetrieveSubscription(r)
    BY <2>3, RetrieveKeeps
  <2>4. ASSUME NEW paid \in BOOLEAN, NEW stops \in BOOLEAN, CommitSync(r, paid, stops) PROVE BillingInv'
    BY <2>4, CommitSyncKeeps
  <2>5. ASSUME NEW e \in sent, SelectForEvent(r, e) PROVE BillingInv'
    BY <2>1, <2>5, SelectEventIs, SelectsKeeps
  <2>6. QED BY <1>5, <2>2, <2>3, <2>4, <2>5 DEF SyncNext
<1>6. ASSUME NEW r \in BillingRequests, ChangeNext(r) PROVE BillingInv'
  BY <1>6, DowngradeKeeps, UpgradeKeeps, ScheduleKeeps, CancelKeeps DEF ChangeNext
<1>7. ASSUME NEW r \in BillingRequests, FailRequest(r) PROVE BillingInv'
  BY <1>7, EndKeeps DEF FailRequest
<1>8. QED BY <1>1, <1>2, <1>3, <1>4, <1>5, <1>6, <1>7 DEF BillingNext

(* So it always holds.                                                     *)
LEMMA BillingKept == BillingSpec => []BillingInv
BY BillingStarts, BillingStays, PTL DEF BillingSpec

-----------------------------------------------------------------------------

(* The account is of the subscription that is alive, and another look      *)
(* would change nothing, when nothing is to come.                          *)
LEMMA LooksNoMore ==
  ASSUME BillingInv
  PROVE  AccountIsCurrent
<1> SUFFICES ASSUME sent = answered, Selectable, Current # NoSubscription
             PROVE  Synced(account, Current, subs[Current]) = account
  BY DEF AccountIsCurrent
<1>1. BillingTypeOK /\ RequestsHold /\ NewsHolds
  BY DEF BillingInv
<1>2. /\ Current \in Subscriptions /\ \A s \in LiveSubs : s = Current
      /\ LiveSubs = {} => Current = account.sub
  BY <1>1, CurrentIs
<1>3. \A s \in LiveSubs : s = account.sub
  BY <1>1 DEF NewsHolds
<1>4. Current = account.sub
  BY <1>2, <1>3
<1>5. Fresh(account, subs[Current])
  BY <1>1, <1>2, <1>4 DEF NewsHolds
<1>6. account \in Account /\ subs[Current] \in Contract
  BY <1>1, <1>2, BillingTypes
<1>7. QED BY <1>2, <1>4, <1>5, <1>6, FreshStays

(* The invariant says what the company was promised.                       *)
LEMMA PaidOnceFollows ==
  ASSUME BillingInv
  PROVE  PaidOnce
<1>1. /\ BillingTypeOK /\ RequestsHold /\ MoneyHolds /\ SessionsHold
      /\ SchedulesHold /\ NewsHolds
  BY DEF BillingInv
<1>2. OneOpenSession
  <2> DEFINE open == {k \in CheckoutKeys : sessions[k].status = "open"}
  <2> SUFFICES ASSUME ~past.doubled PROVE Cardinality(open) <= 1
    BY DEF OneOpenSession
  <2>1. open \subseteq {account.checkout.key}
    BY <1>1 DEF SessionsHold
  <2>2. IsFiniteSet({account.checkout.key}) /\ Cardinality({account.checkout.key}) = 1
    BY FS_Singleton
  <2>3. Cardinality(open) <= Cardinality({account.checkout.key})
    BY <2>1, <2>2, FS_Subset
  <2>4. QED BY <2>2, <2>3
<1>3. AccountIsCurrent
  BY LooksNoMore
<1>4. ActivePlanWasPaid
  BY <1>1 DEF MoneyHolds
<1>5. ScheduleIsAnnounced
  BY <1>1 DEF SchedulesHold, ScheduleOf, Shown, ScheduleIsAnnounced, LiveSubs
<1>6. FirstPaymentIsMailedOnce
  BY <1>1, BillingTypes DEF MoneyHolds, FirstPaymentIsMailedOnce
<1>7. QED BY <1>2, <1>3, <1>4, <1>5, <1>6 DEF PaidOnce, AccountFollowsPayments

(* A company is asked for its money once, and its account says what was    *)
(* paid: at most one session can be paid while the row let go of none, the *)
(* active plan was paid, a downgrade is shown, the mail goes out once, and *)
(* when every notification is answered the account is what the provider    *)
(* has.  However the requests, the notifications and the provider          *)
(* interleave, for every number of them (billing_subscriptions, stripe).   *)
THEOREM PaymentsAgree == BillingSpec => []PaidOnce
<1>1. BillingInv => PaidOnce
  BY PaidOnceFollows
<1>2. QED BY <1>1, BillingKept, PTL

-----------------------------------------------------------------------------

(* Only what is committed after a look changes the status, and only time   *)
(* ends a grace that runs.                                                 *)
LEMMA OnlySyncChanges ==
  ASSUME BillingInv, [BillingNext]_billingVars,
         ~ \E r \in BillingRequests, paid \in BOOLEAN, stops \in BOOLEAN : CommitSync(r, paid, stops)
  PROVE  /\ account'.status = account.status
         /\ account'.grace = account.grace \/ account.grace = "running"
<1>1. account \in Account
  BY DEF BillingInv, BillingTypeOK
<1> DEFINE Same == /\ account'.status = account.status
                   /\ account'.grace = account.grace \/ account.grace = "running"
<1>2. CASE UNCHANGED billingVars
  BY <1>2 DEF billingVars
<1>3. CASE ProviderNext
  BY <1>1, <1>3 DEF ProviderNext, HourPasses, PayCheckout, PayInvoice, FailInvoice, Renew, GraceEnds,
       Account
<1>4. ASSUME NEW e \in sent, IgnoreEvent(e) PROVE Same
  BY <1>4 DEF IgnoreEvent
<1>5. ASSUME NEW r \in BillingRequests, CheckoutNext(r) PROVE Same
  <2>1. ASSUME NEW p \in Plans, NEW s \in Subscriptions, FindSubscription(r, p, s) PROVE Same
    BY <1>1, <2>1 DEF FindSubscription, Account
  <2>2. ASSUME NEW p \in Plans, NEW key \in CheckoutKeys, PrepareCheckout(r, p, key) PROVE Same
    BY <1>1, <2>2 DEF PrepareCheckout, Account
  <2>3. ASSUME NEW p \in Plans, RestartCheckout(r, p) PROVE Same
    BY <1>1, <2>3 DEF RestartCheckout, Account
  <2>4. ASSUME NEW p \in Plans, RefuseCheckout(r, p) \/ CreateSession(r, p) PROVE Same
    BY <2>4 DEF RefuseCheckout, CreateSession
  <2>5. CASE AnswerCheckout(r) \/ CancelCheckout(r)
    BY <2>5 DEF AnswerCheckout, CancelCheckout
  <2>6. CASE CommitSession(r)
    BY <1>1, <2>6 DEF CommitSession, Account
  <2>7. ASSUME NEW stops \in BOOLEAN, ClearCheckout(r, stops) PROVE Same
    BY <1>1, <2>7 DEF ClearCheckout, Account
  <2>8. QED BY <1>5, <2>1, <2>2, <2>3, <2>4, <2>5, <2>6, <2>7 DEF CheckoutNext
<1>6. ASSUME NEW r \in BillingRequests, SyncNext(r) PROVE Same
  BY <1>6 DEF SyncNext, SelectForUpdate, RetrieveSubscription, SelectForEvent
<1>7. ASSUME NEW r \in BillingRequests, ChangeNext(r) PROVE Same
  <2>1. ASSUME NEW p \in Plans, RequestDowngrade(r, p) PROVE Same
    BY <1>1, <2>1 DEF RequestDowngrade, Account
  <2>2. ASSUME NEW p \in Plans, NEW paid \in BOOLEAN, Upgrade(r, p, paid) PROVE Same
    BY <2>2 DEF Upgrade
  <2>3. ASSUME NEW stops \in BOOLEAN, ScheduleDowngrade(r, stops) PROVE Same
    BY <1>1, <2>3 DEF ScheduleDowngrade, Account
  <2>4. ASSUME NEW cancel \in BOOLEAN, CancelOrResume(r, cancel) PROVE Same
    BY <2>4 DEF CancelOrResume
  <2>5. QED BY <1>7, <2>1, <2>2, <2>3, <2>4 DEF ChangeNext
<1>8. ASSUME NEW r \in BillingRequests, FailRequest(r) PROVE Same
  BY <1>8 DEF FailRequest
<1>9. QED BY <1>2, <1>3, <1>4, <1>5, <1>6, <1>7, <1>8 DEF BillingNext

(* What is committed takes the access of nobody who pays, and no new grace *)
(* is given.                                                               *)
LEMMA SyncFollows ==
  ASSUME BillingInv, NEW r \in BillingRequests, NEW paid \in BOOLEAN, NEW stops \in BOOLEAN,
         CommitSync(r, paid, stops)
  PROVE  /\ account.status = "active" /\ account'.status # "active" =>
              \/ account'.sub \in past.lapsed \/ account'.sub \notin past.settled
              \/ \E q \in BillingRequests :
                   billing[q].sub = account'.sub /\ billing[q].seen.status = "incomplete"
         /\ account.grace = "over" /\ account'.status = "past_due" => account'.grace = "over"
<1> DEFINE s == billing[r].sub
           x == billing[r].seen
           read == Synced(account, s, x)
<1>1. BillingTypeOK /\ RequestsHold /\ MoneyHolds
  BY DEF BillingInv
<1>2. /\ s = NoSubscription => account'.status = account.status /\ account'.grace = account.grace
      /\ s # NoSubscription => /\ Syncing(r) /\ s \in Subscriptions /\ account'.sub = s
                               /\ account'.status = read.status /\ account'.grace = read.grace
  BY <1>1, CommitSyncIs
<1>3. CASE s = NoSubscription
  BY <1>2, <1>3
<1>4. CASE s # NoSubscription
  <2>1. account \in Account /\ x \in Contract
    BY <1>1, BillingTypes
  <2>2. SeenHolds(r) /\ MoneyOf(s) /\ x.status # "none"
    BY <1>1, <1>2, <1>4 DEF MoneyHolds, RequestsHold, RequestHolds
  <2>3. account.status = "active" /\ read.status # "active" =>
          \/ x.status = "active" /\ ~x.paid
          \/ x.status \in {"none", "incomplete", "past_due", "canceled"}
    BY <1>2, <1>4, <2>1, SyncedIs
  <2>4. account.grace = "over" /\ read.status = "past_due" => read.grace = "over"
    BY <1>2, <1>4, <2>1, SyncedIs
  <2>5. QED BY <1>2, <1>4, <2>2, <2>3, <2>4 DEF SeenHolds, MoneyOf
<1>5. QED BY <1>3, <1>4

(* A company that pays keeps its access, and the days of grace are given   *)
(* once, whatever is read of the provider and when.                        *)
THEOREM AccessIsFair == BillingSpec => AccessFollowsPayments
<1> DEFINE Access == account.status = "active" /\ account'.status # "active" =>
                       \/ account'.sub \in past.lapsed \/ account'.sub \notin past.settled
                       \/ \E r \in BillingRequests :
                            billing[r].sub = account'.sub /\ billing[r].seen.status = "incomplete"
           Grace == account.grace = "over" /\ account'.status = "past_due" => account'.grace = "over"
<1>1. BillingInv /\ [BillingNext]_billingVars => [Access]_billingVars /\ [Grace]_billingVars
  <2> SUFFICES ASSUME BillingInv, [BillingNext]_billingVars PROVE Access /\ Grace
    OBVIOUS
  <2>1. CASE \E r \in BillingRequests, paid \in BOOLEAN, stops \in BOOLEAN : CommitSync(r, paid, stops)
    BY <2>1, SyncFollows
  <2>2. CASE ~ \E r \in BillingRequests, paid \in BOOLEAN, stops \in BOOLEAN : CommitSync(r, paid, stops)
    BY <2>2, OnlySyncChanges
  <2>3. QED BY <2>1, <2>2
<1>2. BillingSpec => [][Access]_billingVars /\ [][Grace]_billingVars
  BY <1>1, BillingKept, PTL DEF BillingSpec
<1>3. QED BY <1>2 DEF AccessFollowsPayments, PaidAccessIsKept, GraceIsGivenOnce

-----------------------------------------------------------------------------
(* Migrations: the inductive invariant.  Stages are taken by their place.  *)

Places == 1..18

(* The stage that records a stage. *)
Group(i) == IF i <= 9 THEN 9 ELSE IF i = 11 THEN 12 ELSE i

Marked(i) == Stages[Group(i)] \in markers

Upgrading(u) == upgrader[u].phase = "upgrading"

OneUpgrades ==
  \A u, w \in Upgraders :
    /\ upgrader[u].phase \in {"locked", "upgrading"}
    /\ upgrader[w].phase \in {"locked", "upgrading"}
    => u = w

(* Versions are recorded in their order, and are built when they are.      *)
MarkersHold ==
  /\ \A i, j \in Places : i <= j /\ Marked(j) => Marked(i)
  /\ \A i \in Places : Marked(i) => Stages[i] \in built

(* A process is at a stage that nobody has recorded, has built what comes  *)
(* before, and has recorded what is not recorded together with a later one.*)
UpgraderHolds(u) ==
  Upgrading(u) =>
    /\ upgrader[u].at \in 1..LastStage(upgrader[u].release)
    /\ upgrader[u].applied \subseteq markers
    /\ ~Marked(upgrader[u].at)
    /\ \A j \in Places : j < upgrader[u].at =>
         Stages[j] \in built /\ (Group(j) < upgrader[u].at => Marked(j))

ServersHold == \A release \in servers : Stages[LastStage(release)] \in markers

ControlHolds ==
  /\ MigrationsTypeOK /\ OneUpgrades /\ MarkersHold /\ ServersHold
  /\ \A u \in Upgraders : UpgraderHolds(u)

(* What a stage has filled stays filled, and plates that are indexed apart.*)
FilledHolds ==
  /\ "preferences" \in built => content.preferences # "absent"
  /\ "initialise" \in built => content.preferences \notin {"absent", "pending"}
  /\ "agents" \in built => content.agents # "absent"
  /\ "usage" \in built => content.counted
  /\ content.counted => content.owned \subseteq content.usage \cup given
  /\ "adopt" \in built => content.owned = OldRoutes
  /\ "quota" \in built => content.monthly
  /\ content.indexed => Clean

(* Until the first version is recorded the settings are those from before, *)
(* or the ones of its stages; the agents' are between two of them only     *)
(* while a process is, or after one died there.                            *)
OriginHolds ==
  /\ origin.preferences = "chosen" => content.preferences = "chosen"
  /\ content.agents = "absent" => origin.agents = "absent"
  /\ \A u \in Upgraders : Upgrading(u) /\ upgrader[u].at = 5 => origin.agents = "absent"
  /\ "legacy" \notin markers /\ ~cut =>
       \/ content.agents = origin.agents
       \/ origin.agents = "absent" /\ content.agents = "on"
       \/ \E u \in Upgraders : Upgrading(u) /\ upgrader[u].at = 5

MigrationInv == ControlHolds /\ FilledHolds /\ OriginHolds

-----------------------------------------------------------------------------
(* Migrations: the stages.                                                 *)

(* The stages by their places. *)
LEMMA StageNames ==
  /\ Len(Stages) = 18 /\ DOMAIN Stages = Places
  /\ Stages[1] = "tables" /\ Stages[2] = "preferences" /\ Stages[3] = "initialise"
  /\ Stages[4] = "agents" /\ Stages[5] = "fill" /\ Stages[6] = "usage" /\ Stages[7] = "adopt"
  /\ Stages[8] = "harden" /\ Stages[9] = "legacy" /\ Stages[10] = "evidence"
  /\ Stages[11] = "positions" /\ Stages[12] = "transfers" /\ Stages[13] = "orders"
  /\ Stages[14] = "plates" /\ Stages[15] = "quota" /\ Stages[16] = "drafts"
  /\ Stages[17] = "tutor" /\ Stages[18] = "columns"
  BY DEF Stages, LegacyStages, Places

(* The stages of the first version. *)
LEMMA LegacyNames ==
  {LegacyStages[i] : i \in DOMAIN LegacyStages}
    = {"tables", "preferences", "initialise", "agents", "fill", "usage", "adopt", "harden"}
<1>1. /\ DOMAIN LegacyStages = 1..8
      /\ LegacyStages[1] = "tables" /\ LegacyStages[2] = "preferences"
      /\ LegacyStages[3] = "initialise" /\ LegacyStages[4] = "agents"
      /\ LegacyStages[5] = "fill" /\ LegacyStages[6] = "usage"
      /\ LegacyStages[7] = "adopt" /\ LegacyStages[8] = "harden"
  BY DEF LegacyStages
<1>2. 1..8 = {1, 2, 3, 4, 5, 6, 7, 8}
  OBVIOUS
<1>3. QED BY <1>1, <1>2

(* No stage has two places. *)
LEMMA StagesDiffer == \A i, j \in Places : Stages[i] = Stages[j] => i = j
<1>1. Places = {1, 2, 3, 4, 5, 6, 7, 8, 9, 10, 11, 12, 13, 14, 15, 16, 17, 18}
  BY DEF Places
<1>2. QED BY <1>1, StageNames

(* A stage is recorded by that of its group, itself if that is its own.    *)
LEMMA StagesRecorded ==
  \A i \in Places :
    /\ Group(i) \in Places /\ i <= Group(i) /\ Group(Group(i)) = Group(i)
    /\ RecordedAs(Stages[i]) = Stages[Group(i)]
    /\ Recorded(Stages[i]) = IF Group(i) = i THEN markers \cup {Stages[i]} ELSE markers
<1>1. Places = {1, 2, 3, 4, 5, 6, 7, 8, 9, 10, 11, 12, 13, 14, 15, 16, 17, 18}
  BY DEF Places
<1>2. \A i \in Places : Group(i) \in Places /\ i <= Group(i) /\ Group(Group(i)) = Group(i)
  BY DEF Places, Group
<1>3. \A stage : RecordedAs(stage) =
        IF stage \in {LegacyStages[i] : i \in DOMAIN LegacyStages} THEN "legacy"
        ELSE IF stage = "positions" THEN "transfers" ELSE stage
  BY DEF RecordedAs
<1>4. \A i \in Places : RecordedAs(Stages[i]) = Stages[Group(i)]
  BY <1>1, <1>3, LegacyNames, StageNames DEF Group
<1>5. \A i \in Places :
        Recorded(Stages[i]) = IF Group(i) = i THEN markers \cup {Stages[i]} ELSE markers
  BY <1>1, LegacyNames, StageNames DEF Group, Recorded
<1>6. QED BY <1>2, <1>4, <1>5

(* Groups are in the order of their stages. *)
LEMMA GroupsOrdered == \A i, j \in Places : i <= j => Group(i) <= Group(j)
  BY DEF Group, Places

(* The last stages of the releases. *)
LEMMA LastStages ==
  \A release \in Releases : LastStage(release) \in {16, 18} /\ Group(LastStage(release)) = LastStage(release)
  BY StageNames DEF LastStage, Group, Releases

-----------------------------------------------------------------------------
(* Migrations: the order of the stages.                                    *)

(* What is known of a process at a stage. *)
LEMMA UpgraderTypes ==
  ASSUME ControlHolds, NEW u \in Upgraders
  PROVE  /\ upgrader[u] \in Upgrader /\ upgrader[u].release \in Releases
         /\ upgrader[u].at \in Nat
         /\ LastStage(upgrader[u].release) \in Places
         /\ Upgrading(u) => upgrader[u].at \in Places
<1>1. upgrader[u] \in Upgrader
  BY DEF ControlHolds, MigrationsTypeOK
<1>2. /\ upgrader[u].release \in Releases /\ upgrader[u].at \in Nat
  BY <1>1, StageNames DEF Upgrader
<1>3. LastStage(upgrader[u].release) \in {16, 18}
  BY <1>2, LastStages
<1>4. QED BY <1>1, <1>2, <1>3 DEF ControlHolds, UpgraderHolds, Places

(* A process is where the name of its stage says. *)
LEMMA AtPlace ==
  ASSUME ControlHolds, NEW u \in Upgraders, NEW i \in Places, At(u, Stages[i])
  PROVE  Upgrading(u) /\ upgrader[u].at = i
  BY UpgraderTypes, StagesDiffer DEF At, Upgrading

(* A process that does nothing. *)
LEMMA AsleepFields == Asleep \in Upgrader /\ Asleep.phase = "idle"
  BY StageNames DEF Asleep, Upgrader, Releases

(* Processes keep what they know when one of them takes up another state   *)
(* and nothing is recorded.                                                *)
LEMMA UpgraderChanges ==
  ASSUME ControlHolds, NEW u \in Upgraders, NEW new \in Upgrader,
         upgrader' = [upgrader EXCEPT ![u] = new],
         new.phase \in {"locked", "upgrading"} =>
           \A w \in Upgraders \ {u} : upgrader[w].phase \notin {"locked", "upgrading"},
         UNCHANGED markers, built \subseteq built', built' \subseteq {Stages[i] : i \in DOMAIN Stages},
         content' \in Content, repeated' \in BOOLEAN, cut' \in BOOLEAN, UNCHANGED <<servers, given>>,
         new.phase = "upgrading" =>
           /\ new.at \in 1..LastStage(new.release) /\ new.applied \subseteq markers
           /\ ~Marked(new.at)
           /\ \A j \in Places : j < new.at =>
                Stages[j] \in built' /\ (Group(j) < new.at => Marked(j))
  PROVE  ControlHolds'
<1>1. /\ upgrader' \in [Upgraders -> Upgrader] /\ upgrader'[u] = new
      /\ \A w \in Upgraders \ {u} : upgrader'[w] = upgrader[w]
  BY DEF ControlHolds, MigrationsTypeOK
<1>2. MigrationsTypeOK'
  BY <1>1 DEF ControlHolds, MigrationsTypeOK
<1>3. OneUpgrades'
  BY <1>1 DEF ControlHolds, OneUpgrades
<1>4. MarkersHold'
  BY DEF ControlHolds, MarkersHold, Marked
<1>5. ServersHold'
  BY DEF ControlHolds, ServersHold
<1>6. ASSUME NEW w \in Upgraders PROVE UpgraderHolds(w)'
  <2>1. CASE w = u
    BY <1>1, <2>1 DEF UpgraderHolds, Upgrading, Marked
  <2>2. CASE w # u
    BY <1>1, <2>2 DEF ControlHolds, UpgraderHolds, Upgrading, Marked
  <2>3. QED BY <2>1, <2>2
<1>7. QED BY <1>2, <1>3, <1>4, <1>5, <1>6 DEF ControlHolds

(* After the stage a process is at comes the next one: the markers it has  *)
(* read end before.                                                        *)
LEMMA NextIsNext ==
  ASSUME ControlHolds, NEW u \in Upgraders, Upgrading(u)
  PROVE  NextStage(upgrader[u].release, upgrader[u].applied, upgrader[u].at) =
           IF upgrader[u].at = LastStage(upgrader[u].release) THEN 0 ELSE upgrader[u].at + 1
<1> DEFINE i == upgrader[u].at
           last == LastStage(upgrader[u].release)
           later == {j \in (i + 1)..last : Pending(Stages[j], upgrader[u].applied)}
<1>1. /\ i \in Places /\ last \in Places /\ i <= last
      /\ ~Marked(i) /\ upgrader[u].applied \subseteq markers
  BY UpgraderTypes DEF ControlHolds, UpgraderHolds, Places
<1>2. ASSUME NEW j \in (i + 1)..last PROVE Pending(Stages[j], upgrader[u].applied)
  <2>1. j \in Places /\ i <= j
    BY <1>1 DEF Places
  <2>2. ~Marked(j)
    BY <1>1, <2>1 DEF ControlHolds, MarkersHold
  <2>3. QED BY <1>1, <2>1, <2>2, StagesRecorded DEF Pending, Marked
<1>3. later = (i + 1)..last
  BY <1>2
<1>4. NextStage(upgrader[u].release, upgrader[u].applied, i) =
        IF later = {} THEN 0 ELSE CHOOSE j \in later : \A k \in later : j <= k
  BY DEF NextStage
<1> HIDE DEF later
<1>5. i \in Nat /\ last \in Nat
  BY <1>1 DEF Places
<1> HIDE DEF i, last
<1>6. CASE i = last
  <2>1. later = {}
    BY <1>3, <1>5, <1>6
  <2>2. QED BY <1>4, <1>6, <2>1 DEF i, last
<1>7. CASE i # last
  <2>1. i + 1 \in later /\ \A k \in later : i + 1 <= k
    BY <1>1, <1>3, <1>5, <1>7
  <2>2. \A j \in later : (\A k \in later : j <= k) => j = i + 1
    BY <1>3, <1>5, <2>1
  <2>3. (CHOOSE j \in later : \A k \in later : j <= k) = i + 1
    BY <2>1, <2>2
  <2>4. QED BY <1>4, <1>7, <2>1, <2>3 DEF i, last
<1>8. QED BY <1>6, <1>7

(* What a commit does to the rows of the upgrade.                          *)
LEMMA CommitFields ==
  ASSUME ControlHolds, NEW u \in Upgraders, Upgrading(u), NEW new, Commit(u, new)
  PROVE  /\ markers' = IF Group(upgrader[u].at) = upgrader[u].at
                         THEN markers \cup {Stages[upgrader[u].at]} ELSE markers
         /\ built' = built \cup {Stages[upgrader[u].at]} /\ content' = new
         /\ upgrader' = [upgrader EXCEPT ![u] =
              IF upgrader[u].at = LastStage(upgrader[u].release) THEN Asleep
              ELSE [upgrader[u] EXCEPT !.at = upgrader[u].at + 1]]
         /\ UNCHANGED <<repeated, servers, origin, cut>>
<1>1. upgrader[u].at \in Places /\ upgrader[u] \in Upgrader /\ upgrader[u].phase = "upgrading"
  BY UpgraderTypes DEF Upgrading
<1>2. [upgrader[u] EXCEPT !.phase = "upgrading", !.at = upgrader[u].at + 1]
        = [upgrader[u] EXCEPT !.at = upgrader[u].at + 1]
  BY <1>1 DEF Upgrader
<1>3. upgrader[u].at + 1 # 0
  BY <1>1 DEF Places
<1>4. upgrader \in [Upgraders -> Upgrader]
  BY DEF ControlHolds, MigrationsTypeOK
<1> DEFINE next == NextStage(upgrader[u].release, upgrader[u].applied, upgrader[u].at)
<1>5. upgrader' = [upgrader EXCEPT ![u] = Moved(u, next)]
  BY <1>4 DEF Commit
<1>6. next = IF upgrader[u].at = LastStage(upgrader[u].release) THEN 0 ELSE upgrader[u].at + 1
  BY NextIsNext
<1> HIDE DEF next
<1>7. Moved(u, next) = IF upgrader[u].at = LastStage(upgrader[u].release) THEN Asleep
              ELSE [upgrader[u] EXCEPT !.at = upgrader[u].at + 1]
  BY <1>2, <1>3, <1>6 DEF Moved
<1>8. QED BY <1>1, <1>5, <1>7, StagesRecorded DEF Commit

(* A commit keeps the order of the versions.                               *)
LEMMA CommitControl ==
  ASSUME ControlHolds, NEW u \in Upgraders, Upgrading(u), NEW new \in Content, Commit(u, new),
         given' \subseteq OldRoutes
  PROVE  ControlHolds'
<1> DEFINE i == upgrader[u].at
           last == LastStage(upgrader[u].release)
           row == IF i = last THEN Asleep ELSE [upgrader[u] EXCEPT !.at = i + 1]
<1>1. /\ upgrader[u] \in Upgrader /\ i \in Places /\ last \in Places /\ i <= last
      /\ ~Marked(i) /\ upgrader[u].applied \subseteq markers
      /\ \A j \in Places : j < i => Stages[j] \in built /\ (Group(j) < i => Marked(j))
  BY UpgraderTypes DEF ControlHolds, UpgraderHolds, Places
<1>2. /\ markers' = IF Group(i) = i THEN markers \cup {Stages[i]} ELSE markers
      /\ built' = built \cup {Stages[i]} /\ content' = new
      /\ upgrader' = [upgrader EXCEPT ![u] = row] /\ UNCHANGED <<repeated, servers, origin, cut>>
  BY CommitFields
<1>3. row \in Upgrader
  <2>1. CASE i = last
    BY <2>1, AsleepFields
  <2>2. CASE i # last
    <3>1. i + 1 \in 0..Len(Stages)
      BY <1>1, <2>2, StageNames DEF Places
    <3>2. QED BY <1>1, <2>2, <3>1 DEF Upgrader
  <2>3. QED BY <2>1, <2>2
<1>4. /\ row.phase = "upgrading" => i # last /\ row.at = i + 1 /\ row.release = upgrader[u].release
                                    /\ row.applied = upgrader[u].applied
      /\ row.phase # "locked"
  BY <1>1, AsleepFields DEF Upgrading, Upgrader
<1>5. /\ upgrader' \in [Upgraders -> Upgrader] /\ upgrader'[u] = row
      /\ \A w \in Upgraders \ {u} : upgrader'[w] = upgrader[w]
  BY <1>2, <1>3 DEF ControlHolds, MigrationsTypeOK
<1>6. \A w \in Upgraders \ {u} : upgrader[w].phase \notin {"locked", "upgrading"}
  BY DEF ControlHolds, OneUpgrades, Upgrading
<1> HIDE DEF row, last
<1>7. markers \subseteq markers' /\ markers' \subseteq {Stages[j] : j \in DOMAIN Stages}
  BY <1>1, <1>2, StageNames DEF ControlHolds, MigrationsTypeOK
<1>8. MigrationsTypeOK'
  BY <1>1, <1>2, <1>5, <1>7, StageNames DEF ControlHolds, MigrationsTypeOK
<1>9. OneUpgrades'
  BY <1>5, <1>6 DEF OneUpgrades
<1>10. \A j \in Places : Marked(j)' <=> (Marked(j) \/ (Group(i) = i /\ Group(j) = i))
  BY <1>1, <1>2, StagesRecorded, StagesDiffer DEF Marked
<1>11. ASSUME NEW j \in Places, NEW k \in Places, j <= k, Marked(k)' PROVE Marked(j)'
  <2>1. CASE Marked(k)
    BY <1>10, <1>11, <2>1 DEF ControlHolds, MarkersHold
  <2>2. CASE Group(i) = i /\ Group(k) = i
    <3>1. Group(j) \in Places /\ Group(j) <= i /\ j <= i /\ j <= Group(j)
      BY <1>11, <2>2, GroupsOrdered, StagesRecorded DEF Places
    <3>2. CASE Group(j) = i
      BY <1>10, <2>2, <3>2
    <3>3. CASE Group(j) < i
      BY <1>1, <1>10, <3>1, <3>3 DEF Places
    <3>4. QED BY <1>1, <3>1, <3>2, <3>3 DEF Places
  <2>3. QED BY <1>10, <1>11, <2>1, <2>2
<1>12. ASSUME NEW j \in Places, Marked(j)' PROVE Stages[j] \in built'
  <2>1. CASE Marked(j)
    BY <1>2, <2>1 DEF ControlHolds, MarkersHold
  <2>2. CASE Group(i) = i /\ Group(j) = i
    <3>1. j <= i
      BY <2>2, StagesRecorded
    <3>2. QED BY <1>1, <1>2, <3>1 DEF Places
  <2>3. QED BY <1>10, <1>12, <2>1, <2>2
<1>13. MarkersHold'
  BY <1>11, <1>12 DEF MarkersHold
<1>14. ServersHold'
  BY <1>2, <1>7 DEF ControlHolds, ServersHold
<1>15. ASSUME row.phase = "upgrading"
       PROVE  /\ i + 1 \in 1..last /\ row.applied \subseteq markers'
              /\ Stages[Group(i + 1)] \notin markers'
              /\ \A j \in Places : j < i + 1 =>
                   Stages[j] \in built' /\ (Group(j) < i + 1 => Marked(j)')
  <2>1. i + 1 \in 1..last /\ i + 1 \in Places
    BY <1>1, <1>4, <1>15 DEF Places
  <2>2. ~Marked(i + 1) /\ Group(i + 1) # i
    <3>1. i <= i + 1 /\ i + 1 <= Group(i + 1)
      BY <1>1, <2>1, StagesRecorded DEF Places
    <3>2. QED BY <1>1, <2>1, <3>1, StagesRecorded DEF ControlHolds, MarkersHold, Places
  <2>3. Stages[Group(i + 1)] \notin markers'
    BY <1>1, <1>2, <2>1, <2>2, StagesRecorded, StagesDiffer DEF Marked
  <2>4. ASSUME NEW j \in Places, j < i + 1
        PROVE  Stages[j] \in built' /\ (Group(j) < i + 1 => Marked(j)')
    <3>1. j <= i /\ Group(j) \in Places
      BY <1>1, <2>4, StagesRecorded DEF Places
    <3>2. Stages[j] \in built'
      BY <1>1, <1>2, <3>1 DEF Places
    <3>3. ASSUME Group(j) < i + 1 PROVE Marked(j)'
      <4>1. CASE Group(j) = i
        BY <1>1, <1>10, <4>1, StagesRecorded
      <4>2. CASE Group(j) # i
        <5>1. Group(j) < i /\ j < i
          BY <1>1, <3>1, <3>3, <4>2, StagesRecorded DEF Places
        <5>2. QED BY <1>1, <1>10, <5>1
      <4>3. QED BY <4>1, <4>2
    <3>4. QED BY <3>2, <3>3
  <2>5. QED BY <1>1, <1>4, <1>7, <1>15, <2>1, <2>3, <2>4
<1>16. ASSUME NEW w \in Upgraders PROVE UpgraderHolds(w)'
  <2>1. CASE w = u
    BY <1>4, <1>5, <1>15, <2>1 DEF UpgraderHolds, Upgrading, Marked, last
  <2>2. CASE w # u
    BY <1>5, <1>6, <2>2 DEF UpgraderHolds, Upgrading
  <2>3. QED BY <2>1, <2>2
<1>17. QED BY <1>8, <1>9, <1>13, <1>14, <1>16 DEF ControlHolds

(* A process that has read the markers begins with the first stage that is *)
(* not recorded, which is the first of its group.                          *)
LEMMA FirstStage ==
  ASSUME ControlHolds, NEW release \in Releases,
         NextStage(release, markers, 0) # 0
  PROVE  LET first == NextStage(release, markers, 0) IN
         /\ first \in 1..LastStage(release) /\ first # 5 /\ ~Marked(first)
         /\ \A j \in Places : j < first => Stages[j] \in built /\ Marked(j)
<1> DEFINE last == LastStage(release)
           later == {j \in 1..last : Pending(Stages[j], markers)}
<1>1. last \in {16, 18}
  BY LastStages
<1> HIDE DEF last
<1>2. \A j \in 1..last : j \in Places
  BY <1>1 DEF Places
<1>3. later = {j \in 1..last : ~Marked(j)}
  BY <1>2, StagesRecorded DEF Pending, Marked
<1>4. NextStage(release, markers, 0) =
        IF later = {} THEN 0 ELSE CHOOSE j \in later : \A k \in later : j <= k
  BY DEF NextStage, last
<1>5. later \in SUBSET Nat
  BY <1>3
<1> HIDE DEF later
<1>6. later # {}
  BY <1>4
<1>7. \E j \in later : \A k \in later : j <= k
  BY <1>5, <1>6, LeastNumber
<1> DEFINE first == NextStage(release, markers, 0)
<1>8. first \in later /\ \A k \in later : first <= k
  BY <1>4, <1>6, <1>7
<1> HIDE DEF first
<1>9. first \in 1..last /\ ~Marked(first)
  BY <1>3, <1>8
<1>10. ASSUME NEW j \in Places, j < first PROVE Stages[j] \in built /\ Marked(j)
  <2>1. j \in 1..last /\ j \notin later
    BY <1>1, <1>8, <1>9, <1>10 DEF Places
  <2>2. Marked(j)
    BY <1>3, <2>1
  <2>3. QED BY <2>2 DEF ControlHolds, MarkersHold
<1>11. first # 5
  <2>1. SUFFICES ASSUME first = 5 PROVE FALSE
    OBVIOUS
  <2>2. Marked(1)
    BY <1>10, <2>1 DEF Places
  <2>3. Marked(5)
    BY <2>2 DEF Marked, Group
  <2>4. QED BY <1>9, <2>1, <2>3
<1>12. QED BY <1>9, <1>10, <1>11 DEF first, last

(* Reading and waiting, and the end of a process, keep what is recorded.   *)
RestKept == UNCHANGED <<markers, built, content, repeated, servers, origin, given>>

(* No process comes to the filling of the agents' column. *)
NobodyFills ==
  \A w \in Upgraders : Upgrading(w)' /\ upgrader'[w].at = 5 => Upgrading(w) /\ upgrader[w].at = 5

(* A process that changes in another way than by a commit.                 *)
LEMMA ProcessChanges ==
  ASSUME ControlHolds, NEW u \in Upgraders, NEW new \in Upgrader,
         upgrader' = [upgrader EXCEPT ![u] = new],
         new.phase \in {"locked", "upgrading"} =>
           \A w \in Upgraders \ {u} : upgrader[w].phase \notin {"locked", "upgrading"},
         RestKept, cut' \in BOOLEAN,
         new.phase = "upgrading" =>
           /\ new.at \in 1..LastStage(new.release) /\ new.applied \subseteq markers
           /\ ~Marked(new.at) /\ new.at # 5
           /\ \A j \in Places : j < new.at =>
                Stages[j] \in built /\ (Group(j) < new.at => Marked(j))
  PROVE  ControlHolds' /\ NobodyFills
<1>1. /\ upgrader'[u] = new
      /\ \A w \in Upgraders \ {u} : upgrader'[w] = upgrader[w]
  BY DEF ControlHolds, MigrationsTypeOK
<1>2. NobodyFills
  BY <1>1 DEF NobodyFills, Upgrading
<1>3. /\ content' \in Content /\ repeated' \in BOOLEAN /\ built \subseteq built'
      /\ built' \subseteq {Stages[i] : i \in DOMAIN Stages}
      /\ UNCHANGED <<servers, given, markers>>
  BY DEF RestKept, ControlHolds, MigrationsTypeOK
<1>4. built' = built
  BY DEF RestKept
<1>5. QED BY <1>2, <1>3, <1>4, UpgraderChanges

(* A process begins, waits for the lock, or ends. *)
LEMMA BeginControl ==
  ASSUME ControlHolds, NEW u \in Upgraders, NEW release \in Releases, BeginUpgrade(u, release)
  PROVE  ControlHolds' /\ NobodyFills
<1>1. LET new == [Asleep EXCEPT !.phase = "waiting", !.release = release]
      IN  new \in Upgrader /\ new.phase = "waiting"
  BY AsleepFields DEF Upgrader
<1>2. RestKept /\ cut' \in BOOLEAN
  BY DEF BeginUpgrade, RestKept, ControlHolds, MigrationsTypeOK
<1>3. QED BY <1>1, <1>2, ProcessChanges DEF BeginUpgrade

(* The lock is free when a process takes it. *)
LEMMA LockControl ==
  ASSUME ControlHolds, NEW u \in Upgraders, LockUpgrades(u)
  PROVE  ControlHolds' /\ NobodyFills
<1> DEFINE new == [upgrader[u] EXCEPT !.phase = "locked"]
<1>1. new \in Upgrader /\ new.phase = "locked"
  BY UpgraderTypes DEF Upgrader
<1>2. RestKept /\ cut' \in BOOLEAN
  BY DEF LockUpgrades, RestKept, ControlHolds, MigrationsTypeOK
<1>3. upgrader' = [upgrader EXCEPT ![u] = new]
  BY DEF LockUpgrades
<1>4. \A w \in Upgraders \ {u} : upgrader[w].phase \notin {"locked", "upgrading"}
  BY DEF LockUpgrades
<1> HIDE DEF new
<1>5. QED BY <1>1, <1>2, <1>3, <1>4, ProcessChanges

(* What is applied is read while nobody else writes it. *)
LEMMA ReadControl ==
  ASSUME ControlHolds, NEW u \in Upgraders, ReadMarkers(u)
  PROVE  ControlHolds' /\ NobodyFills
<1> DEFINE first == NextStage(upgrader[u].release, markers, 0)
           new == IF first = 0 THEN Asleep
                  ELSE [upgrader[u] EXCEPT !.phase = "upgrading", !.applied = markers, !.at = first]
<1>1. upgrader[u] \in Upgrader /\ upgrader[u].release \in Releases /\ upgrader[u].phase = "locked"
  BY UpgraderTypes DEF ReadMarkers
<1>2. upgrader' = [upgrader EXCEPT ![u] = new]
  BY DEF ReadMarkers, ControlHolds, MigrationsTypeOK
<1>3. RestKept /\ cut' \in BOOLEAN
  BY DEF ReadMarkers, RestKept, ControlHolds, MigrationsTypeOK
<1>4. \A w \in Upgraders \ {u} : upgrader[w].phase \notin {"locked", "upgrading"}
  BY <1>1 DEF ControlHolds, OneUpgrades
<1>5. first # 0 =>
        /\ first \in 1..LastStage(upgrader[u].release) /\ first # 5 /\ ~Marked(first)
        /\ \A j \in Places : j < first => Stages[j] \in built /\ Marked(j)
  BY <1>1, FirstStage
<1> HIDE DEF first
<1>6. new \in Upgrader /\ (new.phase = "upgrading" =>
         /\ first # 0 /\ new.at = first /\ new.applied = markers
         /\ new.release = upgrader[u].release)
  <2>1. CASE first = 0
    BY <2>1, AsleepFields
  <2>2. CASE first # 0
    <3>1. first \in 0..Len(Stages)
      BY <1>1, <1>5, <2>2, LastStages, StageNames
    <3>2. markers \in SUBSET {Stages[i] : i \in DOMAIN Stages}
      BY DEF ControlHolds, MigrationsTypeOK
    <3>3. QED BY <1>1, <2>2, <3>1, <3>2 DEF Upgrader
  <2>3. QED BY <2>1, <2>2
<1> HIDE DEF new
<1>7. new.phase = "upgrading" =>
        /\ new.at \in 1..LastStage(new.release) /\ new.applied \subseteq markers
        /\ ~Marked(new.at) /\ new.at # 5
        /\ \A j \in Places : j < new.at =>
             Stages[j] \in built /\ (Group(j) < new.at => Marked(j))
  BY <1>5, <1>6
<1>8. QED BY <1>2, <1>3, <1>4, <1>6, <1>7, ProcessChanges

(* A process that ends holds nothing. *)
LEMMA DieControl ==
  ASSUME ControlHolds, NEW u \in Upgraders, DieUpgrading(u)
  PROVE  ControlHolds' /\ NobodyFills
<1>1. RestKept /\ cut' \in BOOLEAN
  BY DEF DieUpgrading, RestKept, ControlHolds, MigrationsTypeOK
<1>2. QED BY <1>1, AsleepFields, ProcessChanges DEF DieUpgrading

-----------------------------------------------------------------------------
(* Migrations: what companies have.                                        *)

(* The settings when the first version is recorded. *)
SettingsKept ==
  "legacy" \in markers' \ markers =>
    /\ origin.preferences = "chosen" => content'.preferences = "chosen"
    /\ ~cut => content'.agents = IF origin.agents = "absent" THEN "on" ELSE origin.agents

(* Plates when they are recorded as normalised, and once they are indexed. *)
PlatesWritten ==
  "plates" \in markers' \ markers =>
    \A t \in Trucks : content'.plate[t] \in {"spaced", "lower"} =>
      \E s \in Trucks \ {t} : content'.plate[s] = "clean"

PlatesApart ==
  "harden" \in built /\ content.indexed =>
    \A t, s \in Trucks : t # s => content'.plate[t] # content'.plate[s]

(* A process that goes on does nothing again. *)
NothingAgain ==
  upgrader' # upgrader =>
    /\ "legacy" \in markers => /\ content'.agents = content.agents
                               /\ content'.preferences = content.preferences
                               /\ content'.usage = content.usage
    /\ "plates" \in markers => content'.plate = content.plate
    /\ "tutor" \in markers => content'.tutor = content.tutor

MigrationSafe == SettingsKept /\ PlatesWritten /\ PlatesApart /\ NothingAgain

(* What companies have, field by field. *)
LEMMA ContentTypes ==
  ASSUME MigrationInv
  PROVE  /\ content \in Content
         /\ content.preferences \in {"absent", "pending", "default", "chosen"}
         /\ content.agents \in {"absent", "off", "on"}
         /\ content.owned \in SUBSET OldRoutes /\ content.counted \in BOOLEAN
         /\ content.usage \in SUBSET OldRoutes /\ content.plate \in [Trucks -> Spellings]
         /\ content.indexed \in BOOLEAN /\ content.monthly \in BOOLEAN
         /\ content.tutor \in {"active", "closed", "completed"}
         /\ given \in SUBSET OldRoutes
BY DEF MigrationInv, ControlHolds, MigrationsTypeOK, Content

(* A commit of the stage at a place.                                       *)
LEMMA CommitFacts ==
  ASSUME MigrationInv, NEW u \in Upgraders, NEW i \in Places, At(u, Stages[i]),
         NEW new \in Content, Commit(u, new), given' \subseteq OldRoutes
  PROVE  /\ ControlHolds'
         /\ markers' = IF Group(i) = i THEN markers \cup {Stages[i]} ELSE markers
         /\ Stages[Group(i)] \notin markers
         /\ built' = built \cup {Stages[i]} /\ content' = new
         /\ UNCHANGED <<repeated, servers, origin, cut>>
         /\ \A j \in Places : j < i => Stages[j] \in built
         /\ \A w \in Upgraders : Upgrading(w) => w = u /\ upgrader[w].at = i
         /\ \A w \in Upgraders : Upgrading(w)' => w = u /\ upgrader'[w].at = i + 1
         /\ i # 18 /\ i # 16 => Upgrading(u)'
<1>1. Upgrading(u) /\ upgrader[u].at = i /\ upgrader[u] \in Upgrader
  BY AtPlace, UpgraderTypes DEF MigrationInv
<1>2. ControlHolds'
  BY <1>1, CommitControl DEF MigrationInv
<1>3. /\ markers' = IF Group(i) = i THEN markers \cup {Stages[i]} ELSE markers
      /\ built' = built \cup {Stages[i]} /\ content' = new
      /\ upgrader' = [upgrader EXCEPT ![u] =
              IF i = LastStage(upgrader[u].release) THEN Asleep
              ELSE [upgrader[u] EXCEPT !.at = i + 1]]
      /\ UNCHANGED <<repeated, servers, origin, cut>>
  BY <1>1, CommitFields DEF MigrationInv
<1>4. /\ Stages[Group(i)] \notin markers
      /\ \A j \in Places : j < i => Stages[j] \in built
  BY <1>1 DEF MigrationInv, ControlHolds, UpgraderHolds, Marked
<1>5. \A w \in Upgraders : Upgrading(w) => w = u /\ upgrader[w].at = i
  BY <1>1 DEF MigrationInv, ControlHolds, OneUpgrades, Upgrading
<1>6. /\ \A w \in Upgraders \ {u} : upgrader'[w] = upgrader[w]
      /\ upgrader'[u] = IF i = LastStage(upgrader[u].release) THEN Asleep
                        ELSE [upgrader[u] EXCEPT !.at = i + 1]
  BY <1>3 DEF MigrationInv, ControlHolds, MigrationsTypeOK
<1>7. Asleep.phase = "idle" /\ LastStage(upgrader[u].release) \in {16, 18}
  BY <1>1, AsleepFields, LastStages DEF Upgrader
<1>8. \A w \in Upgraders : Upgrading(w)' => w = u /\ upgrader'[w].at = i + 1
  BY <1>1, <1>5, <1>6, <1>7 DEF Upgrading, Upgrader
<1>9. i # 18 /\ i # 16 => Upgrading(u)'
  BY <1>1, <1>6, <1>7 DEF Upgrading, Upgrader
<1>10. QED BY <1>2, <1>3, <1>4, <1>5, <1>8, <1>9

(* A commit outside the settings leaves their history as it is, and when   *)
(* the first version is recorded they are what it promises.                *)
LEMMA SettingsStay ==
  ASSUME MigrationInv, NEW u \in Upgraders, NEW i \in Places, At(u, Stages[i]), i \notin 2..5,
         NEW new \in Content, Commit(u, new), given' \subseteq OldRoutes,
         new.agents = content.agents, new.preferences = content.preferences
  PROVE  OriginHolds' /\ SettingsKept
<1>1. /\ content' = new /\ UNCHANGED <<origin, cut>> /\ markers \subseteq markers'
      /\ markers' \subseteq markers \cup {Stages[i]}
      /\ \A j \in Places : j < i => Stages[j] \in built
      /\ \A w \in Upgraders : Upgrading(w) => upgrader[w].at = i
      /\ \A w \in Upgraders : Upgrading(w)' => upgrader'[w].at = i + 1
  BY CommitFacts
<1>2. i # 5 /\ i + 1 # 5 /\ i \in Nat
  BY DEF Places
<1>3. /\ origin.preferences = "chosen" => content.preferences = "chosen"
      /\ content.agents = "absent" => origin.agents = "absent"
      /\ "legacy" \notin markers /\ ~cut =>
           \/ content.agents = origin.agents
           \/ origin.agents = "absent" /\ content.agents = "on"
  BY <1>1, <1>2 DEF MigrationInv, OriginHolds
<1>4. OriginHolds'
  BY <1>1, <1>2, <1>3 DEF OriginHolds
<1>5. SettingsKept
  <2>1. SUFFICES ASSUME "legacy" \in markers' \ markers PROVE SettingsKept
    BY DEF SettingsKept
  <2>2. i = 9
    <3>1. Stages[i] = Stages[9] /\ 9 \in Places
      BY <1>1, <2>1, StageNames DEF Places
    <3>2. QED BY <3>1, StagesDiffer
  <2>3. "agents" \in built
    <3>1. 4 \in Places /\ 4 < i
      BY <2>2 DEF Places
    <3>2. QED BY <1>1, <3>1, StageNames
  <2>4. content.agents # "absent"
    BY <2>3 DEF MigrationInv, FilledHolds
  <2>5. QED BY <1>1, <1>3, <2>1, <2>4 DEF SettingsKept
<1>6. QED BY <1>4, <1>5

(* Places by the names of their stages, where a stage writes what companies*)
(* have or records what it wrote.                                          *)
LEMMA NewMarkers ==
  ASSUME MigrationInv, NEW u \in Upgraders, NEW i \in Places, At(u, Stages[i]),
         NEW new \in Content, Commit(u, new), given' \subseteq OldRoutes
  PROVE  /\ "plates" \in markers' \ markers => i = 14
         /\ "legacy" \in markers' \ markers => i = 9
         /\ i <= 9 => "legacy" \notin markers
         /\ i = 14 => "plates" \notin markers
         /\ i = 17 => "tutor" \notin markers
<1>1. /\ markers' \subseteq markers \cup {Stages[i]} /\ Stages[Group(i)] \notin markers
  BY CommitFacts
<1>2. {9, 14, 17} \subseteq Places
  BY DEF Places
<1>3. QED BY <1>1, <1>2, StageNames, StagesDiffer DEF Group

(* Stages that add tables, columns and indexes only. *)
LEMMA BuildSafe ==
  ASSUME MigrationInv, NEW u \in Upgraders, NEW i \in {1, 9, 10, 11, 12, 13, 16, 18},
         At(u, Stages[i]), Commit(u, content), UNCHANGED given
  PROVE  MigrationInv' /\ MigrationSafe
<1>1. i \in Places /\ i \notin 2..5 /\ content \in Content /\ given' \subseteq OldRoutes
  BY ContentTypes DEF Places
<1>2. /\ ControlHolds' /\ content' = content /\ built' = built \cup {Stages[i]}
  BY <1>1, CommitFacts
<1>3. OriginHolds' /\ SettingsKept
  BY <1>1, SettingsStay
<1>4. Stages[i] \notin {"preferences", "initialise", "agents", "usage", "adopt", "quota"}
  BY StageNames
<1>5. FilledHolds'
  BY <1>2, <1>4 DEF MigrationInv, FilledHolds, Clean
<1>6. PlatesWritten
  BY <1>1, NewMarkers DEF PlatesWritten
<1>7. PlatesApart /\ NothingAgain
  BY <1>2 DEF PlatesApart, NothingAgain, MigrationInv, FilledHolds, Clean
<1>8. QED BY <1>2, <1>3, <1>5, <1>6, <1>7 DEF MigrationInv, MigrationSafe

(* The preferences: their column, then those that nobody has chosen. *)
LEMMA PreferencesSafe ==
  ASSUME MigrationInv, NEW u \in Upgraders, AddPreferences(u) \/ InitialisePreferences(u)
  PROVE  MigrationInv' /\ MigrationSafe
<1>1. PICK i \in {2, 3} :
        /\ At(u, Stages[i])
        /\ Commit(u, [content EXCEPT !.preferences =
             IF i = 2 THEN IF @ = "absent" THEN "pending" ELSE @
                      ELSE IF @ = "pending" THEN "default" ELSE @])
        /\ UNCHANGED given
  BY StageNames DEF AddPreferences, InitialisePreferences
<1> DEFINE new == [content EXCEPT !.preferences =
             IF i = 2 THEN IF @ = "absent" THEN "pending" ELSE @
                      ELSE IF @ = "pending" THEN "default" ELSE @]
<1>2. new \in Content
  BY ContentTypes DEF Content
<1>3. /\ new.preferences = IF i = 2 THEN IF content.preferences = "absent" THEN "pending"
                                         ELSE content.preferences
                           ELSE IF content.preferences = "pending" THEN "default"
                                ELSE content.preferences
      /\ new.agents = content.agents /\ new.owned = content.owned /\ new.counted = content.counted
      /\ new.usage = content.usage /\ new.plate = content.plate /\ new.indexed = content.indexed
      /\ new.monthly = content.monthly /\ new.tutor = content.tutor
  BY ContentTypes DEF Content
<1>4. Commit(u, new)
  BY <1>1
<1> HIDE DEF new
<1>5. i \in Places /\ given' \subseteq OldRoutes /\ i <= 9 /\ i # 9 /\ i # 14
  BY <1>1, ContentTypes DEF Places
<1>6. /\ ControlHolds' /\ content' = new /\ built' = built \cup {Stages[i]}
      /\ UNCHANGED <<origin, cut>> /\ markers' \subseteq markers \cup {Stages[i]}
      /\ markers \subseteq markers'
      /\ \A j \in Places : j < i => Stages[j] \in built
      /\ \A w \in Upgraders : Upgrading(w) => upgrader[w].at = i
      /\ \A w \in Upgraders : Upgrading(w)' => upgrader'[w].at = i + 1
  BY <1>1, <1>2, <1>4, <1>5, CommitFacts
<1>7. /\ SettingsKept /\ PlatesWritten /\ "legacy" \notin markers
  BY <1>1, <1>2, <1>4, <1>5, NewMarkers DEF SettingsKept, PlatesWritten
<1>9. PlatesApart /\ NothingAgain
  BY <1>3, <1>6, <1>7 DEF PlatesApart, NothingAgain, MigrationInv, FilledHolds, Clean
<1>10. OriginHolds'
  BY <1>1, <1>3, <1>6 DEF MigrationInv, OriginHolds
<1>11. i = 3 => "preferences" \in built
  <2>1. 2 \in Places
    BY DEF Places
  <2>2. QED BY <1>6, <2>1, StageNames
<1>12. built' = built \cup {IF i = 2 THEN "preferences" ELSE "initialise"}
  BY <1>6, StageNames
<1>13. FilledHolds'
  BY <1>1, <1>3, <1>5, <1>6, <1>11, <1>12, UNCHANGED given DEF MigrationInv, FilledHolds, Clean
<1>14. QED BY <1>6, <1>7, <1>9, <1>10, <1>13 DEF MigrationInv, MigrationSafe

(* The agents' column is filled by the process that has added it. *)
LEMMA AgentsAdded ==
  ASSUME MigrationInv, NEW u \in Upgraders, AddAgents(u), content.agents = "absent"
  PROVE  MigrationInv' /\ MigrationSafe
<1> DEFINE new == [content EXCEPT !.agents = "off"]
<1>1. At(u, Stages[4]) /\ 4 \in Places /\ given' = given /\ given' \subseteq OldRoutes
  BY StageNames, ContentTypes DEF AddAgents, Places
<1>2. Commit(u, new)
  BY DEF AddAgents
<1>3. new \in Content
  BY ContentTypes DEF Content
<1>4. /\ new.agents = "off" /\ new.preferences = content.preferences /\ new.owned = content.owned
      /\ new.counted = content.counted /\ new.usage = content.usage /\ new.plate = content.plate
      /\ new.indexed = content.indexed /\ new.monthly = content.monthly /\ new.tutor = content.tutor
  BY ContentTypes DEF Content
<1> HIDE DEF new
<1>5. /\ ControlHolds' /\ content' = new /\ built' = built \cup {"agents"}
      /\ UNCHANGED <<origin, cut>> /\ Upgrading(u)' /\ upgrader'[u].at = 4 + 1
  BY <1>1, <1>2, <1>3, CommitFacts, StageNames
<1>6. SettingsKept /\ PlatesWritten /\ "legacy" \notin markers
  BY <1>1, <1>2, <1>3, NewMarkers DEF SettingsKept, PlatesWritten
<1>7. PlatesApart /\ NothingAgain
  BY <1>4, <1>5, <1>6 DEF PlatesApart, NothingAgain, MigrationInv, FilledHolds, Clean
<1>8. origin.agents = "absent"
  BY DEF MigrationInv, OriginHolds
<1>9. OriginHolds'
  BY <1>4, <1>5, <1>8 DEF MigrationInv, OriginHolds
<1>10. FilledHolds'
  BY <1>1, <1>4, <1>5 DEF MigrationInv, FilledHolds, Clean
<1>11. QED BY <1>5, <1>6, <1>7, <1>9, <1>10 DEF MigrationInv, MigrationSafe

(* A column that is there is not filled again. *)
LEMMA AgentsThere ==
  ASSUME MigrationInv, NEW u \in Upgraders, AddAgents(u), content.agents # "absent"
  PROVE  MigrationInv' /\ MigrationSafe
<1> DEFINE new == [upgrader[u] EXCEPT !.at = @ + 2]
<1>1. At(u, Stages[4]) /\ 4 \in Places
  BY StageNames DEF AddAgents, Places
<1>2. /\ Upgrading(u) /\ upgrader[u].at = 4 /\ upgrader[u] \in Upgrader
      /\ LastStage(upgrader[u].release) \in {16, 18}
  BY <1>1, AtPlace, UpgraderTypes, LastStages DEF MigrationInv, Upgrader
<1>3. /\ upgrader' = [upgrader EXCEPT ![u] = new] /\ built' = built \cup {"agents", "fill"}
      /\ UNCHANGED <<markers, content, repeated, servers, origin, cut, given>>
  <2>1. upgrader' = [upgrader EXCEPT ![u].at = @ + 2]
    BY DEF AddAgents
  <2>2. QED BY <2>1 DEF AddAgents, MigrationInv, ControlHolds, MigrationsTypeOK
<1>4. /\ new \in Upgrader /\ new.at = 6 /\ new.phase = "upgrading"
      /\ new.release = upgrader[u].release /\ new.applied = upgrader[u].applied
  BY <1>2, StageNames DEF Upgrading, Upgrader
<1> HIDE DEF new
<1>5. /\ upgrader'[u] = new /\ \A w \in Upgraders \ {u} : upgrader'[w] = upgrader[w]
  BY <1>3, <1>4 DEF MigrationInv, ControlHolds, MigrationsTypeOK
<1>6. \A w \in Upgraders \ {u} : upgrader[w].phase \notin {"locked", "upgrading"}
  BY <1>2 DEF MigrationInv, ControlHolds, OneUpgrades, Upgrading
<1>7. /\ new.at \in 1..LastStage(new.release) /\ new.applied \subseteq markers
      /\ ~Marked(new.at)
      /\ \A j \in Places : j < new.at =>
           Stages[j] \in built' /\ (Group(j) < new.at => Marked(j))
  <2>1. /\ upgrader[u].applied \subseteq markers /\ ~Marked(4)
        /\ \A j \in Places : j < 4 => Stages[j] \in built
    BY <1>2 DEF MigrationInv, ControlHolds, UpgraderHolds
  <2>2. ~Marked(6)
    BY <2>1 DEF Marked, Group
  <2>3. Stages[4] \in built' /\ Stages[5] \in built'
    BY <1>3, StageNames
  <2>4. ASSUME NEW j \in Places, j < 6 PROVE Stages[j] \in built' /\ ~(Group(j) < 6)
    <3>1. j < 4 \/ j = 4 \/ j = 5
      BY <2>4 DEF Places
    <3>2. Stages[j] \in built'
      BY <1>3, <2>1, <2>3, <3>1
    <3>3. QED BY <2>4, <3>2 DEF Group, Places
  <2>5. QED BY <1>2, <1>4, <2>1, <2>2, <2>4
<1>8. /\ built' \subseteq {Stages[i] : i \in DOMAIN Stages}
      /\ content' \in Content /\ repeated' \in BOOLEAN /\ cut' \in BOOLEAN
  <2>1. {"agents", "fill"} \subseteq {Stages[i] : i \in DOMAIN Stages}
    <3>1. 4 \in DOMAIN Stages /\ 5 \in DOMAIN Stages
      BY StageNames DEF Places
    <3>2. QED BY <3>1, StageNames
  <2>2. QED BY <1>3, <2>1 DEF MigrationInv, ControlHolds, MigrationsTypeOK
<1>9. ControlHolds'
  BY <1>3, <1>4, <1>6, <1>7, <1>8, UpgraderChanges DEF MigrationInv
<1>10. OriginHolds'
  BY <1>2, <1>3, <1>4, <1>5, <1>6 DEF MigrationInv, OriginHolds, Upgrading
<1>11. FilledHolds'
  BY <1>3, <1>1 DEF MigrationInv, FilledHolds, Clean
<1>12. MigrationSafe
  BY <1>3 DEF MigrationSafe, SettingsKept, PlatesWritten, PlatesApart, NothingAgain, MigrationInv,
              FilledHolds, Clean
<1>13. QED BY <1>9, <1>10, <1>11, <1>12 DEF MigrationInv

(* Companies that have agents keep them: only a process that added the     *)
(* column comes here.                                                      *)
LEMMA AgentsFilled ==
  ASSUME MigrationInv, NEW u \in Upgraders, FillAgents(u)
  PROVE  MigrationInv' /\ MigrationSafe
<1> DEFINE new == [content EXCEPT !.agents = "on"]
<1>1. At(u, Stages[5]) /\ 5 \in Places /\ given' = given /\ given' \subseteq OldRoutes
  BY StageNames, ContentTypes DEF FillAgents, Places
<1>2. Commit(u, new)
  BY DEF FillAgents
<1>3. new \in Content
  BY ContentTypes DEF Content
<1>4. /\ new.agents = "on" /\ new.preferences = content.preferences /\ new.owned = content.owned
      /\ new.counted = content.counted /\ new.usage = content.usage /\ new.plate = content.plate
      /\ new.indexed = content.indexed /\ new.monthly = content.monthly /\ new.tutor = content.tutor
  BY ContentTypes DEF Content
<1> HIDE DEF new
<1>5. /\ ControlHolds' /\ content' = new /\ built' = built \cup {"fill"}
      /\ UNCHANGED <<origin, cut>>
      /\ \A w \in Upgraders : Upgrading(w)' => upgrader'[w].at = 5 + 1
  BY <1>1, <1>2, <1>3, CommitFacts, StageNames
<1>6. SettingsKept /\ PlatesWritten /\ "legacy" \notin markers
  BY <1>1, <1>2, <1>3, NewMarkers DEF SettingsKept, PlatesWritten
<1>7. PlatesApart /\ NothingAgain
  BY <1>4, <1>5, <1>6 DEF PlatesApart, NothingAgain, MigrationInv, FilledHolds, Clean
<1>8. origin.agents = "absent"
  BY <1>1, AtPlace DEF MigrationInv, OriginHolds
<1>9. OriginHolds'
  BY <1>4, <1>5, <1>8 DEF MigrationInv, OriginHolds
<1>10. FilledHolds'
  BY <1>1, <1>4, <1>5 DEF MigrationInv, FilledHolds, Clean
<1>11. QED BY <1>5, <1>6, <1>7, <1>9, <1>10 DEF MigrationInv, MigrationSafe

(* Stages that write other data than the settings.                         *)
LEMMA DataSafe ==
  ASSUME MigrationInv, NEW u \in Upgraders, NEW i \in {6, 7, 8, 14, 15, 17}, At(u, Stages[i]),
         NEW new \in Content, Commit(u, new), given' \subseteq OldRoutes,
         new.agents = content.agents, new.preferences = content.preferences,
         i # 6 => new.usage = content.usage,
         i # 14 => new.plate = content.plate,
         i # 17 => new.tutor = content.tutor,
         i = 14 => \A t \in Trucks : new.plate[t] \in {"spaced", "lower"} =>
                     \E s \in Trucks \ {t} : new.plate[s] = "clean",
         content.indexed => new.indexed,
         FilledHolds'
  PROVE  MigrationInv' /\ MigrationSafe
<1>1. i \in Places /\ i \notin 2..5
  BY DEF Places
<1>2. ControlHolds' /\ content' = new
  BY <1>1, CommitFacts
<1>3. OriginHolds' /\ SettingsKept
  BY <1>1, SettingsStay
<1>4. /\ "plates" \in markers' \ markers => i = 14
      /\ i <= 9 => "legacy" \notin markers
      /\ i = 14 => "plates" \notin markers
      /\ i = 17 => "tutor" \notin markers
  BY <1>1, NewMarkers
<1>5. PlatesWritten
  BY <1>2, <1>4 DEF PlatesWritten
<1>6. NothingAgain
  BY <1>2, <1>4 DEF NothingAgain
<1>7. PlatesApart
  BY <1>2 DEF PlatesApart, FilledHolds, Clean
<1>8. QED BY <1>2, <1>3, <1>5, <1>6, <1>7 DEF MigrationInv, MigrationSafe

(* The routes that were driven are counted once. *)
LEMMA UsageSafe ==
  ASSUME MigrationInv, NEW u \in Upgraders, BackfillUsage(u)
  PROVE  MigrationInv' /\ MigrationSafe
<1> DEFINE usage == IF content.counted THEN content.usage ELSE content.usage \cup content.owned
           new == [content EXCEPT !.usage = usage, !.counted = TRUE]
<1>1. At(u, Stages[6]) /\ 6 \in Places /\ given' = given /\ given' \subseteq OldRoutes
  BY StageNames, ContentTypes DEF BackfillUsage, Places
<1>2. Commit(u, new)
  BY DEF BackfillUsage
<1>3. new \in Content
  BY ContentTypes DEF Content
<1>4. /\ new.usage = usage /\ new.counted = TRUE
      /\ new.agents = content.agents /\ new.preferences = content.preferences
      /\ new.owned = content.owned /\ new.plate = content.plate
      /\ new.indexed = content.indexed /\ new.monthly = content.monthly /\ new.tutor = content.tutor
  BY ContentTypes DEF Content
<1> HIDE DEF new
<1>5. content' = new /\ built' = built \cup {"usage"}
  BY <1>1, <1>2, <1>3, CommitFacts, StageNames
<1>6. FilledHolds'
  BY <1>1, <1>4, <1>5, ContentTypes DEF MigrationInv, FilledHolds, Clean
<1>7. QED BY <1>1, <1>2, <1>3, <1>4, <1>6, DataSafe

(* Rows without an owner get one, after those with one were counted. *)
LEMMA AdoptSafe ==
  ASSUME MigrationInv, NEW u \in Upgraders, AdoptRows(u)
  PROVE  MigrationInv' /\ MigrationSafe
<1> DEFINE new == [content EXCEPT !.owned = OldRoutes]
<1>1. /\ At(u, Stages[7]) /\ 7 \in Places /\ 6 \in Places
      /\ given' = given \cup (OldRoutes \ content.owned) /\ given' \subseteq OldRoutes
  BY StageNames, ContentTypes DEF AdoptRows, Places
<1>2. Commit(u, new)
  BY DEF AdoptRows
<1>3. new \in Content
  BY ContentTypes DEF Content
<1>4. /\ new.owned = OldRoutes /\ new.usage = content.usage /\ new.counted = content.counted
      /\ new.agents = content.agents /\ new.preferences = content.preferences
      /\ new.plate = content.plate
      /\ new.indexed = content.indexed /\ new.monthly = content.monthly /\ new.tutor = content.tutor
  BY ContentTypes DEF Content
<1> HIDE DEF new
<1>5. content' = new /\ built' = built \cup {"adopt"} /\ "usage" \in built
  BY <1>1, <1>2, <1>3, CommitFacts, StageNames
<1>6. content.owned \subseteq content.usage \cup given
  BY <1>5 DEF MigrationInv, FilledHolds
<1>7. FilledHolds'
  BY <1>1, <1>4, <1>5, <1>6, ContentTypes DEF MigrationInv, FilledHolds, Clean
<1>8. QED BY <1>1, <1>2, <1>3, <1>4, <1>7, DataSafe

(* Plates are indexed if they are distinct. *)
LEMMA HardenSafe ==
  ASSUME MigrationInv, NEW u \in Upgraders, HardenSchema(u)
  PROVE  MigrationInv' /\ MigrationSafe
<1> DEFINE new == [content EXCEPT !.indexed = content.indexed \/ Clean]
<1>1. At(u, Stages[8]) /\ 8 \in Places /\ given' = given /\ given' \subseteq OldRoutes
  BY StageNames, ContentTypes DEF HardenSchema, Places
<1>2. Commit(u, new)
  BY DEF HardenSchema
<1>3. Clean \in BOOLEAN
  BY DEF Clean
<1>4. new \in Content
  BY <1>3, ContentTypes DEF Content
<1>5. /\ new.indexed = (content.indexed \/ Clean)
      /\ new.owned = content.owned /\ new.usage = content.usage /\ new.counted = content.counted
      /\ new.agents = content.agents /\ new.preferences = content.preferences
      /\ new.plate = content.plate /\ new.monthly = content.monthly /\ new.tutor = content.tutor
  BY ContentTypes DEF Content
<1> HIDE DEF new
<1>6. content' = new /\ built' = built \cup {"harden"}
  BY <1>1, <1>2, <1>4, CommitFacts, StageNames
<1>7. content.indexed => Clean
  BY DEF MigrationInv, FilledHolds
<1>8. FilledHolds'
  BY <1>1, <1>5, <1>6, <1>7 DEF MigrationInv, FilledHolds, Clean
<1>9. content.indexed => new.indexed
  BY <1>5
<1>10. QED BY <1>1, <1>2, <1>4, <1>5, <1>8, <1>9, DataSafe

(* One of the plates that would be the same is written as it is saved now. *)
LEMMA PlatesSafe ==
  ASSUME MigrationInv, NEW u \in Upgraders, NormalisePlates(u)
  PROVE  MigrationInv' /\ MigrationSafe
<1>1. At(u, Stages[14]) /\ 14 \in Places /\ given' = given /\ given' \subseteq OldRoutes
  BY StageNames, ContentTypes DEF NormalisePlates, Places
<1>2. CASE /\ ((\E t \in Trucks : content.plate[t] = "clean") \/ (\A t \in Trucks : ~Raw(t)))
           /\ Commit(u, content)
  <2>1. content' = content /\ built' = built \cup {"plates"} /\ content \in Content
    BY <1>1, <1>2, ContentTypes, CommitFacts, StageNames
  <2>2. FilledHolds'
    BY <1>1, <2>1 DEF MigrationInv, FilledHolds, Clean
  <2>3. \A t \in Trucks : content.plate[t] \in {"spaced", "lower"} =>
          \E s \in Trucks \ {t} : content.plate[s] = "clean"
    BY <1>2 DEF Raw
  <2>4. QED BY <1>1, <1>2, <2>1, <2>2, <2>3, DataSafe
<1>3. ASSUME \A t \in Trucks : content.plate[t] # "clean", NEW t \in Trucks,
             Commit(u, [content EXCEPT !.plate[t] = "clean"])
      PROVE  MigrationInv' /\ MigrationSafe
  <2> DEFINE new == [content EXCEPT !.plate[t] = "clean"]
  <2>1. Commit(u, new)
    BY <1>3
  <2>2. new \in Content
    BY ContentTypes DEF Content, Spellings
  <2>3. /\ new.plate[t] = "clean" /\ \A s \in Trucks \ {t} : new.plate[s] = content.plate[s]
        /\ new.owned = content.owned /\ new.usage = content.usage /\ new.counted = content.counted
        /\ new.agents = content.agents /\ new.preferences = content.preferences
        /\ new.indexed = content.indexed /\ new.monthly = content.monthly
        /\ new.tutor = content.tutor
    BY ContentTypes DEF Content
  <2> HIDE DEF new
  <2>4. content' = new /\ built' = built \cup {"plates"}
    BY <1>1, <2>1, <2>2, CommitFacts, StageNames
  <2>5. content.indexed => Clean'
    BY <1>3, <2>3, <2>4 DEF MigrationInv, FilledHolds, Clean
  <2>6. FilledHolds'
    BY <1>1, <2>3, <2>4, <2>5 DEF MigrationInv, FilledHolds
  <2>7. \A q \in Trucks : new.plate[q] \in {"spaced", "lower"} =>
          \E s \in Trucks \ {q} : new.plate[s] = "clean"
    BY <2>3
  <2>8. QED BY <1>1, <2>1, <2>2, <2>3, <2>6, <2>7, DataSafe
<1>4. QED BY <1>2, <1>3 DEF NormalisePlates

(* The orders of the months are counted. *)
LEMMA QuotaSafe ==
  ASSUME MigrationInv, NEW u \in Upgraders, CountOrders(u)
  PROVE  MigrationInv' /\ MigrationSafe
<1> DEFINE new == [content EXCEPT !.monthly = TRUE]
<1>1. At(u, Stages[15]) /\ 15 \in Places /\ given' = given /\ given' \subseteq OldRoutes
  BY StageNames, ContentTypes DEF CountOrders, Places
<1>2. Commit(u, new)
  BY DEF CountOrders
<1>3. new \in Content
  BY ContentTypes DEF Content
<1>4. /\ new.monthly = TRUE
      /\ new.owned = content.owned /\ new.usage = content.usage /\ new.counted = content.counted
      /\ new.agents = content.agents /\ new.preferences = content.preferences
      /\ new.plate = content.plate /\ new.indexed = content.indexed /\ new.tutor = content.tutor
  BY ContentTypes DEF Content
<1> HIDE DEF new
<1>5. content' = new /\ built' = built \cup {"quota"}
  BY <1>1, <1>2, <1>3, CommitFacts, StageNames
<1>6. FilledHolds'
  BY <1>1, <1>4, <1>5 DEF MigrationInv, FilledHolds, Clean
<1>7. QED BY <1>1, <1>2, <1>3, <1>4, <1>6, DataSafe

(* A tutor that was not begun is closed. *)
LEMMA TutorSafe ==
  ASSUME MigrationInv, NEW u \in Upgraders, CloseTutor(u)
  PROVE  MigrationInv' /\ MigrationSafe
<1> DEFINE new == [content EXCEPT !.tutor =
                     IF content.tutor = "active" THEN "completed" ELSE content.tutor]
<1>1. At(u, Stages[17]) /\ 17 \in Places /\ given' = given /\ given' \subseteq OldRoutes
  BY StageNames, ContentTypes DEF CloseTutor, Places
<1>2. Commit(u, new)
  BY DEF CloseTutor
<1>3. new \in Content
  BY ContentTypes DEF Content
<1>4. /\ new.owned = content.owned /\ new.usage = content.usage /\ new.counted = content.counted
      /\ new.agents = content.agents /\ new.preferences = content.preferences
      /\ new.plate = content.plate /\ new.indexed = content.indexed
      /\ new.monthly = content.monthly
  BY ContentTypes DEF Content
<1> HIDE DEF new
<1>5. content' = new /\ built' = built \cup {"tutor"}
  BY <1>1, <1>2, <1>3, CommitFacts, StageNames
<1>6. FilledHolds'
  BY <1>1, <1>4, <1>5 DEF MigrationInv, FilledHolds, Clean
<1>7. QED BY <1>1, <1>2, <1>3, <1>4, <1>6, DataSafe

(* A process that begins, waits, reads or ends disturbs nothing: one that  *)
(* dies while the agents' column is empty leaves its trace in cut.         *)
LEMMA ProcessSafe ==
  ASSUME MigrationInv, NEW u \in Upgraders,
         \/ \E release \in Releases : BeginUpgrade(u, release)
         \/ LockUpgrades(u) \/ ReadMarkers(u) \/ DieUpgrading(u)
  PROVE  MigrationInv' /\ MigrationSafe
<1>1. ControlHolds' /\ NobodyFills
  BY BeginControl, LockControl, ReadControl, DieControl DEF MigrationInv
<1>2. UNCHANGED <<markers, built, content, repeated, servers, origin, given>>
  BY DEF BeginUpgrade, LockUpgrades, ReadMarkers, DieUpgrading
<1>3. ~cut' => ~cut /\ \A w \in Upgraders :
                  Upgrading(w) /\ upgrader[w].at = 5 => Upgrading(w)' /\ upgrader'[w].at = 5
  <2>1. SUFFICES ASSUME ~cut', NEW w \in Upgraders, Upgrading(w), upgrader[w].at = 5
                 PROVE  Upgrading(w)' /\ upgrader'[w].at = 5
    BY DEF BeginUpgrade, LockUpgrades, ReadMarkers, DieUpgrading
  <2>2. w # u
    <3>1. SUFFICES ASSUME w = u PROVE FALSE
      OBVIOUS
    <3>2. upgrader[u].phase = "upgrading"
      BY <2>1, <3>1 DEF Upgrading
    <3>3. ~LockUpgrades(u) /\ ~ReadMarkers(u)
      BY <3>2 DEF LockUpgrades, ReadMarkers
    <3>4. ~(\E release \in Releases : BeginUpgrade(u, release))
      BY <3>2, AsleepFields DEF BeginUpgrade
    <3>5. At(u, "fill")
      BY <2>1, <3>1, <3>2, StageNames DEF At
    <3>6. QED BY <2>1, <3>3, <3>4, <3>5 DEF DieUpgrading
  <2>3. upgrader'[w] = upgrader[w]
    BY <2>2 DEF BeginUpgrade, LockUpgrades, ReadMarkers, DieUpgrading, MigrationInv, ControlHolds,
                MigrationsTypeOK
  <2>4. QED BY <2>1, <2>3 DEF Upgrading
<1>4. OriginHolds'
  BY <1>1, <1>2, <1>3 DEF MigrationInv, OriginHolds, NobodyFills
<1>5. FilledHolds'
  BY <1>2 DEF MigrationInv, FilledHolds, Clean
<1>6. MigrationSafe
  BY <1>2 DEF MigrationSafe, SettingsKept, PlatesWritten, PlatesApart, NothingAgain, MigrationInv,
              FilledHolds, Clean
<1>7. QED BY <1>1, <1>4, <1>5, <1>6 DEF MigrationInv

(* A server that runs finds everything its release knows.                  *)
LEMMA ServersFind ==
  ASSUME MigrationInv, NEW release \in servers
  PROVE  /\ KnownStages(release) \subseteq built
         /\ \A i \in 1..16 : Stages[i] \in built
         /\ "legacy" \in markers
<1> DEFINE last == LastStage(release)
<1>1. last \in {16, 18} /\ Group(last) = last /\ Stages[last] \in markers
  BY LastStages DEF MigrationInv, ControlHolds, MigrationsTypeOK, ServersHold
<1> HIDE DEF last
<1>2. last \in Places /\ Marked(last)
  BY <1>1 DEF Places, Marked
<1>3. ASSUME NEW i \in 1..last PROVE Marked(i) /\ Stages[i] \in built
  <2>1. i \in Places /\ i <= last
    BY <1>1 DEF Places
  <2>2. QED BY <1>2, <2>1 DEF MigrationInv, ControlHolds, MarkersHold
<1>4. \A i \in 1..16 : i \in 1..last
  BY <1>1
<1>5. KnownStages(release) \subseteq built
  BY <1>3 DEF KnownStages, last
<1>6. Stages[Group(9)] = "legacy" /\ 9 \in 1..16
  BY StageNames DEF Group
<1>7. QED BY <1>3, <1>4, <1>5, <1>6 DEF Marked

(* Servers start and stop, and evidence is reconciled before an upgrade. *)
LEMMA ServersSafe ==
  ASSUME MigrationInv, ReconcileStatuses \/ \E release \in Releases : StartServer(release) \/ StopServer(release)
  PROVE  MigrationInv' /\ MigrationSafe
<1>1. /\ UNCHANGED <<markers, built, content, upgrader, origin, given, cut>>
      /\ repeated' \in BOOLEAN /\ servers' \subseteq Releases
      /\ \A release \in servers' : release \in servers \/ RequireCurrentSchema(release)
  BY DEF ReconcileStatuses, StartServer, StopServer, MigrationInv, ControlHolds, MigrationsTypeOK
<1>2. MigrationsTypeOK'
  BY <1>1 DEF MigrationInv, ControlHolds, MigrationsTypeOK
<1>3. OneUpgrades' /\ MarkersHold'
  BY <1>1 DEF MigrationInv, ControlHolds, OneUpgrades, MarkersHold, Marked
<1>4. ServersHold'
  BY <1>1 DEF MigrationInv, ControlHolds, ServersHold, RequireCurrentSchema
<1>5. \A u \in Upgraders : UpgraderHolds(u)'
  BY <1>1 DEF MigrationInv, ControlHolds, UpgraderHolds, Upgrading, Marked
<1>6. OriginHolds'
  BY <1>1 DEF MigrationInv, OriginHolds, Upgrading
<1>7. FilledHolds'
  BY <1>1 DEF MigrationInv, FilledHolds, Clean
<1>8. MigrationSafe
  BY <1>1 DEF MigrationSafe, SettingsKept, PlatesWritten, PlatesApart, NothingAgain, MigrationInv,
              FilledHolds, Clean
<1>9. QED BY <1>2, <1>3, <1>4, <1>5, <1>6, <1>7, <1>8 DEF MigrationInv, ControlHolds

(* What a server writes. *)
LEMMA WritesSafe ==
  ASSUME MigrationInv, NEW new \in Content, ServerWrites(new),
         new.preferences = content.preferences, new.agents \in {"off", "on"} \cup {content.agents},
         new.owned = content.owned, new.usage = content.usage, new.counted = content.counted,
         new.indexed = content.indexed, new.monthly = content.monthly,
         content.indexed => \A t, s \in Trucks : t # s => new.plate[t] # new.plate[s]
  PROVE  MigrationInv' /\ MigrationSafe
<1>1. content' = new /\ UNCHANGED <<markers, built, repeated, upgrader, servers, origin, given, cut>>
  BY DEF ServerWrites
<1>2. "legacy" \in markers
  BY ServersFind DEF ServerWrites
<1>3. MigrationsTypeOK'
  BY <1>1 DEF MigrationInv, ControlHolds, MigrationsTypeOK
<1>4. OneUpgrades' /\ MarkersHold' /\ ServersHold'
  BY <1>1 DEF MigrationInv, ControlHolds, OneUpgrades, MarkersHold, ServersHold, Marked
<1>5. \A u \in Upgraders : UpgraderHolds(u)'
  BY <1>1 DEF MigrationInv, ControlHolds, UpgraderHolds, Upgrading, Marked
<1>6. OriginHolds'
  BY <1>1, <1>2 DEF MigrationInv, OriginHolds, Upgrading
<1>7. FilledHolds'
  BY <1>1 DEF MigrationInv, FilledHolds, Clean
<1>8. MigrationSafe
  BY <1>1 DEF MigrationSafe, SettingsKept, PlatesWritten, PlatesApart, NothingAgain
<1>9. QED BY <1>3, <1>4, <1>5, <1>6, <1>7, <1>8 DEF MigrationInv, ControlHolds

(* Settings, the tutor and plates that no other vehicle has. *)
LEMMA CompaniesSafe ==
  ASSUME MigrationInv, UpdateSettings \/ UpdateTutor \/ \E t \in Trucks : SavePlate(t)
  PROVE  MigrationInv' /\ MigrationSafe
<1> USE ContentTypes
<1>1. ASSUME NEW agents \in {"off", "on"}, ServerWrites([content EXCEPT !.agents = agents])
      PROVE  MigrationInv' /\ MigrationSafe
  <2> DEFINE new == [content EXCEPT !.agents = agents]
  <2>1. new \in Content /\ new.agents = agents
    BY DEF Content
  <2>2. /\ new.owned = content.owned /\ new.usage = content.usage /\ new.counted = content.counted
        /\ new.preferences = content.preferences /\ new.plate = content.plate
        /\ new.indexed = content.indexed /\ new.monthly = content.monthly
    BY DEF Content
  <2>3. ServerWrites(new)
    BY <1>1
  <2> HIDE DEF new
  <2>4. content.indexed => \A t, s \in Trucks : t # s => new.plate[t] # new.plate[s]
    BY <2>2 DEF MigrationInv, FilledHolds, Clean
  <2>5. QED BY <2>1, <2>2, <2>3, <2>4, WritesSafe
<1>2. ASSUME NEW state \in {"active", "closed", "completed"},
             ServerWrites([content EXCEPT !.tutor = state])
      PROVE  MigrationInv' /\ MigrationSafe
  <2> DEFINE new == [content EXCEPT !.tutor = state]
  <2>1. new \in Content
    BY DEF Content
  <2>2. /\ new.owned = content.owned /\ new.usage = content.usage /\ new.counted = content.counted
        /\ new.preferences = content.preferences /\ new.plate = content.plate
        /\ new.indexed = content.indexed /\ new.monthly = content.monthly
        /\ new.agents = content.agents
    BY DEF Content
  <2>3. ServerWrites(new)
    BY <1>2
  <2> HIDE DEF new
  <2>4. content.indexed => \A t, s \in Trucks : t # s => new.plate[t] # new.plate[s]
    BY <2>2 DEF MigrationInv, FilledHolds, Clean
  <2>5. QED BY <2>1, <2>2, <2>3, <2>4, WritesSafe
<1>3. ASSUME NEW t \in Trucks, NEW plate \in {"clean", "other"},
             \A s \in Trucks \ {t} : content.plate[s] # plate,
             ServerWrites([content EXCEPT !.plate[t] = plate])
      PROVE  MigrationInv' /\ MigrationSafe
  <2> DEFINE new == [content EXCEPT !.plate[t] = plate]
  <2>1. new \in Content
    BY DEF Content, Spellings
  <2>2. /\ new.owned = content.owned /\ new.usage = content.usage /\ new.counted = content.counted
        /\ new.preferences = content.preferences
        /\ new.indexed = content.indexed /\ new.monthly = content.monthly
        /\ new.agents = content.agents
        /\ new.plate[t] = plate /\ \A s \in Trucks \ {t} : new.plate[s] = content.plate[s]
    BY DEF Content
  <2>3. ServerWrites(new)
    BY <1>3
  <2> HIDE DEF new
  <2>4. content.indexed => \A q, s \in Trucks : q # s => new.plate[q] # new.plate[s]
    BY <1>3, <2>2 DEF MigrationInv, FilledHolds, Clean
  <2>5. QED BY <2>1, <2>2, <2>3, <2>4, WritesSafe
<1>4. QED BY <1>1, <1>2, <1>3 DEF UpdateSettings, UpdateTutor, SavePlate

-----------------------------------------------------------------------------
(* Every step of a process, of a server or of a company keeps it all.      *)
LEMMA MigrationStep ==
  MigrationInv /\ [MigrationsNext]_migrationVars => MigrationInv' /\ [MigrationSafe]_migrationVars
<1>1. SUFFICES ASSUME MigrationInv, MigrationsNext PROVE MigrationInv' /\ MigrationSafe
  <2>1. ASSUME MigrationInv, UNCHANGED migrationVars PROVE MigrationInv'
    <3>1. UNCHANGED <<markers, built, content, repeated, upgrader, servers, origin, given, cut>>
      BY <2>1 DEF migrationVars
    <3>2. ControlHolds'
      BY <2>1, <3>1 DEF MigrationInv, ControlHolds, MigrationsTypeOK, OneUpgrades, MarkersHold,
                        ServersHold, UpgraderHolds, Upgrading, Marked
    <3>3. OriginHolds' /\ FilledHolds'
      BY <2>1, <3>1 DEF MigrationInv, OriginHolds, FilledHolds, Upgrading, Clean
    <3>4. QED BY <3>2, <3>3 DEF MigrationInv
  <2>2. QED BY <2>1
<1>2. ASSUME NEW u \in Upgraders, UpgraderNext(u) PROVE MigrationInv' /\ MigrationSafe
  <2>1. CASE BuildTables(u)
    <3>1. At(u, Stages[1]) /\ Commit(u, content) /\ UNCHANGED given
      BY <2>1, StageNames DEF BuildTables
    <3>2. QED BY <1>1, <3>1, BuildSafe
  <2>2. CASE BuildVersion(u)
    <3>1. \E i \in {9, 10, 11, 12, 13} : At(u, Stages[i])
      BY <2>2, StageNames DEF BuildVersion
    <3>2. Commit(u, content) /\ UNCHANGED given
      BY <2>2 DEF BuildVersion
    <3>3. QED BY <1>1, <3>1, <3>2, BuildSafe
  <2>3. CASE BuildColumns(u)
    <3>1. \E i \in {16, 18} : At(u, Stages[i])
      BY <2>3, StageNames DEF BuildColumns
    <3>2. Commit(u, content) /\ UNCHANGED given
      BY <2>3 DEF BuildColumns
    <3>3. QED BY <1>1, <3>1, <3>2, BuildSafe
  <2>4. CASE AddPreferences(u) \/ InitialisePreferences(u)
    BY <1>1, <2>4, PreferencesSafe
  <2>5. CASE AddAgents(u)
    BY <1>1, <2>5, AgentsAdded, AgentsThere
  <2>6. CASE FillAgents(u)
    BY <1>1, <2>6, AgentsFilled
  <2>7. CASE BackfillUsage(u)
    BY <1>1, <2>7, UsageSafe
  <2>8. CASE AdoptRows(u)
    BY <1>1, <2>8, AdoptSafe
  <2>9. CASE HardenSchema(u)
    BY <1>1, <2>9, HardenSafe
  <2>10. CASE NormalisePlates(u)
    BY <1>1, <2>10, PlatesSafe
  <2>11. CASE CountOrders(u)
    BY <1>1, <2>11, QuotaSafe
  <2>12. CASE CloseTutor(u)
    BY <1>1, <2>12, TutorSafe
  <2>13. CASE \/ \E release \in Releases : BeginUpgrade(u, release)
              \/ LockUpgrades(u) \/ ReadMarkers(u) \/ DieUpgrading(u)
    BY <1>1, <2>13, ProcessSafe
  <2>14. QED
    BY <1>2, <2>1, <2>2, <2>3, <2>4, <2>5, <2>6, <2>7, <2>8, <2>9, <2>10, <2>11, <2>12, <2>13
    DEF UpgraderNext
<1>3. QED BY <1>1, <1>2, ServersSafe, CompaniesSafe DEF MigrationsNext

(* An older database is one that nobody has upgraded. *)
LEMMA MigrationsBegin == MigrationsInit => MigrationInv
<1>1. SUFFICES ASSUME MigrationsInit PROVE MigrationInv
  OBVIOUS
<1>2. /\ markers = {} /\ built = {} /\ servers = {} /\ repeated \in BOOLEAN /\ given = {}
      /\ origin = content /\ cut = FALSE /\ upgrader = [u \in Upgraders |-> Asleep]
  BY <1>1 DEF MigrationsInit
<1>3. content \in Content /\ ~content.counted /\ ~content.indexed
  BY <1>1 DEF MigrationsInit, Content
<1>4. MigrationsTypeOK
  BY <1>2, <1>3, AsleepFields DEF MigrationsTypeOK
<1>5. ControlHolds
  BY <1>2, <1>4, AsleepFields
  DEF ControlHolds, OneUpgrades, MarkersHold, ServersHold, UpgraderHolds, Upgrading, Marked
<1>6. FilledHolds /\ OriginHolds
  BY <1>2, <1>3, AsleepFields DEF FilledHolds, OriginHolds, Upgrading
<1>7. QED BY <1>5, <1>6 DEF MigrationInv

(* However many processes of whichever release upgrade, wait for each      *)
(* other, die between two transactions and begin again while companies     *)
(* work: a server that runs has its whole schema, what companies had chosen*)
(* is kept, and a version that is recorded is not made again.              *)
THEOREM UpgradesKeep == MigrationsSpec => UpgradesAreSafe
<1>1. MigrationInv => SchemaIsWhole
  <2>1. SUFFICES ASSUME MigrationInv, NEW release \in servers
                 PROVE  /\ KnownStages(release) \subseteq built
                        /\ content.owned = OldRoutes /\ content.usage \cup given = OldRoutes
                        /\ content.monthly /\ content.preferences \notin {"absent", "pending"}
                        /\ content.agents # "absent"
    BY DEF SchemaIsWhole
  <2>2. {"initialise", "agents", "usage", "adopt", "quota"} \subseteq built
    <3>1. {3, 4, 6, 7, 15} \subseteq 1..16
      OBVIOUS
    <3>2. QED BY <2>1, <3>1, ServersFind, StageNames
  <2>3. QED BY <2>1, <2>2, ServersFind, ContentTypes DEF MigrationInv, FilledHolds
<1>2. MigrationsSpec => []MigrationInv /\ [][MigrationSafe]_migrationVars
  BY MigrationsBegin, MigrationStep, PTL DEF MigrationsSpec
<1>3. MigrationsSpec => []SchemaIsWhole
  BY <1>1, <1>2, PTL
<1>4. MigrationsSpec => UpgradeKeepsContent
  <2>1. [MigrationSafe]_migrationVars => [/\ SettingsKept
                                          /\ PlatesWritten
                                          /\ PlatesApart]_migrationVars
    BY DEF MigrationSafe
  <2>2. MigrationsSpec => [][/\ SettingsKept
                             /\ PlatesWritten
                             /\ PlatesApart]_migrationVars
    BY <1>2, <2>1, PTL
  <2>3. QED BY <2>2 DEF UpgradeKeepsContent, SettingsKept, PlatesWritten, PlatesApart
<1>5. MigrationsSpec => RepeatsChangeNothing
  <2>1. [MigrationSafe]_migrationVars => [NothingAgain]_migrationVars
    BY DEF MigrationSafe
  <2>2. MigrationsSpec => [][NothingAgain]_migrationVars
    BY <1>2, <2>1, PTL
  <2>3. QED BY <2>2 DEF RepeatsChangeNothing, NothingAgain
<1>6. QED BY <1>3, <1>4, <1>5, PTL DEF UpgradesAreSafe

-----------------------------------------------------------------------------
(* The composition that TLC runs.                                          *)

(* A company that bought its subscription is one that payments can lead to.*)
LEMMA SubscribedHolds == Subscribed => BillingInv
<1>1. SUFFICES ASSUME Subscribed PROVE BillingInv
  OBVIOUS
<1>2. PICK s \in Subscriptions, p \in Plans :
        /\ account = [sub |-> s, plan |-> p, checkout |-> NoCheckout, status |-> "active",
                      grace |-> "none", pending |-> 0, noticed |-> TRUE]
        /\ subs = [x \in Subscriptions |->
                     IF x = s THEN [NoContract EXCEPT !.status = "active", !.plan = p, !.paid = TRUE]
                     ELSE NoContract]
        /\ past = [paid |-> {p}, settled |-> {s}, lapsed |-> {}, doubled |-> FALSE, cut |-> FALSE]
        /\ sessions = [k \in CheckoutKeys |-> [status |-> "none", plan |-> 0]]
        /\ late = {} /\ changes = 0 /\ sent = {} /\ answered = {} /\ recorded = {}
        /\ billing = [r \in BillingRequests |-> Waiting]
        /\ mails = 1
  BY <1>1 DEF Subscribed
<1>3. /\ subs[s] = [status |-> "active", plan |-> p, paid |-> TRUE, update |-> 0, schedule |-> 0,
                    ends |-> FALSE]
      /\ \A x \in Subscriptions \ {s} : subs[x] = NoContract
  BY <1>2 DEF NoContract
<1>4. /\ \A x \in Subscriptions \ {s} : subs[x].status = "none" /\ ~subs[x].paid
      /\ \A x \in Subscriptions : subs[x].schedule = 0
      /\ subs[s].status = "active" /\ subs[s].paid /\ subs[s].plan = p
      /\ \A r \in BillingRequests : ~Busy(r) /\ ~Syncing(r) /\ billing[r].phase = "idle"
      /\ \A k \in CheckoutKeys : sessions[k].status = "none"
      /\ account.checkout.key = NoKey /\ account.sub = s /\ account.status = "active"
      /\ s # NoSubscription /\ NoKey \notin CheckoutKeys
  BY <1>2, <1>3, WaitingType, BillingAssumption DEF NoContract, Busy, Syncing, NoCheckout
<1>5. LiveSubs = {s}
  BY <1>4 DEF LiveSubs
<1>6. BillingTypeOK
  <2>1. account \in Account /\ mails \in Nat /\ changes \in 0..MaxChanges
    BY <1>2, BillingAssumption DEF Account, Checkout, NoCheckout, Ranks
  <2>2. subs \in [Subscriptions -> Contract]
    <3>1. subs[s] \in Contract /\ NoContract \in Contract
      BY <1>3, BillingAssumption DEF Contract, NoContract, Ranks
    <3>2. \A x \in Subscriptions : subs[x] \in Contract
      BY <1>3, <3>1
    <3>3. QED BY <1>2, <3>2
  <2>3. sessions \in [CheckoutKeys ->
                        [status : {"none", "open", "complete", "expired"}, plan : Ranks]]
    BY <1>2 DEF Ranks
  <2>4. past \in [paid : SUBSET Plans, settled : SUBSET Subscriptions, lapsed : SUBSET Subscriptions,
                  doubled : BOOLEAN, cut : BOOLEAN]
    BY <1>2
  <2>5. QED BY <1>2, <2>1, <2>2, <2>3, <2>4, WaitingType DEF BillingTypeOK
<1>7. RequestsHold
  BY <1>2, <1>4 DEF RequestsHold, RequestHolds, OneLocks, SentHold
<1>8. MoneyHolds
  BY <1>2, <1>4 DEF MoneyHolds, MoneyOf, ActivePlanWasPaid
<1>9. SessionsHold /\ SchedulesHold
  BY <1>2, <1>4, <1>5 DEF SessionsHold, SchedulesHold
<1>10. NewsHolds
  <2>1. Fresh(account, subs[s])
    BY <1>2, <1>3, BillingAssumption DEF Fresh
  <2>2. QED BY <1>2, <1>4, <1>5, <2>1, FS_Singleton DEF NewsHolds
<1>11. QED BY <1>6, <1>7, <1>8, <1>9, <1>10 DEF BillingInv

(* A step of the company is a step of each of its parts, or none.          *)
LEMMA CompanySteps ==
  ASSUME [CompanyNext]_companyVars
  PROVE  /\ [BillingNext]_billingVars /\ [AccountsNext]_accountVars
         /\ [IdentitiesNext]_identityVars /\ [MigrationsNext]_migrationVars /\ part' = part
<1>1. BuyingNext => BillingNext
  BY CompanyAssumption DEF BuyingNext, BillingNext, ProviderNext
<1>2. ManagingNext => BillingNext
  BY CompanyAssumption DEF ManagingNext, BillingNext
<1>3. QED
  BY <1>1, <1>2
  DEF CompanyNext, BuyingPart, ManagingPart, AccountsPart, IdentitiesPart, UpgradePart, companyVars

(* Also for a company that already pays when one begins to watch it: its   *)
(* account, sessions and identities have their types, what it is charged   *)
(* and what it sees agree, and during an upgrade the database is one that  *)
(* the stages can make (billing_subscriptions, auth, migrations).          *)
THEOREM CompanyIsTyped == CompanySpec => [](CompanyTypeOK /\ PaidOnce)
<1> DEFINE CompanyInv == /\ BillingInv /\ AccountInv /\ IdentityInv
                         /\ part = "upgrade" => MigrationInv
<1>1. CompanyInit => CompanyInv
  BY SubscribedHolds, BillingStarts, AccountBegins, IdentityBegins, MigrationsBegin DEF CompanyInit
<1>2. CompanyInv /\ [CompanyNext]_companyVars => CompanyInv'
  <2>1. SUFFICES ASSUME CompanyInv, [CompanyNext]_companyVars PROVE CompanyInv'
    OBVIOUS
  <2>2. BillingInv' /\ AccountInv' /\ IdentityInv'
    BY <2>1, CompanySteps, BillingStays, AccountStep, IdentityStep
  <2>3. part' = "upgrade" => MigrationInv'
    BY <2>1, CompanySteps, MigrationStep
  <2>4. QED BY <2>2, <2>3
<1>3. CompanyInv => CompanyTypeOK /\ PaidOnce
  BY PaidOnceFollows
  DEF BillingInv, AccountInv, IdentityInv, MigrationInv, ControlHolds, CompanyTypeOK
<1>4. QED BY <1>1, <1>2, <1>3, PTL DEF CompanySpec

=============================================================================
