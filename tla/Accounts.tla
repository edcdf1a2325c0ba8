------------------------------ MODULE Accounts ------------------------------
(***************************************************************************)
(* Accounts, cellars and memberships: the Google sign-in, the invitations  *)
(* of an owner, the decisions of an administrator and the cellar without   *)
(* an owner that a migrated base leaves to the first of them.  Statements  *)
(* of one transaction are one step, unless another request may come in     *)
(* between and be seen: what was read before is then kept by the request.  *)
(***************************************************************************)
EXTENDS Naturals, FiniteSets

CONSTANTS
  Persons,    \* e-mail addresses: an account each, once created
  Configured, \* those that ADMIN_EMAILS lists
  BreakGlass, \* the one whose account signs in by password
  Caves,      \* cellars, in the order of their creation
  Logins,     \* Google sign-ins at the same time
  Adders,     \* additions of a member at the same time
  Nobody      \* the owner of a cellar that has none

ASSUME AccountsAssumption ==
  /\ Configured \subseteq Persons /\ BreakGlass \in Persons \ Configured
  /\ Caves \subseteq Nat \ {0}
  /\ Nobody \notin Persons /\ "absent" \notin Persons \union {Nobody}

VARIABLES
  user,   \* status and admin flag of each account, "none" before its creation
  owner,  \* owner of each cellar, "absent" before its creation
  rows,   \* the membership rows a person has in a cellar
  login,  \* each sign-in: how far it is, of whom, and what it read
  adder,  \* each addition of a member, likewise
  locked, \* accounts a sign-in holds while it takes a cellar over
  rewound, \* history: accounts whose status a sign-in set back to what it had read
  crossed  \* history: invitations written for an account that was just created

accountVars == <<user, owner, rows, login, adder, locked, rewound, crossed>>

Statuses == {"PENDING", "ACTIVE", "BLOCKED"}
Account(status, admin) == [status |-> status, admin |-> admin]
NoAccount == Account("none", FALSE)
Account_ == [status : Statuses \union {"none"}, admin : BOOLEAN]

\* INVITED is a row with an address and no account yet.
Kinds == {"INVITED", "VIEWER", "OWNER"}

Idle == [at |-> "idle", who |-> BreakGlass, seen |-> NoAccount, invited |-> FALSE]
Resting == [at |-> "idle", cave |-> 0, who |-> BreakGlass, seen |-> NoAccount]

\* The unique indexes on (cave, user) and on the owner's row of a cellar.
RowsUnique ==
  /\ \A c \in Caves, p \in Persons : ~ {"VIEWER", "OWNER"} \subseteq rows[c][p]
  /\ \A c \in Caves : Cardinality({p \in Persons : "OWNER" \in rows[c][p]}) <= 1

AccountsTypeOK ==
  /\ user \in [Persons -> Account_]
  /\ owner \in [Caves -> Persons \union {Nobody, "absent"}]
  /\ rows \in [Caves -> [Persons -> SUBSET Kinds]]
  /\ login \in [Logins -> [at : {"idle", "read", "new", "counted", "claim", "claiming"},
                           who : Persons, seen : Account_, invited : BOOLEAN]]
  /\ adder \in [Adders -> [at : {"idle", "read"}, cave : Caves \union {0}, who : Persons, seen : Account_]]
  /\ locked \subseteq Persons
  /\ rewound \subseteq Persons
  /\ crossed \subseteq Caves \X Persons
  /\ RowsUnique

-----------------------------------------------------------------------------
(* Who may do what *)

Exists(p)  == user[p].status # "none"
Owned(p)   == {c \in Caves : owner[c] = p}
Orphans    == {c \in Caves : owner[c] = Nobody}
Oldest(cs) == CHOOSE c \in cs : \A d \in cs : c <= d

\* An administrator's session, looked at by the guards of every request.
Administers(p) == user[p].status = "ACTIVE" /\ user[p].admin

\* The cellar of the main administrator, which the break-glass account acts for.
\* Several administrators: whichever came first, which the model does not order.
MainCaves == {Oldest(Owned(p)) : p \in {q \in Persons \ {BreakGlass} : Administers(q) /\ Owned(q) # {}}}

\* The role a session finds in a cellar.
Owns(p, c) ==
  /\ user[p].status = "ACTIVE"
  /\ "OWNER" \in rows[c][p] \/ (p = BreakGlass /\ c \in MainCaves)

ResolveIsAdmin(p, was) == p \in Configured \/ was
ResolveStatus(admin, was) == IF admin /\ was = "PENDING" THEN "ACTIVE" ELSE was

\* createOwnedCave: the next cellar and its owner's row.
CreateOwnedCave(p) ==
  LET free == {c \in Caves : owner[c] = "absent"} IN
  /\ free # {}
  /\ owner' = [owner EXCEPT ![Oldest(free)] = p]
  /\ rows' = [rows EXCEPT ![Oldest(free)][p] = @ \union {"OWNER"}]

-----------------------------------------------------------------------------
(* Google sign-in *)

Go(l, at) == login' = [login EXCEPT ![l].at = at]
Settled(l) == login' = [login EXCEPT ![l] = Idle]

LoginRead(l) ==
  /\ login[l].at = "idle"
  /\ \E p \in Persons :
       login' = [login EXCEPT ![l] =
                   [at |-> IF Exists(p) THEN "read" ELSE "new", who |-> p, seen |-> user[p], invited |-> FALSE]]
  /\ UNCHANGED <<user, owner, rows, adder, locked, rewound, crossed>>

\* The refusal of a blocked account comes after the update; an active
\* administrator goes on to the cellar nobody owns.
AfterWrite(l, p, written) ==
  IF written.admin /\ written.status = "ACTIVE" /\ p # BreakGlass /\ Orphans # {}
  THEN login' = [login EXCEPT ![l] = [Idle EXCEPT !.at = "claim", !.who = p]]
  ELSE Settled(l)

\* The account is written from what was read before.
LoginUpdate(l) ==
  /\ login[l].at = "read"
  /\ LET p == login[l].who
         admin == ResolveIsAdmin(p, login[l].seen.admin)
         written == Account(ResolveStatus(admin, login[l].seen.status), admin)
     IN
     /\ p \notin locked
     /\ user' = [user EXCEPT ![p] = written]
     /\ rewound' = IF user[p].status # login[l].seen.status THEN rewound \union {p} ELSE rewound
     /\ AfterWrite(l, p, written)
  /\ UNCHANGED <<owner, rows, adder, locked, crossed>>

CountInvitations(l) ==
  /\ login[l].at = "new"
  /\ login' = [login EXCEPT ![l].at = "counted",
                            ![l].invited = \E c \in Caves : "INVITED" \in rows[c][login[l].who]]
  /\ UNCHANGED <<user, owner, rows, adder, locked, rewound, crossed>>

\* The account takes the place of its address in a cellar's rows.
Attached(kinds) == IF "INVITED" \in kinds THEN (kinds \ {"INVITED"}) \union {"VIEWER"} ELSE kinds

CreateGoogleUser(l) ==
  /\ login[l].at = "counted"
  /\ LET p == login[l].who
         admin == ResolveIsAdmin(p, FALSE)
         written == Account(IF admin \/ login[l].invited THEN "ACTIVE" ELSE "PENDING", admin)
     IN
     IF Exists(p)                            \* another sign-in created it: unique index
     THEN Settled(l) /\ UNCHANGED <<user, rows, crossed>>
     ELSE /\ user' = [user EXCEPT ![p] = written]
          /\ rows' = IF login[l].invited THEN [c \in Caves |-> [rows[c] EXCEPT ![p] = Attached(@)]] ELSE rows
             \* an invitation that came after the count that found none
          /\ crossed' = IF login[l].invited THEN crossed
                        ELSE crossed \union {<<c, p>> : c \in {d \in Caves : "INVITED" \in rows[d][p]}}
          /\ AfterWrite(l, p, written)
  /\ UNCHANGED <<owner, adder, locked, rewound>>

\* Mutant: who signs in takes a cellar, whatever is already his.
LacksCaveAlways(p) == TRUE

LacksCave(p) == Owned(p) = {}

\* The account's row is locked, then the cellars read.
ClaimLock(l) ==
  /\ login[l].at = "claim"
  /\ LET p == login[l].who IN
     /\ p \notin locked
     /\ IF LacksCave(p) /\ Orphans # {}
        THEN locked' = locked \union {p} /\ Go(l, "claiming")
        ELSE Settled(l) /\ UNCHANGED locked
  /\ UNCHANGED <<user, owner, rows, adder, rewound, crossed>>

\* Mutant: the cellar was read without an owner, and is taken.
TakeableAsRead(c) == owner[c] # "absent"

\* The update says `owner_id IS NULL` again.
Takeable(c) == owner[c] = Nobody

Promoted(kinds) == (kinds \ {"VIEWER"}) \union {"OWNER"}

\* One of the cellars read, the oldest first: a race lost goes on to the next.
ClaimTake(l) ==
  /\ login[l].at = "claiming"
  /\ LET p == login[l].who
         takeable == {c \in Caves : Takeable(c)}
     IN
     /\ IF takeable = {} THEN UNCHANGED <<owner, rows>>
        ELSE LET c == Oldest(takeable) IN
             /\ owner' = [owner EXCEPT ![c] = p]
             /\ rows' = [rows EXCEPT ![c][p] = Promoted(@)]
     /\ locked' = locked \ {p}
  /\ Settled(l)
  /\ UNCHANGED <<user, adder, rewound, crossed>>

-----------------------------------------------------------------------------
(* The members of a cellar, kept by its owner *)

\* Reads the account and the rows of the cellar: 409 when there is one.
AddRead(a) ==
  /\ adder[a].at = "idle"
  /\ \E c \in Caves, p \in Persons :
       /\ \E o \in Persons : Owns(o, c)
       /\ rows[c][p] = {}
       /\ adder' = [adder EXCEPT ![a] = [at |-> "read", cave |-> c, who |-> p, seen |-> user[p]]]
  /\ UNCHANGED <<user, owner, rows, login, locked, rewound, crossed>>

\* An invitation is worth a validation; the update says `PENDING` again.
Activated(p, seen) == seen.status = "PENDING" /\ user[p].status = "PENDING"

\* A row of the same person came first: unique index, 409.
AlreadyThere(a) ==
  LET kinds == rows[adder[a].cave][adder[a].who] IN
  IF adder[a].seen = NoAccount THEN "INVITED" \in kinds ELSE kinds \intersect {"VIEWER", "OWNER"} # {}

AddWrite(a) ==
  /\ adder[a].at = "read"
  /\ LET c == adder[a].cave
         p == adder[a].who
         seen == adder[a].seen
     IN
     /\ seen # NoAccount => p \notin locked
     /\ adder' = [adder EXCEPT ![a] = Resting]
     /\ IF AlreadyThere(a)
        THEN UNCHANGED <<user, rows, crossed>>
        ELSE /\ user' = IF seen # NoAccount /\ Activated(p, seen)
                        THEN [user EXCEPT ![p].status = "ACTIVE"] ELSE user
             /\ rows' = [rows EXCEPT ![c][p] = @ \union {IF seen = NoAccount THEN "INVITED" ELSE "VIEWER"}]
             /\ crossed' = IF seen = NoAccount /\ Exists(p) THEN crossed \union {<<c, p>>} ELSE crossed
  /\ UNCHANGED <<owner, login, locked, rewound>>

\* Never the owner's row.
RemovableKind(kind) == kind # "OWNER"

RemoveMember(c, p, kind) ==
  /\ \E o \in Persons : Owns(o, c)
  /\ kind \in rows[c][p] /\ RemovableKind(kind)
  /\ rows' = [rows EXCEPT ![c][p] = @ \ {kind}]
  /\ UNCHANGED <<user, owner, login, adder, locked, rewound, crossed>>

-----------------------------------------------------------------------------
(* The administrator *)

\* Validating makes the account active and gives it a cellar, in one transaction.
ValidateRegistration(p) ==
  /\ \E q \in Persons : Administers(q)
  /\ user[p].status = "PENDING" /\ p \notin locked
  /\ user' = [user EXCEPT ![p].status = "ACTIVE"]
  /\ CreateOwnedCave(p)
  /\ UNCHANGED <<login, adder, locked, rewound, crossed>>

RefuseRegistration(p) ==
  /\ \E q \in Persons : Administers(q)
  /\ user[p].status = "PENDING" /\ p \notin locked
  /\ user' = [user EXCEPT ![p].status = "BLOCKED"]
  /\ UNCHANGED <<owner, rows, login, adder, locked, rewound, crossed>>

\* An active account without a cellar, under the lock of its row.
CreateCaveFor(p) ==
  /\ \E q \in Persons : Administers(q)
  /\ p \notin locked
  /\ user[p].status = "ACTIVE" /\ LacksCave(p)
  /\ CreateOwnedCave(p)
  /\ UNCHANGED <<user, login, adder, locked, rewound, crossed>>

\* A listed administrator is neither blocked nor demoted.
Allowed(p, status, admin) == p \in Configured => status # "BLOCKED" /\ (admin \/ admin = user[p].admin)

\* Nobody decides about himself.
UpdateUser(p) ==
  /\ Exists(p) /\ p \notin locked
  /\ \E q \in Persons \ {p} : Administers(q)
  /\ \E status \in {user[p].status, "ACTIVE", "BLOCKED"}, admin \in BOOLEAN :
       /\ Allowed(p, status, admin)
       /\ user' = [user EXCEPT ![p] = Account(status, admin)]
  /\ UNCHANGED <<owner, rows, login, adder, locked, rewound, crossed>>

-----------------------------------------------------------------------------
\* A migrated base: the accounts that were active see its one cellar; it has no
\* owner, for want of an active administrator.
AccountsInit ==
  /\ \E known \in SUBSET (Persons \ {BreakGlass}) :
       /\ user = [p \in Persons |-> IF p \in known \union {BreakGlass} THEN Account("ACTIVE", FALSE) ELSE NoAccount]
       /\ rows = [c \in Caves |-> [p \in Persons |->
                    IF c = Oldest(Caves) /\ p \in known THEN {"VIEWER"} ELSE {}]]
  /\ owner = [c \in Caves |-> IF c = Oldest(Caves) THEN Nobody ELSE "absent"]
  /\ login = [l \in Logins |-> Idle]
  /\ adder = [a \in Adders |-> Resting]
  /\ locked = {} /\ rewound = {} /\ crossed = {}

SignIn(l) ==
  \/ LoginRead(l) \/ LoginUpdate(l) \/ CountInvitations(l) \/ CreateGoogleUser(l)
  \/ ClaimLock(l) \/ ClaimTake(l)

Administration(p) ==
  \/ ValidateRegistration(p) \/ RefuseRegistration(p) \/ CreateCaveFor(p) \/ UpdateUser(p)

AccountsGoOn ==
  \/ \E l \in Logins : SignIn(l)
  \/ \E a \in Adders : AddWrite(a)

\* What an owner or an administrator may ask for.
AccountsRequest ==
  \/ \E a \in Adders : AddRead(a)
  \/ \E c \in Caves, p \in Persons, kind \in Kinds : RemoveMember(c, p, kind)
  \/ \E p \in Persons : Administration(p)

-----------------------------------------------------------------------------
(* Properties *)

\* Whatever crosses whom between the sign-ins, claims, validations and removals: the
\* owner of a cellar has its OWNER row and nobody else does; an account has one cellar,
\* unless a sign-in set it back to PENDING and it was validated a second time; an
\* address whose account exists is not left among the invitations, unless it was
\* invited while the account was being created (caves.service.ts:14, 27-29,
\* admin.service.ts:49-50, auth.service.ts:79-84).
RowsMatchOwners ==
  /\ \A c \in Caves, p \in Persons : ("OWNER" \in rows[c][p]) = (owner[c] = p)
  /\ \A p \in Persons : Cardinality(Owned(p)) > 1 => p \in rewound
  /\ \A c \in Caves, p \in Persons : Exists(p) /\ "INVITED" \in rows[c][p] => <<c, p>> \in crossed

\* A cellar that has an owner keeps it: two administrators who sign in together never
\* take the same one.  And nobody locks everybody out: once somebody administers, no
\* sequence of decisions, promotions and sign-ins leaves nobody who does
\* (caves.service.ts:24-32, auth.service.ts:24-27, admin.service.ts:85-96).
NobodyIsLockedOut ==
  [][/\ \A c \in Caves : owner[c] \in Persons => owner'[c] = owner[c]
     /\ (\E p \in Persons : Administers(p)) => (\E p \in Persons : Administers(p))']_accountVars

\* What resolveStatus promises: a sign-in leaves a status as it is, but for an
\* administrator in waiting (auth.service.ts:32-34).
SignInKeepsStatus ==
  [][\A l \in Logins, p \in Persons :
       login[l].at = "read" /\ login[l].who = p /\ login'[l].at # "read" =>
         \/ user'[p].status = user[p].status
         \/ user'[p].admin /\ user[p].status = "PENDING"]_accountVars
=============================================================================
