------------------------------- MODULE Accounts -------------------------------
(***************************************************************************)
(* The life of an account: services/auth_service.py (signup), api/v1/me.py *)
(* and api/v1/admin (deletion), tasks/maintenance_tasks.py (the purge of   *)
(* what was deleted thirty days ago), and the foreign keys of the schema,  *)
(* which decide what goes with a row that is deleted.                      *)
(*                                                                         *)
(* A row is a table and the account it belongs to; it stands for all the   *)
(* rows the account has in that table.  `points' holds the foreign keys    *)
(* that are not null.  Passwords, tokens and profiles are left out; what   *)
(* polling and generation put into the tables is an action each, detailed  *)
(* in Intake and Drafting.                                                 *)
(***************************************************************************)
EXTENDS Integers, FiniteSets

CONSTANTS
  Accounts,     \* signups: each makes a client and a user of that name
  Admins,       \* users without a client, which no endpoint creates
  Email, Slug,  \* what each signup gives, or is derived from it
  MaxActs       \* bound: handlers that change something

Users == Accounts \cup Admins

ASSUME AccountsAssumption ==
  /\ Accounts \cap Admins = {}
  /\ DOMAIN Email = Accounts /\ DOMAIN Slug = Accounts
  /\ MaxActs \in Nat

-----------------------------------------------------------------------------
(* The foreign keys: table, table it refers to, what a deletion there does. *)
(* Left out are those of columns nothing sets (parent review, related       *)
(* review and response) and the one to prompt_versions, which no purge      *)
(* touches.                                                                *)

\* Bug: a user goes with its client.
ClientKeysCascade ==
  {<<"users", "clients", "cascade">>}
    \cup ({"subscriptions", "quota_usage", "oauth_credentials", "locations"}
            \X {"clients"} \X {"cascade"})

ClientKeys ==
  {<<"users", "clients", "set null">>}
    \cup ({"subscriptions", "quota_usage", "oauth_credentials", "locations"}
            \X {"clients"} \X {"cascade"})

ReviewKeys ==
  {<<"reviews", "locations", "cascade">>, <<"responses", "reviews", "cascade">>,
   <<"responses", "users", "no action">>}

ChoiceKeys ==
  {<<"regenerations", "reviews", "cascade">>, <<"regenerations", "users", "no action">>,
   <<"client_settings", "clients", "cascade">>,
   <<"notification_preferences", "clients", "cascade">>}

\* Bug: an entry keeps the user it names.
LogKeysKeep ==
  {<<"notifications", "clients", "cascade">>, <<"audit_logs", "users", "no action">>}

LogKeys ==
  {<<"notifications", "clients", "cascade">>, <<"audit_logs", "users", "set null">>}

Keys == ClientKeys \cup ReviewKeys \cup ChoiceKeys \cup LogKeys

Tables == {k[1] : k \in Keys} \cup {k[2] : k \in Keys}

-----------------------------------------------------------------------------
VARIABLES
  rows,       \* <<table, account>>
  points,     \* pairs of rows: the first refers to the second
  deleted,    \* deleted_at: null, less than thirty days ago, longer ago
  signup,     \* where each signup is
  open,       \* users with a request past get_current_user
  acts

vars == <<rows, points, deleted, signup, open, acts>>

User(u) == <<"users", u>>
Client(a) == <<"clients", a>>
Erasable == ({"users"} \X Users) \cup ({"clients"} \X Accounts)

TypeOK ==
  /\ rows \subseteq Tables \X Users
  /\ points \subseteq rows \X rows
  /\ \A p \in points : \E k \in Keys : k[1] = p[1][1] /\ k[2] = p[2][1]
  /\ deleted \in [Erasable -> {"no", "fresh", "old"}]
  /\ \A x \in Erasable : deleted[x] # "no" => x \in rows
  /\ signup \in [Accounts -> {"new", "checked", "flushed", "done"}]
  /\ open \subseteq Users
  /\ acts \in 0 .. MaxActs

Init ==
  /\ rows = {User(u) : u \in Admins}
  /\ points = {}
  /\ deleted = [x \in Erasable |-> "no"]
  /\ signup = [a \in Accounts |-> "new"]
  /\ open = {}
  /\ acts = 0

Expired(x) == x \in rows /\ deleted[x] = "old"

-----------------------------------------------------------------------------
(* Signup: one transaction.                                                *)

\* get_by_email looks at users that are not deleted.
SignupCheck(a) ==
  /\ signup[a] = "new"
  /\ \A b \in Accounts : Email[b] = Email[a] =>
       User(b) \notin rows \/ deleted[User(b)] # "no"
  /\ signup' = [signup EXCEPT ![a] = "checked"]
  /\ UNCHANGED <<rows, points, deleted, open, acts>>

Taken(table, key, a) == \E b \in Accounts : key[b] = key[a] /\ <<table, b>> \in rows

\* Bug: the client is committed before its user.
SignupFlushCommits(a) ==
  /\ signup[a] = "checked"
  /\ signup' = [signup EXCEPT ![a] = IF Taken("clients", Slug, a) THEN "new" ELSE "flushed"]
  /\ rows' = IF Taken("clients", Slug, a) THEN rows ELSE rows \cup {Client(a)}
  /\ UNCHANGED <<points, deleted, open, acts>>

\* The client is inserted; an uncommitted client of the same slug makes it wait, a committed
\* one fails the request: this flush is not the one the handler of collisions surrounds.
SignupFlush(a) ==
  /\ signup[a] = "checked"
  /\ \A b \in Accounts : signup[b] = "flushed" => Slug[b] # Slug[a]
  /\ signup' = [signup EXCEPT ![a] = IF Taken("clients", Slug, a) THEN "new" ELSE "flushed"]
  /\ UNCHANGED <<rows, points, deleted, open, acts>>

Welcome == {"subscriptions", "client_settings", "notification_preferences"}

\* The address is unique among all users, the deleted ones too.
SignupCommit(a) ==
  /\ signup[a] = "flushed"
  /\ IF Taken("users", Email, a)
     THEN signup' = [signup EXCEPT ![a] = "new"] /\ UNCHANGED <<rows, points>>
     ELSE /\ signup' = [signup EXCEPT ![a] = "done"]
          /\ rows' = rows \cup {Client(a), User(a)} \cup (Welcome \X {a})
          /\ points' = points \cup ({User(a)} \cup (Welcome \X {a})) \X {Client(a)}
  /\ UNCHANGED <<deleted, open, acts>>

-----------------------------------------------------------------------------
(* What fills the tables.                                                  *)

\* exchange_code: a credential and locations.
Connect(a) ==
  /\ Client(a) \in rows
  /\ LET new == {"oauth_credentials", "locations"} \X {a}
     IN /\ ~(new \subseteq rows)
        /\ rows' = rows \cup new /\ points' = points \cup (new \X {Client(a)})
  /\ UNCHANGED <<deleted, signup, open, acts>>

\* Reviews with their drafts, the use of the month and notices of it.
Draft(a) ==
  /\ <<"locations", a>> \in rows /\ <<"reviews", a>> \notin rows
  /\ LET own == {"quota_usage", "notifications"} \X {a}
     IN /\ rows' = rows \cup own \cup {<<"reviews", a>>, <<"responses", a>>}
        /\ points' = points \cup (own \X {Client(a)})
             \cup {<< <<"reviews", a>>, <<"locations", a>> >>,
                   << <<"responses", a>>, <<"reviews", a>> >>}
  /\ UNCHANGED <<deleted, signup, open, acts>>

-----------------------------------------------------------------------------
(* Requests.                                                               *)

\* get_current_user: a deleted user is refused.
Open(u) ==
  /\ User(u) \in rows /\ deleted[User(u)] = "no"
  /\ open' = open \cup {u}
  /\ UNCHANGED <<rows, points, deleted, signup, acts>>

\* A request that reads, or is refused.
Read(u) ==
  /\ u \in open
  /\ open' = open \ {u}
  /\ UNCHANGED <<rows, points, deleted, signup, acts>>

Act(u) ==
  /\ u \in open /\ open' = open \ {u}
  /\ acts < MaxActs /\ acts' = acts + 1

\* _ensure_owner
Owner(u, a) == u \in Admins \/ <<User(u), Client(a)>> \in points

\* The user is stored with a reply of the account, in the place of another or of none.
Approve(u, a) ==
  LET reply == <<"responses", a>>
  IN /\ Act(u) /\ reply \in rows /\ Owner(u, a)
     /\ \E before \in SUBSET {p \in points : p[1] = reply /\ p[2][1] = "users"} :
          /\ Cardinality(before) <= 1
          /\ points' = (points \ before) \cup {<<reply, User(u)>>}
     /\ UNCHANGED <<rows, deleted, signup>>

Regenerate(u, a) ==
  LET request == <<"regenerations", a>>
  IN /\ Act(u) /\ <<"responses", a>> \in rows /\ Owner(u, a)
     /\ rows' = rows \cup {request}
     /\ points' = points \cup {<<request, <<"reviews", a>> >>, <<request, User(u)>>}
     /\ UNCHANGED <<deleted, signup>>

DeleteMe(u) ==
  /\ Act(u)
  /\ deleted' = [deleted EXCEPT ![User(u)] = "fresh"]
  /\ UNCHANGED <<rows, points, signup>>

Audit(u, target) ==
  /\ rows' = rows \cup {<<"audit_logs", target>>}
  /\ points' = points \cup {<< <<"audit_logs", target>>, User(u)>>}

\* soft_delete_user, soft_delete_client: whether or not it is deleted already.
SoftDelete(u, x) ==
  /\ Act(u) /\ u \in Admins /\ x \in rows
  /\ deleted' = [deleted EXCEPT ![x] = "fresh"]
  /\ Audit(u, x[2])
  /\ UNCHANGED signup

\* suspend, reactivate, update_notes: of a client that is not deleted.
Administer(u, a) ==
  /\ Act(u) /\ u \in Admins /\ Client(a) \in rows /\ deleted[Client(a)] = "no"
  /\ Audit(u, a)
  /\ UNCHANGED <<deleted, signup>>

\* Thirty days pass: longer than any request lasts.
Age(x) ==
  /\ deleted[x] = "fresh" /\ open = {}
  /\ deleted' = [deleted EXCEPT ![x] = "old"]
  /\ UNCHANGED <<rows, points, signup, open, acts>>

-----------------------------------------------------------------------------
(* The purge: two statements in one transaction.                           *)

Has(p, rule) == <<p[1][1], p[2][1], rule>> \in Keys

Children(s, ps) == {p[1] : p \in {q \in ps : q[2] = s /\ Has(q, "cascade")}}

With(S, ps) == UNION {{s} \cup Children(s, ps) : s \in S}

\* All that goes: locations, reviews, and what belongs to a review are the longest chain.
Gone(S, ps) == With(With(With(With(S, ps), ps), ps), ps)

\* A row that stays and refers to one that goes refuses the statement.
Blocked(gone, ps) == \E p \in ps : p[1] \notin gone /\ p[2] \in gone /\ Has(p, "no action")

\* Bug: what refers to a deleted row keeps its number.
KeptAsIs(gone, ps) == {p \in ps : p[1] \notin gone}

\* What the others referred to is set to null.
Kept(gone, ps) == {p \in ps : p[1] \notin gone /\ p[2] \notin gone}

Purge ==
  \E users \in {Gone({x \in rows : x[1] = "users" /\ deleted[x] = "old"}, points)} :
  \E left \in {Kept(users, points)} :
  \E clients \in {Gone({x \in rows : x[1] = "clients" /\ deleted[x] = "old"}, left)} :
    /\ users \cup clients # {}
    /\ ~Blocked(users, points) /\ ~Blocked(clients, left)
    /\ rows' = rows \ (users \cup clients)
    /\ points' = Kept(clients, left)
    /\ deleted' = [x \in Erasable |-> IF x \in users \cup clients THEN "no" ELSE deleted[x]]
    /\ UNCHANGED <<signup, open, acts>>

-----------------------------------------------------------------------------
Next ==
  \/ \E a \in Accounts :
       SignupCheck(a) \/ SignupFlush(a) \/ SignupCommit(a) \/ Connect(a) \/ Draft(a)
  \/ \E u \in Users :
       \/ Open(u) \/ Read(u) \/ DeleteMe(u)
       \/ \E a \in Accounts : Approve(u, a) \/ Regenerate(u, a) \/ Administer(u, a)
       \/ \E x \in Erasable : SoftDelete(u, x)
  \/ \E x \in Erasable : Age(x)
  \/ Purge

Spec == Init /\ [][Next]_vars

\* The purge is tried every day.
FairSpec == Spec /\ WF_vars(Purge)

-----------------------------------------------------------------------------
(* Properties.                                                             *)

\* A row that must name its client, location or review names one that is there, an account
\* has what its signup gives it as long as its client is there, and no two users have one
\* address: whatever signups overlap, and whatever the purge took.
WholeAccounts ==
  /\ \A r \in rows : \A k \in Keys :
       k[1] = r[1] /\ k[3] = "cascade" => \E p \in points : p[1] = r /\ p[2][1] = k[2]
  /\ \A a \in Accounts : Client(a) \in rows => Welcome \X {a} \subseteq rows
  /\ \A a, b \in Accounts : a # b /\ Email[a] = Email[b] =>
       User(a) \notin rows \/ User(b) \notin rows

\* Nothing is erased before thirty days: a user for its own deletion, the rest for that of
\* its client.
ErasedWasDeleted ==
  [][\A r \in rows \ rows' :
       deleted[IF r[1] = "users" THEN r ELSE Client(r[2])] = "old"]_vars

Referred == \E u \in Users : Expired(User(u)) /\
              \E p \in points : p[2] = User(u) /\ p[1][1] \in {"responses", "regenerations"}

\* What was deleted thirty days ago is erased, unless a user to be erased has validated a
\* reply or asked for another; entries of the audit log never keep anything.
ErasedUnlessReferred == \A x \in Erasable : []<>(Expired(x) => Referred)

\* What was deleted thirty days ago is erased: docs/06-security.md promises it, and the
\* references to a user break it.
Erased == \A x \in Erasable : []<>~Expired(x)
=============================================================================
