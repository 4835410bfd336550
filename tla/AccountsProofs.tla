---------------------------- MODULE AccountsProofs ----------------------------
(***************************************************************************)
(* Proofs about Accounts, for any number of accounts and administrators,   *)
(* any addresses and names: the types, WholeAccounts, ErasedWasDeleted,    *)
(* and what keeps a purge from erasing.                                    *)
(***************************************************************************)
EXTENDS Accounts, TLAPS

(***************************************************************************)
(* Whether a deletion leaves the tables whole depends on the rows that     *)
(* refer to each other being of one account, on every chain of them being  *)
(* followed to its end, and on no user with a request open being among     *)
(* those that are erased.                                                  *)
(***************************************************************************)

Linked(p) == \E k \in Keys : k[1] = p[1][1] /\ k[2] = p[2][1]

\* A row that goes with another is of the same account.
OwnRow(p) == Has(p, "cascade") => p[1][2] = p[2][2]

\* Only users and entries of the audit log are an administrator's.
OfAccount(r) == r[1] \notin {"users", "audit_logs"} => r[2] \in Accounts

\* A row that must name another does so.
Held(r, ps) ==
  \A k \in Keys : k[1] = r[1] /\ k[3] = "cascade" => \E p \in ps : p[1] = r /\ p[2][1] = k[2]

OneAddress(rs) ==
  \A a, b \in Accounts : a # b /\ Email[a] = Email[b] => User(a) \notin rs \/ User(b) \notin rs

Structure ==
  /\ rows \subseteq Tables \X Users
  /\ points \subseteq rows \X rows
  /\ \A p \in points : Linked(p) /\ OwnRow(p)
  /\ \A r \in rows : OfAccount(r) /\ Held(r, points)
  /\ \A a \in Accounts : Client(a) \in rows => Welcome \X {a} \subseteq rows
  /\ OneAddress(rows)

Status ==
  /\ deleted \in [Erasable -> {"no", "fresh", "old"}]
  /\ \A x \in Erasable : deleted[x] # "no" => x \in rows
  /\ signup \in [Accounts -> {"new", "checked", "flushed", "done"}]
  /\ open \subseteq Users
  /\ \A u \in open : User(u) \in rows /\ deleted[User(u)] # "old"
  /\ acts \in 0 .. MaxActs

IInv == Structure /\ Status

-----------------------------------------------------------------------------
(* The keys.                                                               *)

OfClient == {"subscriptions", "quota_usage", "oauth_credentials", "locations",
             "client_settings", "notification_preferences", "notifications"}

LEMMA Triple ==
  ASSUME NEW k, \E a, b, c : k = <<a, b, c>>
  PROVE  k = <<k[1], k[2], k[3]>>
<1>1. PICK a, b, c : k = <<a, b, c>>
  OBVIOUS
<1>2. k[1] = a /\ k[2] = b /\ k[3] = c
  BY <1>1
<1> QED
  BY <1>1, <1>2

LEMMA KeyShape == \A k \in Keys : k = <<k[1], k[2], k[3]>>
<1>1. \A k \in {"subscriptions", "quota_usage", "oauth_credentials", "locations"}
              \X {"clients"} \X {"cascade"} : k = <<k[1], k[2], k[3]>>
  OBVIOUS
<1>2. \A k \in {<<"users", "clients", "set null">>} \cup ReviewKeys \cup ChoiceKeys \cup LogKeys :
        \E a, b, c : k = <<a, b, c>>
  BY DEF ReviewKeys, ChoiceKeys, LogKeys
<1>3. ASSUME NEW k \in Keys PROVE k = <<k[1], k[2], k[3]>>
  <2>1. CASE k \in {"subscriptions", "quota_usage", "oauth_credentials", "locations"}
                   \X {"clients"} \X {"cascade"}
    BY <1>1, <2>1
  <2>2. CASE k \in {<<"users", "clients", "set null">>} \cup ReviewKeys \cup ChoiceKeys \cup LogKeys
    <3>1. \E a, b, c : k = <<a, b, c>>
      BY <1>2, <2>2
    <3> QED
      BY <3>1, Triple
  <2> QED
    BY <2>1, <2>2 DEF Keys, ClientKeys
<1> QED
  BY <1>3

LEMMA CascadeKeys ==
  ASSUME NEW x, NEW y
  PROVE  <<x, y, "cascade">> \in Keys <=>
           \/ y = "clients" /\ x \in OfClient
           \/ y = "locations" /\ x = "reviews"
           \/ y = "reviews" /\ x \in {"responses", "regenerations"}
  BY DEF Keys, ClientKeys, ReviewKeys, ChoiceKeys, LogKeys, OfClient

LEMMA OtherKeys ==
  /\ <<"users", "clients", "set null">> \in Keys
  /\ <<"responses", "users", "no action">> \in Keys
  /\ <<"regenerations", "users", "no action">> \in Keys
  /\ <<"audit_logs", "users", "set null">> \in Keys
  BY DEF Keys, ClientKeys, ReviewKeys, ChoiceKeys, LogKeys

LEMMA KeyTables ==
  ASSUME NEW x, NEW y, NEW z, <<x, y, z>> \in Keys
  PROVE  x \in Tables /\ y \in Tables
<1> DEFINE k == <<x, y, z>>
<1>1. k \in Keys /\ k[1] = x /\ k[2] = y
  OBVIOUS
<1> HIDE DEF k
<1> QED
  BY <1>1 DEF Tables

LEMMA AllTables ==
  /\ OfClient \subseteq Tables /\ Welcome \subseteq OfClient
  /\ {"users", "clients", "locations", "reviews", "responses", "regenerations",
      "audit_logs"} \subseteq Tables
<1>1. OfClient \subseteq Tables /\ "clients" \in Tables
  BY CascadeKeys, KeyTables DEF OfClient
<1>2. {"locations", "reviews", "responses", "regenerations"} \subseteq Tables
  BY CascadeKeys, KeyTables
<1>3. {"users", "audit_logs"} \subseteq Tables
  BY OtherKeys, KeyTables
<1> QED
  BY <1>1, <1>2, <1>3 DEF Welcome, OfClient

\* The rows that a row must name, by its table.
LEMMA HeldBy ==
  ASSUME NEW r, NEW ps
  PROVE  Held(r, ps) <=>
           /\ r[1] \in OfClient => \E p \in ps : p[1] = r /\ p[2][1] = "clients"
           /\ r[1] = "reviews" => \E p \in ps : p[1] = r /\ p[2][1] = "locations"
           /\ r[1] \in {"responses", "regenerations"} =>
                \E p \in ps : p[1] = r /\ p[2][1] = "reviews"
<1>1. Held(r, ps) <=>
        \A y : <<r[1], y, "cascade">> \in Keys => \E p \in ps : p[1] = r /\ p[2][1] = y
  <2>1. ASSUME Held(r, ps), NEW y, <<r[1], y, "cascade">> \in Keys
        PROVE  \E p \in ps : p[1] = r /\ p[2][1] = y
    <3> DEFINE k == <<r[1], y, "cascade">>
    <3>1. k \in Keys /\ k[1] = r[1] /\ k[2] = y /\ k[3] = "cascade"
      BY <2>1
    <3> HIDE DEF k
    <3> QED
      BY <2>1, <3>1 DEF Held
  <2>2. ASSUME \A y : <<r[1], y, "cascade">> \in Keys => \E p \in ps : p[1] = r /\ p[2][1] = y
        PROVE  Held(r, ps)
    BY <2>2, KeyShape DEF Held
  <2> QED
    BY <2>1, <2>2
<1>2. \A y : <<r[1], y, "cascade">> \in Keys <=>
           \/ y = "clients" /\ r[1] \in OfClient
           \/ y = "locations" /\ r[1] = "reviews"
           \/ y = "reviews" /\ r[1] \in {"responses", "regenerations"}
  BY CascadeKeys
<1> QED
  BY <1>1, <1>2 DEF OfClient

LEMMA LinkedBy ==
  ASSUME NEW p, NEW z, <<p[1][1], p[2][1], z>> \in Keys
  PROVE  Linked(p)
<1> DEFINE k == <<p[1][1], p[2][1], z>>
<1>1. k \in Keys /\ k[1] = p[1][1] /\ k[2] = p[2][1]
  OBVIOUS
<1> HIDE DEF k
<1> QED
  BY <1>1 DEF Linked

LEMMA InvType == IInv => TypeOK
  BY DEF IInv, Structure, Status, TypeOK, Linked

LEMMA InitInv == Init => IInv
<1> SUFFICES ASSUME Init PROVE IInv
  OBVIOUS
<1>1. rows \subseteq Tables \X Users
  BY AllTables DEF Init, User, Users
<1>2. \A r \in rows : r[1] = "users" /\ r[2] \in Admins
  BY DEF Init, User
<1>3. \A r \in rows : OfAccount(r) /\ Held(r, points)
  BY <1>2, HeldBy DEF OfAccount, OfClient
<1>4. \A a \in Accounts : Client(a) \notin rows /\ User(a) \notin rows
  BY <1>2, AccountsAssumption DEF Client, User
<1>5. Structure
  BY <1>1, <1>3, <1>4 DEF Structure, Init, OneAddress
<1>6. Status
  BY AccountsAssumption DEF Status, Init
<1> QED
  BY <1>5, <1>6 DEF IInv

-----------------------------------------------------------------------------
(* What is added.                                                          *)

\* Rows and references are added; at most references to users are taken away.
Grows(R, P, B) ==
  /\ rows' = rows \cup R /\ points' = (points \ B) \cup P
  /\ \A p \in B : p[2][1] = "users"
  /\ R \subseteq Tables \X Users /\ P \subseteq rows' \X rows'
  /\ \A p \in P : Linked(p) /\ OwnRow(p)
  /\ \A r \in R : OfAccount(r) /\ Held(r, points')
  /\ \A a \in Accounts : Client(a) \in R => Welcome \X {a} \subseteq rows'
  /\ OneAddress(rows')

LEMMA Grown ==
  ASSUME Structure, NEW R, NEW P, NEW B, Grows(R, P, B)
  PROVE  Structure'
<1>1. rows' \subseteq Tables \X Users /\ points' \subseteq rows' \X rows'
  BY DEF Structure, Grows
<1>2. \A p \in points' : Linked(p) /\ OwnRow(p)
  BY DEF Structure, Grows
<1>3. ASSUME NEW r \in rows'
      PROVE  OfAccount(r) /\ Held(r, points')
  <2>1. CASE r \in R
    BY <2>1 DEF Grows
  <2>2. CASE r \in rows
    <3>1. OfAccount(r) /\ Held(r, points)
      BY <2>2 DEF Structure
    <3>2. \A p \in points : p[2][1] # "users" => p \in points'
      BY DEF Grows
    <3>3. Held(r, points')
      BY <3>1, <3>2, HeldBy
    <3> QED
      BY <3>1, <3>3
  <2> QED
    BY <2>1, <2>2 DEF Grows
<1>4. \A a \in Accounts : Client(a) \in rows' => Welcome \X {a} \subseteq rows'
  BY DEF Structure, Grows
<1> QED
  BY <1>1, <1>2, <1>3, <1>4 DEF Structure, Grows

LEMMA SameAddress ==
  ASSUME Structure, NEW R, \A a \in Accounts : User(a) \notin R
  PROVE  OneAddress(rows \cup R)
  BY DEF Structure, OneAddress

\* A row that a client's table holds: its client is there.
LEMMA ClientThere ==
  ASSUME Structure, NEW t \in OfClient, NEW a, <<t, a>> \in rows
  PROVE  Client(a) \in rows
<1> DEFINE r == <<t, a>>
<1>1. r \in rows /\ r[1] = t /\ r[2] = a
  OBVIOUS
<1> HIDE DEF r
<1>2. PICK p \in points : p[1] = r /\ p[2][1] = "clients"
  BY <1>1, HeldBy DEF Structure
<1>3. p[2] \in rows /\ p[2][2] = a
  <2>1. Has(p, "cascade")
    BY <1>1, <1>2, CascadeKeys DEF Has
  <2> QED
    BY <1>1, <1>2, <2>1 DEF Structure, OwnRow
<1>4. p[2] = <<p[2][1], p[2][2]>>
  BY <1>3 DEF Structure
<1> QED
  BY <1>2, <1>3, <1>4 DEF Client

LEMMA ReviewThere ==
  ASSUME Structure, NEW t \in {"responses", "regenerations"}, NEW a, <<t, a>> \in rows
  PROVE  <<"reviews", a>> \in rows
<1> DEFINE r == <<t, a>>
<1>1. r \in rows /\ r[1] = t /\ r[2] = a
  OBVIOUS
<1> HIDE DEF r
<1>2. PICK p \in points : p[1] = r /\ p[2][1] = "reviews"
  BY <1>1, HeldBy DEF Structure
<1>3. p[2] \in rows /\ p[2][2] = a
  <2>1. Has(p, "cascade")
    BY <1>1, <1>2, CascadeKeys DEF Has
  <2> QED
    BY <1>1, <1>2, <2>1 DEF Structure, OwnRow
<1>4. p[2] = <<p[2][1], p[2][2]>>
  BY <1>3 DEF Structure
<1> QED
  BY <1>2, <1>3, <1>4

\* The rows of tables of a client, each with its reference to it.
LEMMA OwnTables ==
  ASSUME NEW T \in SUBSET OfClient, NEW a \in Accounts, NEW ps, (T \X {a}) \X {Client(a)} \subseteq ps
  PROVE  /\ T \X {a} \subseteq Tables \X Users
         /\ \A p \in (T \X {a}) \X {Client(a)} : Linked(p) /\ OwnRow(p)
         /\ \A r \in T \X {a} : /\ OfAccount(r) /\ Held(r, ps)
                               /\ r[1] \notin {"users", "clients"}
<1>1. T \X {a} \subseteq Tables \X Users
  BY AllTables DEF Users
<1>2. ASSUME NEW p \in (T \X {a}) \X {Client(a)} PROVE Linked(p) /\ OwnRow(p)
  <2>1. p[1][1] \in T /\ p[1][2] = a /\ p[2][1] = "clients" /\ p[2][2] = a
    BY DEF Client
  <2>2. <<p[1][1], p[2][1], "cascade">> \in Keys
    BY <2>1, CascadeKeys
  <2> QED
    BY <2>1, <2>2, LinkedBy DEF OwnRow
<1>3. ASSUME NEW r \in T \X {a}
      PROVE  OfAccount(r) /\ Held(r, ps) /\ r[1] \notin {"users", "clients"}
  <2>1. r[1] \in OfClient /\ r[2] = a
    OBVIOUS
  <2>2. <<r, Client(a)>> \in ps /\ Client(a)[1] = "clients"
    BY DEF Client
  <2>3. r[1] \notin {"users", "clients", "reviews", "responses", "regenerations"}
    BY <2>1 DEF OfClient
  <2>4. \E p \in ps : p[1] = r /\ p[2][1] = "clients"
    <3> DEFINE q == <<r, Client(a)>>
    <3>1. q \in ps /\ q[1] = r /\ q[2][1] = "clients"
      BY <2>2
    <3> QED
      BY <3>1
  <2> QED
    BY <2>1, <2>3, <2>4, HeldBy DEF OfAccount
<1> QED
  BY <1>1, <1>2, <1>3

LEMMA NotUser ==
  /\ \A t, a, b : t # "users" => <<t, a>> # User(b)
  /\ \A t, a, b : t # "clients" => <<t, a>> # Client(b)
  BY DEF User, Client

LEMMA CommitStructure ==
  ASSUME Structure, NEW a \in Accounts, SignupCommit(a)
  PROVE  Structure'
<1>1. CASE Taken("users", Email, a)
  BY <1>1 DEF SignupCommit, Structure
<1>2. CASE ~Taken("users", Email, a)
  <2> DEFINE W == Welcome \X {a}
             R == {Client(a), User(a)} \cup W
             Q == W \X {Client(a)}
             P == {<<User(a), Client(a)>>} \cup Q
  <2>1. rows' = rows \cup R
    BY <1>2 DEF SignupCommit
  <2>2. points' = points \cup P
    <3>1. ({User(a)} \cup W) \X {Client(a)} = P
      OBVIOUS
    <3>2. points' = points \cup ({User(a)} \cup W) \X {Client(a)}
      BY <1>2 DEF SignupCommit
    <3> QED
      BY <3>1, <3>2
  <2>3. W \X {Client(a)} \subseteq points' /\ Welcome \in SUBSET OfClient
    BY <2>2, AllTables
  <2>4. /\ W \subseteq Tables \X Users
        /\ \A p \in Q : Linked(p) /\ OwnRow(p)
        /\ \A r \in W : /\ OfAccount(r) /\ Held(r, points')
                       /\ r[1] \notin {"users", "clients"}
    BY <2>3, OwnTables
  <2>5. R \subseteq Tables \X Users
    BY <2>4, AllTables DEF Client, User, Users
  <2>6. P \subseteq rows' \X rows'
    BY <2>1
  <2>7. \A p \in P : Linked(p) /\ OwnRow(p)
    <3> DEFINE p == <<User(a), Client(a)>>
    <3>1. p[1][1] = "users" /\ p[2][1] = "clients" /\ p[1][2] = a /\ p[2][2] = a
      BY DEF User, Client
    <3> HIDE DEF p
    <3>2. Linked(p) /\ OwnRow(p)
      BY <3>1, OtherKeys, LinkedBy DEF OwnRow
    <3> QED
      BY <2>4, <3>2 DEF p
  <2>8. \A r \in R : OfAccount(r) /\ Held(r, points')
    <3>1. Client(a)[1] = "clients" /\ Client(a)[2] = a /\ User(a)[1] = "users"
      BY DEF Client, User
    <3>2. /\ OfAccount(Client(a)) /\ Held(Client(a), points')
          /\ OfAccount(User(a)) /\ Held(User(a), points')
      BY <3>1, HeldBy DEF OfAccount, OfClient
    <3> QED
      BY <2>4, <3>2
  <2>9. \A b \in Accounts : Client(b) \in R => b = a
    BY <2>4 DEF Client, User
  <2>10. OneAddress(rows')
    <3>1. \A b \in Accounts : User(b) \in rows' => User(b) \in rows \/ b = a
      BY <2>1, <2>4 DEF Client, User
    <3>2. \A b \in Accounts : Email[b] = Email[a] => User(b) \notin rows
      BY <1>2 DEF Taken, User
    <3> QED
      BY <3>1, <3>2 DEF Structure, OneAddress
  <2>11. \A b \in Accounts : Client(b) \in R => Welcome \X {b} \subseteq rows'
    BY <2>1, <2>9
  <2>12. points' = (points \ {}) \cup P
    BY <2>2
  <2> HIDE DEF R, P
  <2>13. Grows(R, P, {})
    BY <2>1, <2>5, <2>6, <2>7, <2>8, <2>10, <2>11, <2>12 DEF Grows
  <2> QED
    BY <2>13, Grown
<1> QED
  BY <1>1, <1>2

LEMMA ConnectStructure ==
  ASSUME Structure, NEW a \in Accounts, Connect(a)
  PROVE  Structure'
<1> DEFINE T == {"oauth_credentials", "locations"}
           R == T \X {a}
           P == R \X {Client(a)}
<1>1. rows' = rows \cup R /\ points' = (points \ {}) \cup P /\ Client(a) \in rows
  BY DEF Connect
<1>2. T \in SUBSET OfClient /\ P \subseteq points'
  BY <1>1 DEF OfClient
<1>3. /\ R \subseteq Tables \X Users
      /\ \A p \in P : Linked(p) /\ OwnRow(p)
      /\ \A r \in R : /\ OfAccount(r) /\ Held(r, points')
                     /\ r[1] \notin {"users", "clients"}
  BY <1>2, OwnTables
<1>4. P \subseteq rows' \X rows'
  BY <1>1
<1>5. \A b \in Accounts : Client(b) \notin R /\ User(b) \notin R
  BY <1>3 DEF Client, User
<1>6. OneAddress(rows')
  BY <1>1, <1>5, SameAddress
<1> HIDE DEF R, P
<1>7. Grows(R, P, {})
  BY <1>1, <1>3, <1>4, <1>5, <1>6 DEF Grows
<1> QED
  BY <1>7, Grown

LEMMA DraftStructure ==
  ASSUME Structure, NEW a \in Accounts, Draft(a)
  PROVE  Structure'
<1> DEFINE T == {"quota_usage", "notifications"}
           O == T \X {a}
           Q == O \X {Client(a)}
           review == <<"reviews", a>>
           response == <<"responses", a>>
           R == O \cup {review, response}
           p1 == <<review, <<"locations", a>> >>
           p2 == <<response, review>>
           P == Q \cup {p1, p2}
<1>1. /\ rows' = rows \cup R /\ points' = (points \ {}) \cup P
      /\ <<"locations", a>> \in rows
  BY DEF Draft
<1>2. Client(a) \in rows
  BY <1>1, ClientThere DEF OfClient
<1>3. T \in SUBSET OfClient /\ Q \subseteq points'
  BY <1>1 DEF OfClient
<1>4. /\ O \subseteq Tables \X Users
      /\ \A p \in Q : Linked(p) /\ OwnRow(p)
      /\ \A r \in O : /\ OfAccount(r) /\ Held(r, points')
                     /\ r[1] \notin {"users", "clients"}
  BY <1>3, OwnTables
<1>5. R \subseteq Tables \X Users
  BY <1>4, AllTables DEF Users
<1>6. P \subseteq rows' \X rows'
  BY <1>1, <1>2
<1>7. \A p \in P : Linked(p) /\ OwnRow(p)
  <2>1. /\ p1[1][1] = "reviews" /\ p1[2][1] = "locations" /\ p1[1][2] = p1[2][2]
        /\ p2[1][1] = "responses" /\ p2[2][1] = "reviews" /\ p2[1][2] = p2[2][2]
    OBVIOUS
  <2> HIDE DEF p1, p2
  <2>2. /\ <<p1[1][1], p1[2][1], "cascade">> \in Keys
        /\ <<p2[1][1], p2[2][1], "cascade">> \in Keys
    BY <2>1, CascadeKeys
  <2>3. Linked(p1) /\ OwnRow(p1) /\ Linked(p2) /\ OwnRow(p2)
    BY <2>1, <2>2, LinkedBy DEF OwnRow
  <2> QED
    BY <1>4, <2>3
<1>8. \A r \in R : OfAccount(r) /\ Held(r, points')
  <2>1. /\ review[1] = "reviews" /\ review[2] = a
        /\ response[1] = "responses" /\ response[2] = a
        /\ p1 \in points' /\ p1[1] = review /\ p1[2][1] = "locations"
        /\ p2 \in points' /\ p2[1] = response /\ p2[2][1] = "reviews"
    BY <1>1
  <2> HIDE DEF p1, p2, review, response
  <2>2. /\ OfAccount(review) /\ Held(review, points')
        /\ OfAccount(response) /\ Held(response, points')
    BY <2>1, HeldBy DEF OfAccount, OfClient
  <2> QED
    BY <1>4, <2>2
<1>9. \A b \in Accounts : Client(b) \notin R /\ User(b) \notin R
  BY <1>4 DEF Client, User
<1>10. OneAddress(rows')
  BY <1>1, <1>9, SameAddress
<1> HIDE DEF R, P
<1>11. Grows(R, P, {})
  BY <1>1, <1>5, <1>6, <1>7, <1>8, <1>9, <1>10 DEF Grows
<1> QED
  BY <1>11, Grown

\* A user whose request is open is there.
LEMMA ActingUser ==
  ASSUME IInv, NEW u \in Users, Act(u)
  PROVE  User(u) \in rows
  BY DEF IInv, Status, Act

LEMMA ApproveStructure ==
  ASSUME IInv, NEW u \in Users, NEW a \in Accounts, Approve(u, a)
  PROVE  Structure'
<1> DEFINE reply == <<"responses", a>>
           p == <<reply, User(u)>>
<1>1. PICK before \in SUBSET {q \in points : q[1] = reply /\ q[2][1] = "users"} :
        points' = (points \ before) \cup {p}
  BY DEF Approve
<1>2. /\ Structure /\ reply \in rows /\ User(u) \in rows /\ rows' = rows \cup {}
  BY ActingUser DEF IInv, Approve
<1>3. p[1][1] = "responses" /\ p[2][1] = "users"
  BY DEF User
<1>4. {p} \subseteq rows' \X rows'
  BY <1>2
<1> HIDE DEF p
<1>5. Linked(p) /\ OwnRow(p)
  BY <1>3, OtherKeys, CascadeKeys, LinkedBy DEF OwnRow, Has, OfClient
<1>6. OneAddress(rows')
  BY <1>2, SameAddress
<1>7. Grows({}, {p}, before)
  BY <1>1, <1>2, <1>4, <1>5, <1>6 DEF Grows
<1> QED
  BY <1>7, <1>2, Grown

LEMMA RegenerateStructure ==
  ASSUME IInv, NEW u \in Users, NEW a \in Accounts, Regenerate(u, a)
  PROVE  Structure'
<1> DEFINE request == <<"regenerations", a>>
           review == <<"reviews", a>>
           p1 == <<request, review>>
           p2 == <<request, User(u)>>
<1>1. /\ rows' = rows \cup {request} /\ points' = (points \ {}) \cup {p1, p2}
      /\ <<"responses", a>> \in rows /\ Structure
  BY DEF Regenerate, IInv
<1>2. review \in rows /\ User(u) \in rows
  BY <1>1, ReviewThere, ActingUser DEF Regenerate
<1>3. {request} \subseteq Tables \X Users
  BY AllTables DEF Users
<1>4. {p1, p2} \subseteq rows' \X rows'
  BY <1>1, <1>2
<1>5. /\ p1[1][1] = "regenerations" /\ p1[2][1] = "reviews" /\ p1[1][2] = p1[2][2]
      /\ p2[1][1] = "regenerations" /\ p2[2][1] = "users"
      /\ p1[1] = request
  BY DEF User
<1>6. request[1] = "regenerations" /\ request[2] = a
  OBVIOUS
<1>7. \A b \in Accounts : Client(b) \notin {request} /\ User(b) \notin {request}
  BY <1>6 DEF Client, User
<1> HIDE DEF p1, p2, request
<1>8. Linked(p1) /\ OwnRow(p1) /\ Linked(p2) /\ OwnRow(p2)
  <2>1. <<p1[1][1], p1[2][1], "cascade">> \in Keys /\ <<p2[1][1], p2[2][1], "no action">> \in Keys
    BY <1>5, CascadeKeys, OtherKeys
  <2>2. <<p2[1][1], p2[2][1], "cascade">> \notin Keys
    BY <1>5, CascadeKeys
  <2> QED
    BY <1>5, <2>1, <2>2, LinkedBy DEF OwnRow, Has
<1>9. OfAccount(request) /\ Held(request, points')
  BY <1>1, <1>5, <1>6, HeldBy DEF OfAccount, OfClient
<1>10. OneAddress(rows')
  BY <1>1, <1>7, SameAddress
<1>11. Grows({request}, {p1, p2}, {})
  BY <1>1, <1>3, <1>4, <1>7, <1>8, <1>9, <1>10 DEF Grows
<1> QED
  BY <1>11, <1>1, Grown

LEMMA AuditStructure ==
  ASSUME IInv, NEW u \in Users, NEW target \in Users, Act(u), Audit(u, target)
  PROVE  Structure'
<1> DEFINE entry == <<"audit_logs", target>>
           p == <<entry, User(u)>>
<1>1. /\ rows' = rows \cup {entry} /\ points' = (points \ {}) \cup {p}
      /\ Structure /\ User(u) \in rows
  BY ActingUser DEF Audit, IInv
<1>2. {entry} \subseteq Tables \X Users /\ {p} \subseteq rows' \X rows'
  BY <1>1, AllTables
<1>3. p[1][1] = "audit_logs" /\ p[2][1] = "users" /\ entry[1] = "audit_logs"
  BY DEF User
<1>4. \A b \in Accounts : Client(b) \notin {entry} /\ User(b) \notin {entry}
  BY <1>3 DEF Client, User
<1> HIDE DEF p, entry
<1>5. Linked(p) /\ OwnRow(p)
  BY <1>3, OtherKeys, CascadeKeys, LinkedBy DEF OwnRow, Has, OfClient
<1>6. OfAccount(entry) /\ Held(entry, points')
  BY <1>3, HeldBy DEF OfAccount, OfClient
<1>7. OneAddress(rows')
  BY <1>1, <1>4, SameAddress
<1>8. Grows({entry}, {p}, {})
  BY <1>1, <1>2, <1>4, <1>5, <1>6, <1>7 DEF Grows
<1> QED
  BY <1>8, <1>1, Grown

-----------------------------------------------------------------------------
(* What is erased.                                                         *)

\* A row that goes with another one that goes.
LEMMA WithIs ==
  ASSUME NEW S, NEW ps, NEW r
  PROVE  r \in With(S, ps) <=>
           \/ r \in S
           \/ \E p \in ps : p[1] = r /\ p[2] \in S /\ Has(p, "cascade")
  BY DEF With, Children

\* Rows go by cascades only, and with them what names them by one.
Descends(G, S, ps) ==
  /\ S \subseteq G
  /\ \A r \in G \ S : \E p \in ps : p[1] = r /\ p[2] \in G /\ Has(p, "cascade")

LEMMA WithDescends ==
  ASSUME NEW S, NEW G, NEW ps, Descends(G, S, ps)
  PROVE  Descends(With(G, ps), S, ps)
  BY WithIs DEF Descends

LEMMA GoneDescends ==
  ASSUME NEW S, NEW ps
  PROVE  Descends(Gone(S, ps), S, ps)
  BY WithDescends DEF Gone, Descends

\* Nothing goes with a user.
LEMMA UsersGone ==
  ASSUME NEW S, NEW ps, \A r \in S : r[1] = "users"
  PROVE  Gone(S, ps) = S
<1>1. With(S, ps) = S
  <2>1. \A p : p[2] \in S => ~Has(p, "cascade")
    BY CascadeKeys DEF Has
  <2> QED
    BY <2>1, WithIs
<1> QED
  BY <1>1 DEF Gone

\* References as the tables hold them.
Whole(ps) == \A p \in ps : Has(p, "cascade") => p[1][2] = p[2][2]

\* With a client go its rows only, and of them no user.
LEMMA OwnGone ==
  ASSUME NEW S, NEW ps, Whole(ps), \A r \in S : r[1] = "clients" /\ r = Client(r[2])
  PROVE  \A r \in Gone(S, ps) : Client(r[2]) \in S /\ r[1] # "users"
<1> DEFINE Own(G) == \A r \in G : Client(r[2]) \in S /\ r[1] # "users"
<1>1. ASSUME NEW G, Own(G)
      PROVE  Own(With(G, ps))
  <2> SUFFICES ASSUME NEW r \in With(G, ps), r \notin G
               PROVE  Client(r[2]) \in S /\ r[1] # "users"
    BY <1>1
  <2>1. PICK p \in ps : p[1] = r /\ p[2] \in G /\ Has(p, "cascade")
    BY WithIs
  <2>2. r[2] = p[2][2]
    BY <2>1 DEF Whole
  <2>3. r[1] # "users"
    BY <2>1, CascadeKeys DEF Has, OfClient
  <2> QED
    BY <1>1, <2>1, <2>2, <2>3
<1>2. Own(S)
  OBVIOUS
<1> HIDE DEF Own
<1>3. Own(Gone(S, ps))
  BY <1>1, <1>2 DEF Gone
<1> QED
  BY <1>3 DEF Own

\* The longest chain is followed to its end: what names a row that goes by a cascade goes.
LEMMA GoneIsClosed ==
  ASSUME NEW S, NEW ps, \A r \in S : r[1] = "clients",
         NEW p \in ps, p[2] \in Gone(S, ps), Has(p, "cascade")
  PROVE  p[1] \in Gone(S, ps)
<1> DEFINE G1 == With(S, ps)
           G2 == With(G1, ps)
           G3 == With(G2, ps)
           G4 == With(G3, ps)
<1>1. Gone(S, ps) = G4
  BY DEF Gone
<1>2. /\ \A q \in ps : q[2] \in S /\ Has(q, "cascade") => q[1] \in G1
      /\ \A q \in ps : q[2] \in G1 /\ Has(q, "cascade") => q[1] \in G2
      /\ \A q \in ps : q[2] \in G2 /\ Has(q, "cascade") => q[1] \in G3
  BY WithIs
<1>3. /\ \A r \in G1 : r \in S \/ \E q \in ps : q[1] = r /\ q[2] \in S /\ Has(q, "cascade")
      /\ \A r \in G2 : r \in G1 \/ \E q \in ps : q[1] = r /\ q[2] \in G1 /\ Has(q, "cascade")
      /\ \A r \in G3 : r \in G2 \/ \E q \in ps : q[1] = r /\ q[2] \in G2 /\ Has(q, "cascade")
      /\ \A r \in G4 : r \in G3 \/ \E q \in ps : q[1] = r /\ q[2] \in G3 /\ Has(q, "cascade")
      /\ S \subseteq G1 /\ G1 \subseteq G2 /\ G2 \subseteq G3 /\ G3 \subseteq G4
  BY WithIs
<1> HIDE DEF G1, G2, G3, G4
<1>4. \A q : Has(q, "cascade") =>
        \/ q[2][1] = "clients" /\ q[1][1] \in OfClient
        \/ q[2][1] = "locations" /\ q[1][1] = "reviews"
        \/ q[2][1] = "reviews" /\ q[1][1] \in {"responses", "regenerations"}
  BY CascadeKeys DEF Has
<1>5. /\ \A r \in G4 : r[1] = "clients" => r \in S
      /\ \A r \in G4 : r[1] = "locations" => r \in G1
      /\ \A r \in G4 : r[1] = "reviews" => r \in G2
  <2>1. \A r \in G4 : r[1] = "clients" => r \in S
    BY <1>3, <1>4 DEF OfClient
  <2>2. \A r \in G4 : r[1] = "locations" => r \in G1
    BY <1>2, <1>3, <1>4, <2>1 DEF OfClient
  <2>3. \A r \in G4 : r[1] = "reviews" => r \in G2
    BY <1>2, <1>3, <1>4, <2>2 DEF OfClient
  <2> QED
    BY <2>1, <2>2, <2>3
<1>6. p[1] \in G3
  BY <1>1, <1>2, <1>3, <1>4, <1>5
<1> QED
  BY <1>1, <1>3, <1>6

OldUsers == {x \in rows : x[1] = "users" /\ deleted[x] = "old"}
OldClients == {x \in rows : x[1] = "clients" /\ deleted[x] = "old"}
Left == Kept(OldUsers, points)
ErasedRows == OldUsers \cup Gone(OldClients, Left)

\* What a purge makes of the tables.
LEMMA PurgeIs ==
  ASSUME Purge
  PROVE  /\ rows' = rows \ ErasedRows
         /\ points' = Kept(Gone(OldClients, Left), Left)
         /\ deleted' = [x \in Erasable |-> IF x \in ErasedRows THEN "no" ELSE deleted[x]]
         /\ UNCHANGED <<signup, open, acts>>
<1>1. Gone(OldUsers, points) = OldUsers
  BY UsersGone DEF OldUsers
<1>2. \E users \in {Gone(OldUsers, points)} :
      \E left \in {Kept(users, points)} :
      \E clients \in {Gone({x \in rows : x[1] = "clients" /\ deleted[x] = "old"}, left)} :
        /\ rows' = rows \ (users \cup clients)
        /\ points' = Kept(clients, left)
        /\ deleted' = [x \in Erasable |-> IF x \in users \cup clients THEN "no" ELSE deleted[x]]
        /\ UNCHANGED <<signup, open, acts>>
  BY DEF Purge, OldUsers
<1>3. \E left \in {Left} :
      \E clients \in {Gone(OldClients, left)} :
        /\ rows' = rows \ (OldUsers \cup clients)
        /\ points' = Kept(clients, left)
        /\ deleted' = [x \in Erasable |-> IF x \in OldUsers \cup clients THEN "no" ELSE deleted[x]]
        /\ UNCHANGED <<signup, open, acts>>
  BY <1>1, <1>2 DEF OldClients, Left
<1> QED
  BY <1>3 DEF ErasedRows

\* A row is erased with its user row's own deletion or with that of its client.
LEMMA ErasedIs ==
  ASSUME Structure, NEW r \in ErasedRows
  PROVE  \/ r \in OldUsers /\ r[1] = "users" /\ deleted[r] = "old"
         \/ /\ r \in Gone(OldClients, Left) /\ r[1] # "users"
            /\ Client(r[2]) \in OldClients /\ deleted[Client(r[2])] = "old"
<1>1. Whole(Left)
  BY DEF Structure, Whole, OwnRow, Left, Kept
<1>2. \A x \in OldClients : x[1] = "clients" /\ x = Client(x[2])
  BY DEF OldClients, Structure, Client
<1>3. \A x \in Gone(OldClients, Left) : Client(x[2]) \in OldClients /\ x[1] # "users"
  BY <1>1, <1>2, OwnGone
<1> QED
  BY <1>3 DEF ErasedRows, OldUsers, OldClients

LEMMA OldClientsGo == OldClients \subseteq Gone(OldClients, Left)
  BY GoneDescends DEF Descends

\* A row that stays keeps what it must name.
LEMMA StaysHeld ==
  ASSUME Structure, NEW p \in points, Has(p, "cascade"), p[1] \notin ErasedRows
  PROVE  p \in Kept(Gone(OldClients, Left), Left)
<1>1. p[1][1] # "clients" /\ p[2][1] # "users"
  BY CascadeKeys DEF Has, OfClient
<1>2. p \in Left
  BY <1>1 DEF Left, Kept, ErasedRows, OldUsers
<1>3. p[2] \notin Gone(OldClients, Left)
  <2>1. \A x \in OldClients : x[1] = "clients"
    BY DEF OldClients
  <2>2. p[2] \in Gone(OldClients, Left) => p[1] \in Gone(OldClients, Left)
    BY <1>2, <2>1, GoneIsClosed
  <2> QED
    BY <2>2 DEF ErasedRows
<1> QED
  BY <1>2, <1>3 DEF Kept, ErasedRows

LEMMA PurgeStructure ==
  ASSUME Structure, Purge
  PROVE  Structure'
<1>0. rows' = rows \ ErasedRows /\ points' = Kept(Gone(OldClients, Left), Left)
  BY PurgeIs
<1>1. rows' \subseteq Tables \X Users
  BY <1>0 DEF Structure
<1>2. points' \subseteq points /\ points' \subseteq rows' \X rows'
  <2>1. points' \subseteq points
    BY <1>0 DEF Kept, Left
  <2>2. ASSUME NEW p \in points' PROVE p[1] \notin ErasedRows /\ p[2] \notin ErasedRows
    BY <1>0, <2>2 DEF Kept, Left, ErasedRows
  <2>3. ASSUME NEW p \in points' PROVE p \in rows' \X rows'
    <3>1. p \in rows \X rows
      BY <2>1, <2>3 DEF Structure
    <3> QED
      BY <1>0, <2>2, <3>1
  <2> QED
    BY <2>1, <2>3
<1>3. \A p \in points' : Linked(p) /\ OwnRow(p)
  BY <1>2 DEF Structure
<1>4. ASSUME NEW r \in rows'
      PROVE  OfAccount(r) /\ Held(r, points')
  <2>1. OfAccount(r) /\ Held(r, points)
    BY <1>0, <1>4 DEF Structure
  <2>2. ASSUME NEW k \in Keys, k[1] = r[1], k[3] = "cascade"
        PROVE  \E p \in points' : p[1] = r /\ p[2][1] = k[2]
    <3>1. PICK p \in points : p[1] = r /\ p[2][1] = k[2]
      BY <2>1, <2>2 DEF Held
    <3>2. Has(p, "cascade")
      BY <2>2, <3>1, KeyShape DEF Has
    <3>3. p \in points'
      BY <1>0, <1>4, <3>1, <3>2, StaysHeld
    <3> QED
      BY <3>1, <3>3
  <2> QED
    BY <2>1, <2>2 DEF Held
<1>5. ASSUME NEW a \in Accounts, Client(a) \in rows', NEW t \in Welcome
      PROVE  <<t, a>> \in rows'
  <2> DEFINE r == <<t, a>>
  <2>1. r \in rows /\ r[1] # "users" /\ r[2] = a
    BY <1>0, <1>5 DEF Structure, Welcome
  <2> HIDE DEF r
  <2>2. r \notin ErasedRows
    BY <1>0, <1>5, <2>1, ErasedIs, OldClientsGo DEF ErasedRows
  <2>3. r \in rows'
    BY <1>0, <2>1, <2>2
  <2> QED
    BY <2>3 DEF r
<1>6. \A a \in Accounts : Client(a) \in rows' => Welcome \X {a} \subseteq rows'
  BY <1>5
<1>7. OneAddress(rows')
  BY <1>0 DEF Structure, OneAddress
<1> QED
  BY <1>1, <1>2, <1>3, <1>4, <1>6, <1>7 DEF Structure

\* No user with a request open is erased.
LEMMA PurgeStatus ==
  ASSUME IInv, Purge
  PROVE  Status'
<1>1. Structure /\ Status
  BY DEF IInv
<1>2. /\ rows' = rows \ ErasedRows
      /\ deleted' = [x \in Erasable |-> IF x \in ErasedRows THEN "no" ELSE deleted[x]]
      /\ UNCHANGED <<signup, open, acts>>
  BY PurgeIs
<1>3. \A u \in open : User(u) \in Erasable /\ User(u) \notin ErasedRows
  <2> SUFFICES ASSUME NEW u \in open
               PROVE  User(u) \in Erasable /\ User(u) \notin ErasedRows
    OBVIOUS
  <2>1. User(u)[1] = "users" /\ deleted[User(u)] # "old" /\ User(u) \in Erasable
    BY <1>1 DEF Status, User, Erasable
  <2> QED
    BY <1>1, <2>1, ErasedIs
<1> QED
  BY <1>1, <1>2, <1>3 DEF Status

-----------------------------------------------------------------------------
(* The invariant.                                                          *)

\* Nothing but the purge erases, and only the purge and the additions change the tables.
LEMMA OtherStructure ==
  ASSUME IInv, UNCHANGED <<rows, points>>
  PROVE  Structure'
  BY DEF IInv, Structure

LEMMA OtherStatus ==
  ASSUME IInv, rows \subseteq rows', open' \subseteq open, acts' \in 0 .. MaxActs,
         signup' \in [Accounts -> {"new", "checked", "flushed", "done"}],
         deleted' = deleted \/ \E x \in Erasable \cap rows : deleted' = [deleted EXCEPT ![x] = "fresh"]
  PROVE  Status'
<1>1. Status
  BY DEF IInv
<1>2. deleted' \in [Erasable -> {"no", "fresh", "old"}]
  BY <1>1 DEF Status
<1>3. \A x \in Erasable : deleted'[x] # "no" => x \in rows'
  BY <1>1 DEF Status
<1>4. \A u \in open' : User(u) \in rows' /\ deleted'[User(u)] # "old"
  <2>1. \A u \in Users : User(u) \in Erasable
    BY DEF User, Erasable
  <2>2. \A u \in open' : User(u) \in rows /\ deleted[User(u)] # "old" /\ User(u) \in Erasable
    BY <1>1, <2>1 DEF Status
  <2>3. \A x \in Erasable : deleted'[x] = deleted[x] \/ deleted'[x] = "fresh"
    BY <1>1 DEF Status
  <2> QED
    BY <2>2, <2>3
<1> QED
  BY <1>1, <1>2, <1>3, <1>4 DEF Status

LEMMA SignupStep ==
  ASSUME IInv, NEW a \in Accounts,
         SignupCheck(a) \/ SignupFlush(a) \/ SignupCommit(a) \/ Connect(a) \/ Draft(a)
  PROVE  IInv'
<1>1. Structure'
  BY CommitStructure, ConnectStructure, DraftStructure, OtherStructure
     DEF SignupCheck, SignupFlush, IInv
<1>2. signup' \in [Accounts -> {"new", "checked", "flushed", "done"}]
  BY DEF IInv, Status, SignupCheck, SignupFlush, SignupCommit, Connect, Draft
<1>3. rows \subseteq rows' /\ UNCHANGED <<deleted, open, acts>>
  BY DEF SignupCheck, SignupFlush, SignupCommit, Connect, Draft
<1>4. acts' \in 0 .. MaxActs
  BY <1>3 DEF IInv, Status
<1>5. Status'
  BY <1>2, <1>3, <1>4, OtherStatus
<1> QED
  BY <1>1, <1>5 DEF IInv

LEMMA ActType ==
  ASSUME IInv, NEW u \in Users, Act(u)
  PROVE  acts' \in 0 .. MaxActs /\ open' \subseteq open
  BY AccountsAssumption DEF IInv, Status, Act

LEMMA RequestStep ==
  ASSUME IInv, NEW u \in Users,
         \/ Open(u) \/ Read(u) \/ DeleteMe(u)
         \/ \E a \in Accounts : Approve(u, a) \/ Regenerate(u, a) \/ Administer(u, a)
         \/ \E x \in Erasable : SoftDelete(u, x)
  PROVE  IInv'
<1>1. CASE Open(u)
  BY <1>1, OtherStructure DEF IInv, Status, Open
<1>2. CASE Read(u)
  BY <1>2, OtherStructure DEF IInv, Status, Read
<1>3. CASE DeleteMe(u)
  <2>1. User(u) \in Erasable \cap rows
    BY <1>3, ActingUser DEF DeleteMe, User, Erasable
  <2>2. Status'
    BY <1>3, <2>1, ActType, OtherStatus DEF DeleteMe, IInv, Status
  <2> QED
    BY <1>3, <2>2, OtherStructure DEF DeleteMe, IInv
<1>4. ASSUME NEW a \in Accounts, Approve(u, a) \/ Regenerate(u, a) \/ Administer(u, a)
      PROVE  IInv'
  <2>1. Structure'
    BY <1>4, ApproveStructure, RegenerateStructure, AuditStructure DEF Administer, Users
  <2>2. rows \subseteq rows' /\ UNCHANGED <<deleted, signup>> /\ Act(u)
    BY <1>4 DEF Approve, Regenerate, Administer, Audit
  <2>3. Status'
    BY <2>2, ActType, OtherStatus DEF IInv, Status
  <2> QED
    BY <2>1, <2>3 DEF IInv
<1>5. ASSUME NEW x \in Erasable, SoftDelete(u, x)
      PROVE  IInv'
  <2>1. x[2] \in Users
    BY DEF Erasable, Users
  <2>2. Structure'
    BY <1>5, <2>1, AuditStructure DEF SoftDelete
  <2>3. /\ rows \subseteq rows' /\ UNCHANGED signup /\ Act(u) /\ x \in Erasable \cap rows
        /\ deleted' = [deleted EXCEPT ![x] = "fresh"]
    BY <1>5 DEF SoftDelete, Audit
  <2>4. Status'
    BY <2>3, ActType, OtherStatus DEF IInv, Status
  <2> QED
    BY <2>2, <2>4 DEF IInv
<1> QED
  BY <1>1, <1>2, <1>3, <1>4, <1>5

LEMMA AgeStep ==
  ASSUME IInv, NEW x \in Erasable, Age(x)
  PROVE  IInv'
<1>1. Status'
  BY DEF IInv, Status, Age
<1> QED
  BY <1>1, OtherStructure DEF Age, IInv

LEMMA Invariant == Spec => []IInv
<1>1. IInv /\ [Next]_vars => IInv'
  <2>1. ASSUME IInv, UNCHANGED vars PROVE IInv'
    BY <2>1, OtherStructure DEF vars, IInv, Status
  <2>2. ASSUME IInv, Purge PROVE IInv'
    BY <2>2, PurgeStructure, PurgeStatus DEF IInv
  <2> QED
    BY <2>1, <2>2, SignupStep, RequestStep, AgeStep DEF Next
<1> QED
  BY <1>1, InitInv, PTL DEF Spec

\* The variables always have their types: a reference never leads to a row that is not there.
THEOREM TypeCorrect == Spec => []TypeOK
  BY Invariant, InvType, PTL

\* Whatever signups overlap, whoever deletes whom and whatever the purge takes, the rows that
\* stay have what they must name, an account has what its signup gave it, and an address
\* is one user's.
THEOREM AccountsStayWhole == Spec => []WholeAccounts
<1>1. IInv => WholeAccounts
  BY DEF IInv, Structure, WholeAccounts, Held, OneAddress
<1> QED
  BY <1>1, Invariant, PTL

\* The purge erases a user only for its own deletion thirty days ago, and any other row only
\* for that of its client, however long the chain of references.
THEOREM OnlyDeletedIsErased == Spec => ErasedWasDeleted
<1> DEFINE A == \A r \in rows \ rows' :
                  deleted[IF r[1] = "users" THEN r ELSE Client(r[2])] = "old"
<1>1. IInv /\ [Next]_vars => A
  <2> SUFFICES ASSUME IInv, [Next]_vars PROVE A
    OBVIOUS
  <2>1. CASE Purge
    BY <2>1, PurgeIs, ErasedIs DEF IInv
  <2>2. CASE ~Purge
    <3>1. rows \subseteq rows'
      BY <2>2 DEF Next, vars, SignupCheck, SignupFlush, SignupCommit, Connect, Draft, Open,
         Read, DeleteMe, Approve, Regenerate, Administer, SoftDelete, Audit, Age
    <3> QED
      BY <3>1
  <2> QED
    BY <2>1, <2>2
<1> HIDE DEF A
<1>2. IInv /\ [Next]_vars => [A]_vars
  BY <1>1
<1>3. Spec => [][A]_vars
  BY <1>2, Invariant, PTL DEF Spec
<1> QED
  BY <1>3 DEF ErasedWasDeleted, A

-----------------------------------------------------------------------------
(* What keeps a purge from erasing.                                        *)

LEMMA NoActionKeys ==
  ASSUME NEW x, NEW y
  PROVE  <<x, y, "no action">> \in Keys <=> y = "users" /\ x \in {"responses", "regenerations"}
  BY DEF Keys, ClientKeys, ReviewKeys, ChoiceKeys, LogKeys

\* One of the two statements of a purge fails, and both are rolled back.
Refused == Blocked(OldUsers, points) \/ Blocked(Gone(OldClients, Left), Left)

LEMMA ReferredIsRefused ==
  ASSUME Referred PROVE Refused
<1>1. PICK u \in Users, p \in points :
        Expired(User(u)) /\ p[2] = User(u) /\ p[1][1] \in {"responses", "regenerations"}
  BY DEF Referred
<1>2. p[2] \in OldUsers /\ p[1] \notin OldUsers
  BY <1>1 DEF OldUsers, Expired, User
<1>3. Has(p, "no action")
  <2>1. p[2][1] = "users"
    BY <1>1 DEF User
  <2> QED
    BY <1>1, <2>1, NoActionKeys DEF Has
<1> QED
  BY <1>2, <1>3 DEF Refused, Blocked

LEMMA RefusedIsReferred ==
  ASSUME Structure, Refused PROVE Referred
<1>1. ASSUME NEW p, Has(p, "no action")
      PROVE  p[2][1] = "users" /\ p[1][1] \in {"responses", "regenerations"}
  BY <1>1, NoActionKeys DEF Has
<1>2. CASE Blocked(OldUsers, points)
  <2>1. PICK p \in points : p[2] \in OldUsers /\ Has(p, "no action")
    BY <1>2 DEF Blocked
  <2>2. \A x \in OldUsers : x \in Tables \X Users /\ x[1] = "users"
    BY DEF OldUsers, Structure
  <2>3. \A x \in OldUsers : x[2] \in Users /\ x = User(x[2])
    BY <2>2 DEF User
  <2>4. PICK u \in Users : p[2] = User(u)
    BY <2>1, <2>3
  <2> QED
    BY <1>1, <2>1, <2>4 DEF Referred, Expired, OldUsers
<1>3. CASE Blocked(Gone(OldClients, Left), Left)
  <2>1. PICK p \in Left : p[2] \in Gone(OldClients, Left) /\ Has(p, "no action")
    BY <1>3 DEF Blocked
  <2>2. Whole(Left)
    BY DEF Structure, Whole, OwnRow, Left, Kept
  <2>3. \A x \in OldClients : x[1] = "clients" /\ x = Client(x[2])
    BY DEF OldClients, Structure, Client
  <2>4. p[2][1] # "users"
    BY <2>1, <2>2, <2>3, OwnGone
  <2> QED
    BY <1>1, <2>1, <2>4
<1> QED
  BY <1>2, <1>3 DEF Refused

\* A purge is refused for one reason: a user that is to be erased has validated a reply or
\* asked for another.  Neither the audit log nor what goes with a client ever refuses it.
THEOREM OnlyRepliesRefuse == Spec => [](Refused <=> Referred)
<1>1. IInv => (Refused <=> Referred)
  BY ReferredIsRefused, RefusedIsReferred DEF IInv
<1> QED
  BY <1>1, Invariant, PTL

\* A purge that is not refused leaves nothing that was deleted thirty days before.
THEOREM PurgeLeavesNothing == Spec => [][Purge => \A x \in Erasable : ~Expired(x)']_vars
<1> DEFINE A == Purge => \A x \in Erasable : ~Expired(x)'
<1>1. IInv /\ [Next]_vars => A
  <2> SUFFICES ASSUME IInv, Purge, NEW x \in Erasable, Expired(x)' PROVE FALSE
    OBVIOUS
  <2>1. /\ rows' = rows \ ErasedRows
        /\ deleted' = [y \in Erasable |-> IF y \in ErasedRows THEN "no" ELSE deleted[y]]
    BY PurgeIs
  <2>2. x \in rows /\ x \notin ErasedRows /\ deleted[x] = "old"
    BY <2>1 DEF Expired
  <2>3. x[1] = "users" \/ x[1] = "clients"
    BY DEF Erasable
  <2>4. x \in OldUsers \/ x \in OldClients
    BY <2>2, <2>3 DEF OldUsers, OldClients
  <2> QED
    BY <2>2, <2>4, OldClientsGo DEF ErasedRows
<1> HIDE DEF A
<1>2. IInv /\ [Next]_vars => [A]_vars
  BY <1>1
<1>3. Spec => [][A]_vars
  BY <1>2, Invariant, PTL DEF Spec
<1> QED
  BY <1>3 DEF A
=============================================================================
