--------------------------- MODULE MigrationFiles ---------------------------
(***************************************************************************)
(* The files in config/typeorm/migrations, and what their statements do to *)
(* the structure of a PostgreSQL schema.  Of the columns of a new table    *)
(* only those are named that a statement refers to later; types, primary   *)
(* keys and the values of defaults are left out.                           *)
(***************************************************************************)
EXTENDS Sequences, Naturals, SequencesExt

-------------------------------------------------------------------------------
(* Schema and statements *)

\* A schema is a set of tables, columns, indexes and foreign keys.
Table(t) == <<"table", t>>
Column(t, c) == <<"column", t, c>>
Index(t, c) == <<"index", t, c>>
ForeignKey(t, c, u) == <<"key", t, c, u>>

\* What has to be there before x can be added.
Needs(x) ==
    CASE x[1] = "table" -> {}
      [] x[1] = "column" -> {Table(x[2])}
      [] x[1] = "index" -> {Column(x[2], x[3])}
      [] x[1] = "key" -> {Column(x[2], x[3]), Table(x[4])}

\* What goes with x when it is dropped.
GoesWith(S, x) ==
    CASE x[1] = "table" -> {y \in S : y[2] = x[2]}
      [] x[1] = "column" -> {y \in S : Len(y) > 2 /\ y[2] = x[2] /\ y[3] = x[3]}
      [] OTHER -> {x}

CreateTable(t, columns) ==
    [verb |-> "add", what |-> {Table(t)} \cup {Column(t, c) : c \in columns}]
Add(x) == [verb |-> "add", what |-> {x}]
Drop(x) == [verb |-> "drop", what |-> {x}]
SetDefault(t, c) == [verb |-> "alter", what |-> {Column(t, c)}]

\* The database takes statement s in schema S: nothing is added twice or before
\* what it stands on, nothing is dropped or altered that is not there, and no
\* table is dropped while a key of another table refers to it.
Accepts(S, s) ==
    CASE s.verb = "add" -> /\ s.what \cap S = {}
                           /\ \A x \in s.what : Needs(x) \subseteq S \cup s.what
      [] s.verb = "alter" -> s.what \subseteq S
      [] s.verb = "drop" ->
            /\ s.what \subseteq S
            /\ \A x \in s.what, k \in S :
                  x[1] = "table" /\ k[1] = "key" /\ k[4] = x[2] => k[2] = x[2]

After(S, s) ==
    CASE s.verb = "add" -> S \cup s.what
      [] s.verb = "alter" -> S
      [] s.verb = "drop" -> S \ UNION {GoesWith(S, x) : x \in s.what}

\* A list of statements on schema S: what it makes of S, and whether every
\* statement was accepted.
Outcome(S, statements) ==
    LET after[k \in 0 .. Len(statements)] ==
            IF k = 0 THEN [ok |-> TRUE, schema |-> S]
            ELSE LET before == after[k - 1]
                 IN  [ok |-> before.ok /\ Accepts(before.schema, statements[k]),
                      schema |-> After(before.schema, statements[k])]
    IN  after[Len(statements)]

-------------------------------------------------------------------------------
(* The files *)

Migration1716983210311 ==
    [up   |-> <<CreateTable("admin_audit_logs", {})>>,
     down |-> <<Drop(Table("admin_audit_logs"))>>]

Migration1717421099133 ==
    [up   |-> <<CreateTable("additional_wage", {"type", "request_id", "member_id"}),
                Add(Index("additional_wage", "type")),
                CreateTable("additional_wage_changed_log",
                            {"updated_by_id", "additional_wage_id", "wage_history_id"}),
                CreateTable("extra_wage_history", {"admin_id", "extra_wage_id"}),
                CreateTable("extra_wage", {"worker_id"}),
                Add(Column("team_member", "wage_base_amount")),
                Add(Column("housekeeping_request", "wage_base_amount")),
                Add(Column("wage_history", "origin_amount")),
                Add(ForeignKey("additional_wage", "request_id", "housekeeping_request")),
                Add(ForeignKey("additional_wage", "member_id", "team_member")),
                Add(ForeignKey("additional_wage_changed_log", "updated_by_id", "admin")),
                Add(ForeignKey("additional_wage_changed_log", "additional_wage_id",
                               "additional_wage")),
                Add(ForeignKey("additional_wage_changed_log", "wage_history_id",
                               "wage_history")),
                Add(ForeignKey("extra_wage_history", "admin_id", "admin")),
                Add(ForeignKey("extra_wage_history", "extra_wage_id", "extra_wage")),
                Add(ForeignKey("extra_wage", "worker_id", "worker"))>>,
     down |-> <<Drop(ForeignKey("extra_wage", "worker_id", "worker")),
                Drop(ForeignKey("extra_wage_history", "extra_wage_id", "extra_wage")),
                Drop(ForeignKey("extra_wage_history", "admin_id", "admin")),
                Drop(ForeignKey("additional_wage_changed_log", "wage_history_id",
                                "wage_history")),
                Drop(ForeignKey("additional_wage_changed_log", "additional_wage_id",
                                "additional_wage")),
                Drop(ForeignKey("additional_wage_changed_log", "updated_by_id", "admin")),
                Drop(ForeignKey("additional_wage", "member_id", "team_member")),
                Drop(ForeignKey("additional_wage", "request_id", "housekeeping_request")),
                Drop(Column("wage_history", "origin_amount")),
                Drop(Column("housekeeping_request", "wage_base_amount")),
                Drop(Column("team_member", "wage_base_amount")),
                Drop(Table("extra_wage")),
                Drop(Table("extra_wage_history")),
                Drop(Table("additional_wage_changed_log")),
                Drop(Index("additional_wage", "type")),
                Drop(Table("additional_wage"))>>]

Migration1718332931885 ==
    [up   |-> <<CreateTable("operation_flag", {})>>,
     down |-> <<Drop(Table("operation_flag"))>>]

Migration1718606576013 ==
    [up   |-> <<Add(Column("users", "is_bypass_sign_in")),
                Add(Column("worker", "is_bypass_sign_in"))>>,
     down |-> <<Drop(Column("worker", "is_bypass_sign_in")),
                Drop(Column("users", "is_bypass_sign_in"))>>]

Migration1719317207991 ==
    [up   |-> <<Add(Column("housekeeping_request", "seq"))>>,
     down |-> <<Drop(Column("housekeeping_request", "seq"))>>]

Migration1719454286861 ==
    [up   |-> <<CreateTable("subscription_two_day_exception", {})>>,
     down |-> <<Drop(Table("subscription_two_day_exception"))>>]

Migration1719467155766 ==
    [up   |-> <<Add(Column("users", "is_blocked"))>>,
     down |-> <<Drop(Column("users", "is_blocked"))>>]

Migration1719990887773 ==
    [up   |-> <<CreateTable("matching_fail", {})>>,
     down |-> <<Drop(Table("matching_fail"))>>]

Migration1721052634975 ==
    [up   |-> <<Add(Column("operation_flag", "phone_number"))>>,
     down |-> <<Drop(Column("operation_flag", "phone_number"))>>]

Migration1721186592958 ==
    [up   |-> <<Add(Column("admin", "signed_up_at")),
                Add(Column("users", "signed_up_at")),
                Add(Column("worker", "signed_up_at"))>>,
     down |-> <<Drop(Column("worker", "signed_up_at")),
                Drop(Column("users", "signed_up_at")),
                Drop(Column("admin", "signed_up_at"))>>]

Migration1721639237667 ==
    [up   |-> <<Add(Column("users", "sigungu_id"))>>,
     down |-> <<Drop(Column("users", "sigungu_id"))>>]

Migration1721897537432 ==
    [up   |-> <<Add(Column("vendor_settlement", "serviced_at")),
                Add(Column("vendor_settlement", "service_price")),
                Add(Column("vendor_settlement", "payment_amount")),
                Add(Column("vendor_settlement", "reference_id"))>>,
     down |-> <<Drop(Column("vendor_settlement", "reference_id")),
                Drop(Column("vendor_settlement", "payment_amount")),
                Drop(Column("vendor_settlement", "service_price")),
                Drop(Column("vendor_settlement", "serviced_at"))>>]

Migration1723603163916 ==
    [up   |-> <<Add(Column("order", "agreement_consulting")),
                SetDefault("vendor_settlement", "serviced_at")>>,
     down |-> <<SetDefault("vendor_settlement", "serviced_at"),
                Drop(Column("order", "agreement_consulting"))>>]

Migration1724046155950 ==
    [up   |-> <<CreateTable("banner", {}),
                CreateTable("pop_up", {}),
                CreateTable("organizing_whole_request", {"location_detail_id", "user_id", "worker_id"}),
                CreateTable("organizing_whole_member", {"worker_id", "organizing_whole_request_id", "wage_admin_id"}),
                CreateTable("update_logs", {}),
                Add(Column("users", "not_disturb_mode")),
                Add(Column("users", "is_test_account")),
                Add(Column("location_detail", "parking_availability")),
                Add(Column("location_detail", "parking_comment")),
                Add(Column("worker", "is_test_account")),
                Add(Column("worker", "meta_not_disturb_mode")),
                Add(Column("order", "organizing_whole_order_type")),
                Add(Column("order", "additional_amount_reason")),
                Add(Column("order", "organizing_whole_request_id")),
                Add(Column("order", "agreement_consulting")),
                Add(Column("additional_wage", "whole_member_id")),
                Add(Column("wage_history", "whole_member_id")),
                SetDefault("vendor_settlement", "serviced_at"),
                Add(ForeignKey("order", "organizing_whole_request_id", "organizing_whole_request")),
                Add(ForeignKey("organizing_whole_request", "location_detail_id", "location_detail")),
                Add(ForeignKey("organizing_whole_request", "user_id", "users")),
                Add(ForeignKey("organizing_whole_request", "worker_id", "worker")),
                Add(ForeignKey("organizing_whole_member", "worker_id", "worker")),
                Add(ForeignKey("organizing_whole_member", "organizing_whole_request_id", "organizing_whole_request")),
                Add(ForeignKey("organizing_whole_member", "wage_admin_id", "admin")),
                Add(ForeignKey("additional_wage", "whole_member_id", "organizing_whole_member")),
                Add(ForeignKey("wage_history", "whole_member_id", "organizing_whole_member"))>>,
     down |-> <<Drop(ForeignKey("wage_history", "whole_member_id", "organizing_whole_member")),
                Drop(ForeignKey("additional_wage", "whole_member_id", "organizing_whole_member")),
                Drop(ForeignKey("organizing_whole_member", "wage_admin_id", "admin")),
                Drop(ForeignKey("organizing_whole_member", "organizing_whole_request_id", "organizing_whole_request")),
                Drop(ForeignKey("organizing_whole_member", "worker_id", "worker")),
                Drop(ForeignKey("organizing_whole_request", "worker_id", "worker")),
                Drop(ForeignKey("organizing_whole_request", "user_id", "users")),
                Drop(ForeignKey("organizing_whole_request", "location_detail_id", "location_detail")),
                Drop(ForeignKey("order", "organizing_whole_request_id", "organizing_whole_request")),
                SetDefault("vendor_settlement", "serviced_at"),
                Drop(Column("wage_history", "whole_member_id")),
                Drop(Column("additional_wage", "whole_member_id")),
                Drop(Column("order", "agreement_consulting")),
                Drop(Column("order", "organizing_whole_request_id")),
                Drop(Column("order", "additional_amount_reason")),
                Drop(Column("order", "organizing_whole_order_type")),
                Drop(Column("worker", "meta_not_disturb_mode")),
                Drop(Column("worker", "is_test_account")),
                Drop(Column("location_detail", "parking_comment")),
                Drop(Column("location_detail", "parking_availability")),
                Drop(Column("users", "is_test_account")),
                Drop(Column("users", "not_disturb_mode")),
                Drop(Table("update_logs")),
                Drop(Table("organizing_whole_member")),
                Drop(Table("organizing_whole_request")),
                Drop(Table("pop_up")),
                Drop(Table("banner"))>>]

\* The files in the order of the timestamps in their names.
Migrations ==
    <<Migration1716983210311, Migration1717421099133, Migration1718332931885,
      Migration1718606576013, Migration1719317207991, Migration1719454286861,
      Migration1719467155766, Migration1719990887773, Migration1721052634975,
      Migration1721186592958, Migration1721639237667, Migration1721897537432,
      Migration1723603163916, Migration1724046155950>>

\* What the files take for granted: the tables of the application.
BaseSchema ==
    {Table(t) : t \in {"team_member", "housekeeping_request", "wage_history", "admin",
                       "worker", "users", "vendor_settlement", "order",
                       "location_detail"}}

\* What each file brings into the schema.
Brings ==
    [f \in DOMAIN Migrations |->
        UNION {s.what : s \in {t \in Range(Migrations[f].up) : t.verb = "add"}}]

-------------------------------------------------------------------------------
(* What can be computed of the files.  There is no constant in this: TLC decides *)
(* it, whatever the instance, and the proofs about migrations start from it.     *)

Elements == BaseSchema \cup UNION {Brings[f] : f \in DOMAIN Migrations}

\* What a file takes for granted.
Takes ==
    [f \in DOMAIN Migrations |->
        ((UNION {Needs(x) : x \in Brings[f]}) \cup
         (UNION {s.what : s \in {t \in Range(Migrations[f].up) : t.verb = "alter"}}))
        \ Brings[f]]

\* What the first n statements of up have brought.
Brought(f, n) ==
    UNION {Migrations[f].up[k].what :
              k \in {j \in 1 .. n : Migrations[f].up[j].verb = "add"}}

\* What the first n statements of down have left of what the file brought.
Remains(f, n) ==
    Brings[f] \ UNION {GoesWith(Brings[f], x) :
                         x \in UNION {Migrations[f].down[k].what :
                                        k \in {j \in 1 .. n : Migrations[f].down[j].verb = "drop"}}}

\* The files are lists of statements about these elements.
Statement == [verb : {"add", "alter", "drop"}, what : SUBSET Elements]

StatementsAssumption ==
    Migrations \in Seq([up : Seq(Statement), down : Seq(Statement)])

\* An element is named by its kind, its table and, where it has one, its column.
ElementsAssumption ==
    \A x \in Elements : \/ x = Table(x[2])
                        \/ x = Column(x[2], x[3])
                        \/ x = Index(x[2], x[3])
                        \/ x = ForeignKey(x[2], x[3], x[4])

\* The statements of up are in an order in which they can be executed where there is
\* what the file takes; none drops anything.
UpAssumption ==
    \A f \in DOMAIN Migrations : \A n \in 1 .. Len(Migrations[f].up) :
        /\ Migrations[f].up[n].verb \in {"add", "alter"}
        /\ Accepts(Takes[f] \cup Brought(f, n - 1), Migrations[f].up[n])

\* Those of down too; they drop what up brought, and all of it.
DownAssumption ==
    \A f \in DOMAIN Migrations :
        /\ \A n \in 1 .. Len(Migrations[f].down) :
              LET s == Migrations[f].down[n]
              IN  /\ s.verb = "alter" \/ (s.verb = "drop" /\ s.what \subseteq Brings[f])
                  /\ Accepts(Takes[f] \cup Remains(f, n - 1), s)
        /\ Remains(f, Len(Migrations[f].down)) = {}

\* A file takes only what the application's tables and earlier files bring that bring
\* nothing twice; only the last file brings something that an earlier one brings.
OrderAssumption ==
    \A f \in DOMAIN Migrations :
        /\ Brings[f] # {} /\ Brings[f] \cap BaseSchema = {}
        /\ f # Len(Migrations) => \A g \in 1 .. (f - 1) : Brings[f] \cap Brings[g] = {}
        /\ Takes[f] \subseteq BaseSchema \cup
              UNION {Brings[g] : g \in {h \in 1 .. (f - 1) :
                        \A i \in DOMAIN Migrations \ {h} : Brings[h] \cap Brings[i] = {}}}

ASSUME FilesAssumption ==
    /\ StatementsAssumption /\ ElementsAssumption
    /\ UpAssumption /\ DownAssumption /\ OrderAssumption
=============================================================================
