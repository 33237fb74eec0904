------------------------------- MODULE Schema -------------------------------
(***************************************************************************)
(* The schema of the database, twice: as app/models.py declares it, and as *)
(* the chain of Alembic revisions in alembic/versions builds it, statement *)
(* by statement.  Operators only; Startup runs them.                       *)
(*                                                                         *)
(* A table is what its statements can conflict about or a later revision   *)
(* changes: the tables it refers to, with what ON DELETE does, its unique  *)
(* keys, and the columns added to it after its creation.  The columns it   *)
(* is created with, their types and the plain indexes are left out.        *)
(***************************************************************************)
EXTENDS Naturals, Sequences, SequencesExt, TLC

Cascade(tables) == [t \in tables |-> "CASCADE"]
SetNull(tables) == [t \in tables |-> "SET NULL"]

\* Almost every row belongs to a tenant and goes with it.
Owned == Cascade({"tenants"})

Table(refs, keys, columns) == [refs |-> refs, keys |-> keys, columns |-> columns]
Tables(names, refs) == [t \in names |-> Table(refs, {}, {})]

-----------------------------------------------------------------------------
(* models.py, section by section *)

TenderModels ==
    Tables({"vendors"}, Owned)
    @@ Tables({"tenders"}, Owned @@ SetNull({"projects", "vendors"}))
    @@ Tables({"boq_items", "tender_addenda"}, Owned @@ Cascade({"tenders"}))
    @@ Tables({"tender_bids", "reverse_auctions"},
              Owned @@ Cascade({"tenders"}) @@ SetNull({"vendors"}))
    @@ Tables({"auction_bids"}, Owned @@ Cascade({"reverse_auctions"}) @@ SetNull({"vendors"}))

ClaimModels ==
    Tables({"progress_claims", "final_accounts"}, Owned @@ SetNull({"projects", "vendors"}))
    @@ Tables({"payment_certificates"},
              Owned @@ SetNull({"projects", "vendors", "progress_claims"}))

SiteModels ==
    Tables({"consultants"}, Owned)
    @@ Tables({"submittals", "defects", "inspections", "site_diaries"},
              Owned @@ SetNull({"projects"}))

ProcurementModels ==
    ("cost_codes" :> Table(Owned, {"code"}, {}))
    @@ Tables({"purchase_requests"}, Owned @@ SetNull({"projects"}))
    @@ Tables({"rfqs"}, Owned @@ SetNull({"purchase_requests"}))
    @@ Tables({"goods_receipts"}, Owned @@ SetNull({"purchase_orders"}))

InvoiceModels ==
    ("e_invoices" :> Table(Owned @@ SetNull({"purchase_orders"}), {},
        {"document_type", "document_version", "currency", "exchange_rate", "supplier_tin",
         "supplier_reg_no", "supplier_sst", "supplier_msic", "buyer_tin", "buyer_reg_no",
         "buyer_name", "myinvois_status", "myinvois_uuid", "myinvois_long_id",
         "submission_uid", "validation_link", "myinvois_error", "submitted_at",
         "validated_at", "cancelled_at", "cancel_reason"}))
    @@ Tables({"e_invoice_lines"}, Owned @@ Cascade({"e_invoices"}))
    @@ ("myinvois_config" :> Table(Owned, {"tenant_id"}, {}))

ReportModels ==
    Tables({"cost_benchmarks"}, Owned @@ SetNull({"projects"}))
    @@ Tables({"rate_items", "report_templates", "email_reminders"}, Owned)

ChatModels ==
    Tables({"chat_sessions"}, Owned @@ SetNull({"users"}))
    @@ Tables({"chat_messages"}, Cascade({"chat_sessions"}))

PlatformModels ==
    ("tenants" :> Table(<<>>, {"name"}, {}))
    @@ ("tenant_modules" :> Table(Owned, {"tenant_id, module_name"}, {}))
    @@ Tables({"audit_log"}, SetNull({"tenants", "users"}))

CoreModels ==
    Tables({"projects", "resources", "budget_items", "subcontractors", "change_orders"}, Owned)
    @@ Tables({"tasks"}, Owned @@ SetNull({"projects"}))
    @@ ("purchase_orders" :> Table(Owned, {"po_number"}, {}))

FileModels ==
    ("file_uploads" :> Table(Owned, {},
        {"storage_bucket", "checksum_sha256", "ingest_status", "extracted_data",
         "ingested_entity_type", "ingested_entity_id", "ingested_at"}))
    @@ Tables({"raw_documents"}, Owned @@ SetNull({"file_uploads"}))

\* Mutant: addresses are not unique.
UserModelsNoKey == "users" :> Table(SetNull({"tenants"}), {}, {})

UserModels == "users" :> Table(SetNull({"tenants"}), {"email"}, {})

\* Base.metadata
Declared ==
    TenderModels @@ ClaimModels @@ SiteModels @@ ProcurementModels @@ InvoiceModels
    @@ ReportModels @@ ChatModels @@ PlatformModels @@ CoreModels @@ FileModels @@ UserModels

-----------------------------------------------------------------------------
(* Statements *)

\* `columns' is what an ALTER adds or drops, `bare' those of them that are NOT NULL and
\* have no server default.
Statement(kind, table, def, columns, bare) ==
    [kind |-> kind, table |-> table, def |-> def, columns |-> columns, bare |-> bare]

NoTable == Table(<<>>, {}, {})

CreateTable(table, def) == Statement("create", table, def, {}, {})
DropTable(table) == Statement("drop", table, NoTable, {}, {})
AddColumns(table, columns, bare) == Statement("add", table, NoTable, columns, bare)
DropColumns(table, columns) == Statement("remove", table, NoTable, columns, {})

\* op.create_table for each of the names in turn, op.drop_table likewise.
CreateTables(names, refs) == [i \in DOMAIN names |-> CreateTable(names[i], Table(refs, {}, {}))]
DropTables(names) == [i \in DOMAIN names |-> DropTable(names[i])]

\* The database accepts the statement: a table can only refer to tables that are there,
\* is dropped only when nothing refers to it, and rows that are there need a value for a
\* new column.
Accepts(tables, filled, s) ==
    CASE s.kind = "create" -> /\ s.table \notin DOMAIN tables
                              /\ DOMAIN s.def.refs \subseteq DOMAIN tables
      [] s.kind = "drop" -> /\ s.table \in DOMAIN tables
                            /\ \A t \in DOMAIN tables : s.table \notin DOMAIN tables[t].refs
      [] s.kind = "add" -> /\ s.table \in DOMAIN tables
                           /\ s.columns \cap tables[s.table].columns = {}
                           /\ filled => s.bare = {}
      [] s.kind = "remove" -> /\ s.table \in DOMAIN tables
                              /\ s.columns \subseteq tables[s.table].columns

Execute(tables, s) ==
    CASE s.kind = "create" -> (s.table :> s.def) @@ tables
      [] s.kind = "drop" -> [t \in DOMAIN tables \ {s.table} |-> tables[t]]
      [] s.kind = "add" -> [tables EXCEPT ![s.table].columns = @ \cup s.columns]
      [] s.kind = "remove" -> [tables EXCEPT ![s.table].columns = @ \ s.columns]

-----------------------------------------------------------------------------
(* alembic/versions: upgrade() and downgrade() of each revision *)

\* 72f88117e00d
InitialUpgrade ==
    <<CreateTable("tenants", Table(<<>>, {"name"}, {}))>>
    \o CreateTables(<<"budget_items", "change_orders", "file_uploads", "projects">>, Owned)
    \o <<CreateTable("purchase_orders", Table(Owned, {"po_number"}, {}))>>
    \o CreateTables(<<"resources", "subcontractors">>, Owned)
    \o <<CreateTable("users", Table(SetNull({"tenants"}), {"email"}, {}))>>
    \o CreateTables(<<"audit_log">>, SetNull({"tenants", "users"}))
    \o CreateTables(<<"tasks">>, Owned @@ SetNull({"projects"}))

InitialDowngrade ==
    DropTables(<<"tasks", "audit_log", "users", "subcontractors", "resources",
                 "purchase_orders", "projects", "file_uploads", "change_orders",
                 "budget_items", "tenants">>)

\* 15f256465248: what refers to nothing of this revision, then what does.
BrdRoots ==
    CreateTables(<<"consultants">>, Owned)
    \o <<CreateTable("cost_codes", Table(Owned, {"code"}, {}))>>
    \o CreateTables(<<"vendors">>, Owned)
    \o CreateTables(<<"defects">>, Owned @@ SetNull({"projects"}))
    \o CreateTables(<<"e_invoices", "goods_receipts">>, Owned @@ SetNull({"purchase_orders"}))
    \o CreateTables(<<"inspections">>, Owned @@ SetNull({"projects"}))

BrdDependents ==
    CreateTables(<<"progress_claims">>, Owned @@ SetNull({"projects", "vendors"}))
    \o CreateTables(<<"purchase_requests", "site_diaries", "submittals">>,
                    Owned @@ SetNull({"projects"}))
    \o CreateTables(<<"tenders">>, Owned @@ SetNull({"projects", "vendors"}))
    \o CreateTables(<<"boq_items">>, Owned @@ Cascade({"tenders"}))
    \o CreateTables(<<"payment_certificates">>,
                    Owned @@ SetNull({"progress_claims", "projects", "vendors"}))
    \o CreateTables(<<"rfqs">>, Owned @@ SetNull({"purchase_requests"}))
    \o CreateTables(<<"tender_bids">>, Owned @@ Cascade({"tenders"}) @@ SetNull({"vendors"}))

BrdDowngrade ==
    DropTables(<<"tender_bids", "rfqs", "payment_certificates", "boq_items", "tenders",
                 "submittals", "site_diaries", "purchase_requests", "progress_claims",
                 "inspections", "goods_receipts", "e_invoices", "defects", "vendors",
                 "cost_codes", "consultants">>)

\* 758b615dcf53
ModulesUpgrade ==
    CreateTables(<<"email_reminders", "rate_items", "report_templates">>, Owned)
    \o CreateTables(<<"chat_sessions">>, Owned @@ SetNull({"users"}))
    \o CreateTables(<<"cost_benchmarks">>, Owned @@ SetNull({"projects"}))
    \o CreateTables(<<"final_accounts">>, Owned @@ SetNull({"projects", "vendors"}))
    \o CreateTables(<<"chat_messages">>, Cascade({"chat_sessions"}))
    \o CreateTables(<<"reverse_auctions">>,
                    Owned @@ Cascade({"tenders"}) @@ SetNull({"vendors"}))
    \o CreateTables(<<"tender_addenda">>, Owned @@ Cascade({"tenders"}))
    \o CreateTables(<<"auction_bids">>,
                    Owned @@ Cascade({"reverse_auctions"}) @@ SetNull({"vendors"}))

ModulesDowngrade ==
    DropTables(<<"auction_bids", "tender_addenda", "reverse_auctions", "chat_messages",
                 "final_accounts", "cost_benchmarks", "chat_sessions", "report_templates",
                 "rate_items", "email_reminders">>)

\* 9a1c4e77b210
IngestColumns == {"storage_bucket", "checksum_sha256", "ingest_status", "extracted_data",
                  "ingested_entity_type", "ingested_entity_id", "ingested_at"}

\* Mutant: the new status is NOT NULL and has no server default.
IngestUpgradeBare == <<AddColumns("file_uploads", IngestColumns, {"ingest_status"})>>

IngestUpgrade == <<AddColumns("file_uploads", IngestColumns, {})>>
IngestDowngrade == <<DropColumns("file_uploads", IngestColumns)>>

\* a2f7c9d4e810
RawUpgrade == CreateTables(<<"raw_documents">>, Owned @@ SetNull({"file_uploads"}))
RawDowngrade == DropTables(<<"raw_documents">>)

\* b3d9f1a26c47: the loop over _EINVOICE_COLUMNS, then the timestamps.
InvoiceColumns ==
    {"document_type", "document_version", "currency", "exchange_rate", "supplier_tin",
     "supplier_reg_no", "supplier_sst", "supplier_msic", "buyer_tin", "buyer_reg_no",
     "buyer_name", "myinvois_status", "myinvois_uuid", "myinvois_long_id", "submission_uid",
     "validation_link", "myinvois_error", "cancel_reason"}
InvoiceTimes == {"submitted_at", "validated_at", "cancelled_at"}

\* Mutant: one configuration per tenant is not enforced.
InvoiceUpgradeNoKey ==
    <<AddColumns("e_invoices", InvoiceColumns, {}), AddColumns("e_invoices", InvoiceTimes, {})>>
    \o CreateTables(<<"e_invoice_lines">>, Owned @@ Cascade({"e_invoices"}))
    \o CreateTables(<<"myinvois_config">>, Owned)

InvoiceUpgrade ==
    <<AddColumns("e_invoices", InvoiceColumns, {}), AddColumns("e_invoices", InvoiceTimes, {})>>
    \o CreateTables(<<"e_invoice_lines">>, Owned @@ Cascade({"e_invoices"}))
    \o <<CreateTable("myinvois_config", Table(Owned, {"tenant_id"}, {}))>>

\* Mutant: the timestamps, which are not in the loop, stay.
InvoiceDowngradeLoop ==
    DropTables(<<"myinvois_config", "e_invoice_lines">>)
    \o <<DropColumns("e_invoices", InvoiceColumns)>>

InvoiceDowngrade ==
    DropTables(<<"myinvois_config", "e_invoice_lines">>)
    \o <<DropColumns("e_invoices", InvoiceTimes), DropColumns("e_invoices", InvoiceColumns)>>

\* c7a4e0b81f92
RegistryUpgrade ==
    <<CreateTable("tenant_modules", Table(Owned, {"tenant_id, module_name"}, {}))>>
RegistryDowngrade == DropTables(<<"tenant_modules">>)

-----------------------------------------------------------------------------
(* The chain *)

Revision(upgrade, downgrade) == [upgrade |-> upgrade, downgrade |-> downgrade]

\* In the order of their down_revision.  A database is at revision n of the chain, or at
\* 0 when no revision has been applied.
Chain == <<Revision(InitialUpgrade, InitialDowngrade),
           Revision(BrdRoots \o BrdDependents, BrdDowngrade),
           Revision(ModulesUpgrade, ModulesDowngrade),
           Revision(IngestUpgrade, IngestDowngrade),
           Revision(RawUpgrade, RawDowngrade),
           Revision(InvoiceUpgrade, InvoiceDowngrade),
           Revision(RegistryUpgrade, RegistryDowngrade)>>

Newest == Len(Chain)

\* What upgrading an empty database up to each revision leaves.
SchemaOf ==
    LET built[n \in 0..Newest] ==
            IF n = 0 THEN <<>> ELSE FoldLeft(Execute, built[n - 1], Chain[n].upgrade)
    IN built
=============================================================================
