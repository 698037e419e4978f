----------------------------- MODULE PosTables -----------------------------
(***************************************************************************)
(* The generated layer, entity by entity.                                  *)
(*                                                                         *)
(*   Columns  the struct: columns that hold a value, may be empty, are     *)
(*            text                                                         *)
(*   Built    what the builder asks for                                    *)
(*   Patched  the columns apply_patch knows                                *)
(*   Kept     what generic writes leave alone; the rows it refers to       *)
(*   Bodies   the columns a POST carries, may leave out; a PUT carries     *)
(*   Fresh    what the conversion of a POST fills in itself, or leaves     *)
(*            empty                                                        *)
(*   Applied  what apply_update assigns                                    *)
(*   Shown    what a response shows                                        *)
(*   Table    the columns of the table that are NOT NULL, have a DEFAULT,  *)
(*            are a NUMERIC of so many digits                              *)
(*   Checks   the CHECKs of the table                                      *)
(*   Rules    the rules the service checks before the table does           *)
(*   Seed     when its seeder runs                                         *)
(*                                                                         *)
(* and, of the tables together, the columns that are unique and those      *)
(* that refer to another row.                                              *)
(*                                                                         *)
(* id and metadata belong to the framework.  A rule is required (not       *)
(* empty) or bounded (a length, not negative); the bounds are the data.    *)
(***************************************************************************)
----------------------------------------------------------------------------
\* Every column of a struct.
Every(columns) == columns.needed \cup columns.optional
----------------------------------------------------------------------------
\* Enumerations: what the type declares, and what a row starts with.
PosProfileStatus == [values |-> {"active", "inactive"}, start |-> "active"]
PosCashRoundingStrategy == [values |-> {"none", "half_up"}, start |-> "none"]
PosSessionStatus == [values |-> {"open", "closed"}, start |-> "open"]
PosClosingStatus == [values |-> {"draft", "submitted", "reconciled"}, start |-> "draft"]
PosInvoiceStatus ==
  [values |-> {"draft", "paid", "consolidated", "returned", "void"},
   start |-> "draft"]
PosPaymentMethod ==
  [values |-> {"cash", "card", "qris", "e_wallet", "bank_transfer", "virtual_account"},
   start |-> "cash"]
PosCashMovementType ==
  [values |-> {"pay_in", "pay_out", "drop", "no_sale"},
   start |-> "pay_in"]
----------------------------------------------------------------------------
PosProfileColumns ==
  [needed |-> {"name", "currency", "tax_rate", "allow_discount", "cash_rounding_strategy",
       "cash_rounding_unit", "status"},
   optional |-> {"branch_id", "default_customer_id", "income_account_id",
       "receivable_account_id", "cash_account_id", "write_off_account_id",
       "tax_account_id", "tax_template_ids", "warehouse_id", "cogs_account_id",
       "inventory_account_id"},
   text |-> {"name", "currency"}]
PosProfileBuilt == {"name"}
PosProfilePatched == Every(PosProfileColumns)
PosProfileKept == [protected |-> {}, parents |-> {}]
PosProfileBodies ==
  [post |-> Every(PosProfileColumns) \ {"status"},
   spared |-> {"currency", "tax_rate", "allow_discount", "cash_rounding_strategy",
       "cash_rounding_unit"},
   put |-> Every(PosProfileColumns)]
PosProfileFresh == [filled |-> {"status"}, empty |-> {}]
PosProfileApplied == Every(PosProfileColumns)
PosProfileShown == Every(PosProfileColumns)
PosProfileTable ==
  [notnull |-> PosProfileColumns.needed,
   defaulted |-> {"currency", "tax_rate", "allow_discount", "status",
       "cash_rounding_strategy", "cash_rounding_unit"},
   numbers |-> {"tax_rate", "cash_rounding_unit"}]
PosProfileChecks ==
  [required |-> {"name"},
   bounded |-> {"name", "currency", "tax_rate", "cash_rounding_unit"}]
PosProfileRules ==
  [required |-> {"name"},
   bounded |-> {"name", "currency", "tax_rate", "cash_rounding_unit"},
   state |-> {"status"}]
PosProfileSeed == 1
----------------------------------------------------------------------------
PosOpeningEntryColumns ==
  [needed |-> {"pos_profile_id", "cashier_party_id", "opened_at", "status"},
   optional |-> {"branch_id", "opening_balances"},
   text |-> {}]
PosOpeningEntryBuilt == {"pos_profile_id", "cashier_party_id", "opened_at"}
PosOpeningEntryPatched == Every(PosOpeningEntryColumns)
PosOpeningEntryKept == [protected |-> {}, parents |-> {"profile"}]
PosOpeningEntryBodies ==
  [post |-> Every(PosOpeningEntryColumns) \ {"status"},
   spared |-> {},
   put |-> Every(PosOpeningEntryColumns)]
PosOpeningEntryFresh == [filled |-> {"status"}, empty |-> {}]
PosOpeningEntryApplied == Every(PosOpeningEntryColumns)
PosOpeningEntryShown == Every(PosOpeningEntryColumns)
PosOpeningEntryTable ==
  [notnull |-> PosOpeningEntryColumns.needed,
   defaulted |-> {"status"},
   numbers |-> {}]
PosOpeningEntryChecks ==
  [required |-> {"pos_profile_id", "cashier_party_id"},
   bounded |-> {}]
PosOpeningEntryRules ==
  [required |-> {"pos_profile_id", "cashier_party_id"},
   bounded |-> {},
   state |-> {"status"}]

\* Mutant: sessions are seeded before the registers they are opened on.
PosOpeningEntrySeedFirst == 0

PosOpeningEntrySeed == 2
----------------------------------------------------------------------------
PosClosingEntryColumns ==
  [needed |-> {"pos_profile_id", "opening_entry_id", "closed_at", "cashier_party_id",
       "grand_total", "invoice_count", "difference_total", "status"},
   optional |-> {"totals_by_method"},
   text |-> {}]
PosClosingEntryBuilt ==
  {"pos_profile_id", "opening_entry_id", "closed_at", "cashier_party_id"}
PosClosingEntryPatched == Every(PosClosingEntryColumns)
PosClosingEntryKept == [protected |-> {}, parents |-> {"opening_entry"}]
PosClosingEntryBodies ==
  [post |-> Every(PosClosingEntryColumns),
   spared |-> {"grand_total", "invoice_count", "difference_total", "status"},
   put |-> Every(PosClosingEntryColumns)]
PosClosingEntryFresh == [filled |-> {}, empty |-> {}]
PosClosingEntryApplied == Every(PosClosingEntryColumns)
PosClosingEntryShown == Every(PosClosingEntryColumns)
PosClosingEntryTable ==
  [notnull |-> PosClosingEntryColumns.needed,
   defaulted |-> {"grand_total", "invoice_count", "difference_total", "status"},
   numbers |-> {"grand_total", "difference_total"}]
PosClosingEntryChecks ==
  [required |-> {"pos_profile_id", "opening_entry_id", "cashier_party_id"},
   bounded |-> {"grand_total"}]
PosClosingEntryRules ==
  [required |-> {"pos_profile_id", "opening_entry_id", "cashier_party_id"},
   bounded |-> {"grand_total"},
   state |-> {}]
PosClosingEntrySeed == 3
----------------------------------------------------------------------------
PosInvoiceColumns ==
  [needed |-> {"pos_profile_id", "opening_entry_id", "receipt_number", "posting_at",
       "net_total", "tax_total", "grand_total", "rounding_adjustment", "rounded_total",
       "paid_total", "change_due", "is_return", "status"},
   optional |-> {"branch_id", "customer_id", "pos_table_id", "client_uuid",
       "billing_invoice_id", "payment_entry_id", "stock_delivery_note_id",
       "return_against"},
   text |-> {"receipt_number"}]
PosInvoiceBuilt == {"pos_profile_id", "opening_entry_id", "receipt_number", "posting_at"}
PosInvoicePatched == Every(PosInvoiceColumns)
PosInvoiceKept ==
  [protected |-> {"client_uuid", "net_total", "tax_total", "grand_total",
       "rounding_adjustment", "rounded_total", "paid_total", "change_due",
       "billing_invoice_id", "payment_entry_id", "stock_delivery_note_id", "is_return",
       "return_against", "status"},
   parents |-> {"opening_entry"}]
PosInvoiceBodies ==
  [post |-> Every(PosInvoiceColumns) \ {"status"},
   spared |-> {"net_total", "tax_total", "grand_total", "rounding_adjustment",
       "rounded_total", "paid_total", "change_due", "is_return"},
   put |-> {"pos_profile_id", "opening_entry_id", "branch_id", "customer_id",
       "pos_table_id", "receipt_number", "posting_at"}]
PosInvoiceFresh == [filled |-> {"status"}, empty |-> {}]
PosInvoiceApplied ==
  {"pos_profile_id", "opening_entry_id", "branch_id", "customer_id", "pos_table_id",
  "receipt_number", "posting_at"}
PosInvoiceShown == Every(PosInvoiceColumns)
PosInvoiceTable ==
  [notnull |-> PosInvoiceColumns.needed,
   defaulted |-> {"net_total", "tax_total", "grand_total", "rounding_adjustment",
       "rounded_total", "paid_total", "change_due", "is_return", "status"},
   numbers |-> {"net_total", "tax_total", "grand_total", "rounding_adjustment",
       "rounded_total", "paid_total", "change_due"}]
PosInvoiceChecks ==
  [required |-> {"pos_profile_id", "opening_entry_id", "receipt_number"},
   bounded |-> {"receipt_number", "net_total", "tax_total", "grand_total",
       "rounded_total", "paid_total", "change_due"}]
PosInvoiceRules ==
  [required |-> {"pos_profile_id", "opening_entry_id", "receipt_number"},
   bounded |-> {"receipt_number", "net_total", "tax_total", "grand_total",
       "rounded_total", "paid_total", "change_due"},
   state |-> {"status"}]
PosInvoiceSeed == 4
----------------------------------------------------------------------------
PosInvoiceItemColumns ==
  [needed |-> {"pos_invoice_id", "item_id", "quantity", "unit_price", "discount_amount",
       "net_amount"},
   optional |-> {"description", "client_uuid", "course", "revenue_account_id"},
   text |-> {}]
PosInvoiceItemBuilt == {"pos_invoice_id", "item_id", "quantity", "unit_price"}
PosInvoiceItemPatched == Every(PosInvoiceItemColumns)
PosInvoiceItemKept == [protected |-> {"client_uuid", "net_amount"}, parents |-> {"invoice"}]
PosInvoiceItemBodies ==
  [post |-> Every(PosInvoiceItemColumns),
   spared |-> {"discount_amount", "net_amount"},
   put |-> Every(PosInvoiceItemColumns) \ {"net_amount", "client_uuid"}]
PosInvoiceItemFresh == [filled |-> {}, empty |-> {}]
PosInvoiceItemApplied == Every(PosInvoiceItemColumns) \ {"net_amount", "client_uuid"}
PosInvoiceItemShown == Every(PosInvoiceItemColumns)
PosInvoiceItemTable ==
  [notnull |-> PosInvoiceItemColumns.needed,
   defaulted |-> {"discount_amount", "net_amount"},
   numbers |-> {"quantity", "unit_price", "discount_amount", "net_amount"}]
PosInvoiceItemChecks ==
  [required |-> {"pos_invoice_id", "item_id"},
   bounded |-> {"description", "quantity", "unit_price", "discount_amount", "net_amount"}]
PosInvoiceItemRules ==
  [required |-> {"pos_invoice_id", "item_id"},
   bounded |-> {"description", "quantity", "unit_price", "discount_amount", "net_amount"},
   state |-> {}]
PosInvoiceItemSeed == 5
----------------------------------------------------------------------------
PosPaymentColumns ==
  [needed |-> {"pos_invoice_id", "payment_method", "amount"},
   optional |-> {"reference_no", "client_uuid", "payment_entry_id"},
   text |-> {}]
PosPaymentBuilt == {"pos_invoice_id", "payment_method", "amount"}
PosPaymentPatched == Every(PosPaymentColumns)
PosPaymentKept ==
  [protected |-> {"client_uuid", "payment_entry_id"},
   parents |-> {"invoice"}]
PosPaymentBodies ==
  [post |-> Every(PosPaymentColumns),
   spared |-> {},
   put |-> {"pos_invoice_id", "payment_method", "amount", "reference_no"}]
PosPaymentFresh == [filled |-> {}, empty |-> {}]
PosPaymentApplied == {"pos_invoice_id", "payment_method", "amount", "reference_no"}
PosPaymentShown == Every(PosPaymentColumns)
PosPaymentTable ==
  [notnull |-> PosPaymentColumns.needed,
   defaulted |-> {},
   numbers |-> {"amount"}]
PosPaymentChecks ==
  [required |-> {"pos_invoice_id"},
   bounded |-> {"amount", "reference_no"}]
PosPaymentRules ==
  [required |-> {"pos_invoice_id"},
   bounded |-> {"amount", "reference_no"},
   state |-> {}]
PosPaymentSeed == 6
----------------------------------------------------------------------------
PosCashMovementColumns ==
  [needed |-> {"pos_profile_id", "opening_entry_id", "cashier_party_id", "movement_type",
       "amount", "moved_at"},
   optional |-> {"reason"},
   text |-> {}]
PosCashMovementBuilt ==
  {"pos_profile_id", "opening_entry_id", "cashier_party_id", "movement_type", "moved_at"}
PosCashMovementPatched == Every(PosCashMovementColumns)
PosCashMovementKept == [protected |-> {}, parents |-> {"opening_entry"}]
PosCashMovementBodies ==
  [post |-> Every(PosCashMovementColumns),
   spared |-> {"amount"},
   put |-> Every(PosCashMovementColumns)]
PosCashMovementFresh == [filled |-> {}, empty |-> {}]
PosCashMovementApplied == Every(PosCashMovementColumns)
PosCashMovementShown == Every(PosCashMovementColumns)
PosCashMovementTable ==
  [notnull |-> PosCashMovementColumns.needed,
   defaulted |-> {"amount"},
   numbers |-> {"amount"}]
PosCashMovementChecks ==
  [required |-> {"pos_profile_id", "opening_entry_id", "cashier_party_id"},
   bounded |-> {"amount", "reason"}]
PosCashMovementRules ==
  [required |-> {"pos_profile_id", "opening_entry_id", "cashier_party_id"},
   bounded |-> {"amount", "reason"},
   state |-> {}]
PosCashMovementSeed == 7
----------------------------------------------------------------------------
PosDiscountColumns ==
  [needed |-> {"name", "percentage"},
   optional |-> {"description"},
   text |-> {"name"}]
PosDiscountBuilt == {"name", "percentage"}
PosDiscountPatched == Every(PosDiscountColumns)
PosDiscountKept == [protected |-> {}, parents |-> {}]
PosDiscountBodies ==
  [post |-> Every(PosDiscountColumns),
   spared |-> {},
   put |-> Every(PosDiscountColumns)]
PosDiscountFresh == [filled |-> {}, empty |-> {}]
PosDiscountApplied == Every(PosDiscountColumns)
PosDiscountShown == Every(PosDiscountColumns)
PosDiscountTable ==
  [notnull |-> PosDiscountColumns.needed,
   defaulted |-> {},
   numbers |-> {"percentage"}]
PosDiscountChecks ==
  [required |-> {"name"},
   bounded |-> {"name", "percentage", "description"}]

\* Mutant: the service does not bound the percentage.
PosDiscountRulesUnbounded ==
  [required |-> {"name"},
   bounded |-> {"name", "description"},
   state |-> {}]

PosDiscountRules ==
  [required |-> {"name"},
   bounded |-> {"name", "percentage", "description"},
   state |-> {}]
PosDiscountSeed == 8
----------------------------------------------------------------------------
PosManagerPinColumns ==
  [needed |-> {"employee_party_id", "pin_hash", "failed_attempts"},
   optional |-> {"locked_until", "last_attempt_at", "last_attempt_ip"},
   text |-> {"pin_hash"}]
PosManagerPinBuilt == {"employee_party_id", "pin_hash"}
PosManagerPinPatched == Every(PosManagerPinColumns)
PosManagerPinKept == [protected |-> {"pin_hash"}, parents |-> {}]
PosManagerPinBodies ==
  [post |-> {"employee_party_id"},
   spared |-> {},
   put |-> {"employee_party_id"}]
PosManagerPinFresh ==
  [filled |-> {"pin_hash", "failed_attempts"},
   empty |-> {"locked_until", "last_attempt_at", "last_attempt_ip"}]
PosManagerPinApplied == {"employee_party_id"}
PosManagerPinShown ==
  {"employee_party_id", "failed_attempts", "locked_until", "last_attempt_at"}
PosManagerPinTable ==
  [notnull |-> PosManagerPinColumns.needed,
   defaulted |-> {"failed_attempts"},
   numbers |-> {}]
PosManagerPinChecks ==
  [required |-> {"employee_party_id", "pin_hash"},
   bounded |-> {"pin_hash", "failed_attempts", "last_attempt_ip"}]
PosManagerPinRules ==
  [required |-> {"employee_party_id", "pin_hash"},
   bounded |-> {"pin_hash", "failed_attempts", "last_attempt_ip"},
   state |-> {}]
PosManagerPinSeed == 9
----------------------------------------------------------------------------
PosFloorPlanColumns ==
  [needed |-> {"name"},
   optional |-> {"branch_id", "position"},
   text |-> {"name"}]
PosFloorPlanBuilt == {"name"}
PosFloorPlanPatched == Every(PosFloorPlanColumns)
PosFloorPlanKept == [protected |-> {}, parents |-> {}]
PosFloorPlanBodies ==
  [post |-> Every(PosFloorPlanColumns),
   spared |-> {},
   put |-> Every(PosFloorPlanColumns)]
PosFloorPlanFresh == [filled |-> {}, empty |-> {}]
PosFloorPlanApplied == Every(PosFloorPlanColumns)
PosFloorPlanShown == Every(PosFloorPlanColumns)
PosFloorPlanTable ==
  [notnull |-> {"name"},
   defaulted |-> {},
   numbers |-> {}]
PosFloorPlanChecks == [required |-> {"name"}, bounded |-> {"name"}]
PosFloorPlanRules == [required |-> {"name"}, bounded |-> {"name"}, state |-> {}]
PosFloorPlanSeed == 10
----------------------------------------------------------------------------
PosTableColumns ==
  [needed |-> {"pos_floor_plan_id"},
   optional |-> {"name", "seats", "shape", "position"},
   text |-> {}]
PosTableBuilt == {"pos_floor_plan_id"}
PosTablePatched == Every(PosTableColumns)
PosTableKept == [protected |-> {}, parents |-> {"floor_plan"}]
PosTableBodies ==
  [post |-> Every(PosTableColumns),
   spared |-> {},
   put |-> Every(PosTableColumns)]
PosTableFresh == [filled |-> {}, empty |-> {}]
PosTableApplied == Every(PosTableColumns)

\* Mutant: the response does not show the seats.
PosTableShownWithoutSeats == Every(PosTableColumns) \ {"seats"}

PosTableShown == Every(PosTableColumns)
PosTableTable ==
  [notnull |-> {"pos_floor_plan_id"},
   defaulted |-> {},
   numbers |-> {}]
PosTableChecks == [required |-> {"pos_floor_plan_id"}, bounded |-> {"name", "shape"}]
PosTableRules ==
  [required |-> {"pos_floor_plan_id"},
   bounded |-> {"name", "shape"},
   state |-> {}]
PosTableSeed == 11
----------------------------------------------------------------------------
\* What may become of a status: the triggers.
PosInvoiceMoves == {<<"draft", "paid">>, <<"paid", "returned">>}
PosProfileMoves == {<<"active", "inactive">>, <<"inactive", "active">>}
PosOpeningEntryMoves == {<<"open", "closed">>}
----------------------------------------------------------------------------
\* The columns in which no two rows may hold the same: the unique indexes, of the live
\* rows, or of the drafts and the open sessions.  The one on client_uuid, and the one on
\* the manager of a PIN, are left to the composing service.
InvoiceKeys == {<<"invoice", "receipt_number">>, <<"invoice", "pos_table_id">>}
OpeningKey == {<<"opening_entry", "pos_profile_id">>}
ClosingKey == {<<"closing_entry", "opening_entry_id">>}
UniqueKeys == InvoiceKeys \cup OpeningKey \cup ClosingKey

\* The columns that refer to a row there must be: the foreign keys.
References ==
  {<<"opening_entry", "pos_profile_id">>, <<"closing_entry", "opening_entry_id">>,
   <<"invoice", "opening_entry_id">>, <<"invoice_item", "pos_invoice_id">>,
   <<"payment", "pos_invoice_id">>, <<"cash_movement", "opening_entry_id">>,
   <<"table", "pos_floor_plan_id">>}
----------------------------------------------------------------------------
\* The rows the verbs insert: the columns their statements name, and the status they write.
DraftInsert ==
  [columns |-> {"client_uuid", "pos_profile_id", "opening_entry_id", "branch_id",
       "customer_id", "pos_table_id", "receipt_number", "posting_at", "net_total",
       "tax_total", "grand_total", "rounding_adjustment", "rounded_total", "paid_total",
       "change_due", "is_return", "status"},
   status |-> "draft"]
ReturnInsert ==
  [columns |-> {"pos_profile_id", "opening_entry_id", "branch_id", "customer_id",
       "receipt_number", "posting_at", "net_total", "tax_total", "grand_total",
       "rounding_adjustment", "rounded_total", "paid_total", "change_due",
       "billing_invoice_id", "is_return", "return_against", "status"},
   status |-> "returned"]
OpeningInsert ==
  [columns |-> {"pos_profile_id", "branch_id", "cashier_party_id", "opened_at",
       "opening_balances", "status"},
   status |-> "open"]
ClosingInsert ==
  [columns |-> {"pos_profile_id", "opening_entry_id", "closed_at", "cashier_party_id",
       "totals_by_method", "grand_total", "invoice_count", "difference_total", "status"},
   status |-> "submitted"]
LineInsert ==
  [columns |-> {"pos_invoice_id", "client_uuid", "item_id", "description", "course",
       "quantity", "unit_price", "discount_amount", "net_amount", "revenue_account_id"},
   status |-> "none"]
TenderInsert ==
  [columns |-> {"pos_invoice_id", "client_uuid", "payment_method", "amount",
       "reference_no"},
   status |-> "none"]
MovementInsert ==
  [columns |-> {"pos_profile_id", "opening_entry_id", "cashier_party_id", "movement_type",
       "amount", "reason", "moved_at"},
   status |-> "none"]
PinInsert ==
  [columns |-> {"employee_party_id", "pin_hash", "failed_attempts", "locked_until",
       "last_attempt_at", "last_attempt_ip"},
   status |-> "none"]

\* The columns the verbs write later, and the moves they make.
ReplayWrites ==
  {"opening_entry_id", "branch_id", "customer_id", "pos_table_id", "net_total",
  "tax_total", "grand_total", "rounding_adjustment", "rounded_total", "paid_total",
  "change_due"}
TenderWrites == {"paid_total", "change_due"}
LinkWrites == {"billing_invoice_id"}
StockWrites == {"stock_delivery_note_id"}
PinFailureWrites ==
  {"failed_attempts", "locked_until", "last_attempt_at", "last_attempt_ip"}
PinSuccessWrites ==
  {"failed_attempts", "locked_until", "last_attempt_at", "last_attempt_ip"}
PaidMove == <<"draft", "paid">>
ReturnedMove == <<"paid", "returned">>
ClosedMove == <<"open", "closed">>
----------------------------------------------------------------------------
\* An entity: what its service puts together, and what the verbs do to its rows.
PosProfileService ==
  [columns |-> PosProfileColumns, built |-> PosProfileBuilt, patched |-> PosProfilePatched,
   kept |-> PosProfileKept, bodies |-> PosProfileBodies, fresh |-> PosProfileFresh,
   applied |-> PosProfileApplied, shown |-> PosProfileShown,
   table |-> PosProfileTable, checks |-> PosProfileChecks,
   rules |-> PosProfileRules, seed |-> PosProfileSeed,
   enums |-> [status |-> PosProfileStatus, cash_rounding_strategy |-> PosCashRoundingStrategy], moves |-> PosProfileMoves,
   inserts |-> {}, verbs |-> {},
   writes |-> {}]
PosOpeningEntryService ==
  [columns |-> PosOpeningEntryColumns, built |-> PosOpeningEntryBuilt, patched |-> PosOpeningEntryPatched,
   kept |-> PosOpeningEntryKept, bodies |-> PosOpeningEntryBodies, fresh |-> PosOpeningEntryFresh,
   applied |-> PosOpeningEntryApplied, shown |-> PosOpeningEntryShown,
   table |-> PosOpeningEntryTable, checks |-> PosOpeningEntryChecks,
   rules |-> PosOpeningEntryRules, seed |-> PosOpeningEntrySeed,
   enums |-> [status |-> PosSessionStatus], moves |-> PosOpeningEntryMoves,
   inserts |-> {OpeningInsert}, verbs |-> {ClosedMove},
   writes |-> {}]
PosClosingEntryService ==
  [columns |-> PosClosingEntryColumns, built |-> PosClosingEntryBuilt, patched |-> PosClosingEntryPatched,
   kept |-> PosClosingEntryKept, bodies |-> PosClosingEntryBodies, fresh |-> PosClosingEntryFresh,
   applied |-> PosClosingEntryApplied, shown |-> PosClosingEntryShown,
   table |-> PosClosingEntryTable, checks |-> PosClosingEntryChecks,
   rules |-> PosClosingEntryRules, seed |-> PosClosingEntrySeed,
   enums |-> [status |-> PosClosingStatus], moves |-> {},
   inserts |-> {ClosingInsert}, verbs |-> {},
   writes |-> {}]
PosInvoiceService ==
  [columns |-> PosInvoiceColumns, built |-> PosInvoiceBuilt, patched |-> PosInvoicePatched,
   kept |-> PosInvoiceKept, bodies |-> PosInvoiceBodies, fresh |-> PosInvoiceFresh,
   applied |-> PosInvoiceApplied, shown |-> PosInvoiceShown,
   table |-> PosInvoiceTable, checks |-> PosInvoiceChecks,
   rules |-> PosInvoiceRules, seed |-> PosInvoiceSeed,
   enums |-> [status |-> PosInvoiceStatus], moves |-> PosInvoiceMoves,
   inserts |-> {DraftInsert, ReturnInsert}, verbs |-> {PaidMove, ReturnedMove},
   writes |-> ReplayWrites \cup TenderWrites \cup LinkWrites \cup StockWrites]
PosInvoiceItemService ==
  [columns |-> PosInvoiceItemColumns, built |-> PosInvoiceItemBuilt, patched |-> PosInvoiceItemPatched,
   kept |-> PosInvoiceItemKept, bodies |-> PosInvoiceItemBodies, fresh |-> PosInvoiceItemFresh,
   applied |-> PosInvoiceItemApplied, shown |-> PosInvoiceItemShown,
   table |-> PosInvoiceItemTable, checks |-> PosInvoiceItemChecks,
   rules |-> PosInvoiceItemRules, seed |-> PosInvoiceItemSeed,
   enums |-> <<>>, moves |-> {},
   inserts |-> {LineInsert}, verbs |-> {},
   writes |-> {}]
PosPaymentService ==
  [columns |-> PosPaymentColumns, built |-> PosPaymentBuilt, patched |-> PosPaymentPatched,
   kept |-> PosPaymentKept, bodies |-> PosPaymentBodies, fresh |-> PosPaymentFresh,
   applied |-> PosPaymentApplied, shown |-> PosPaymentShown,
   table |-> PosPaymentTable, checks |-> PosPaymentChecks,
   rules |-> PosPaymentRules, seed |-> PosPaymentSeed,
   enums |-> [payment_method |-> PosPaymentMethod], moves |-> {},
   inserts |-> {TenderInsert}, verbs |-> {},
   writes |-> {}]
PosCashMovementService ==
  [columns |-> PosCashMovementColumns, built |-> PosCashMovementBuilt, patched |-> PosCashMovementPatched,
   kept |-> PosCashMovementKept, bodies |-> PosCashMovementBodies, fresh |-> PosCashMovementFresh,
   applied |-> PosCashMovementApplied, shown |-> PosCashMovementShown,
   table |-> PosCashMovementTable, checks |-> PosCashMovementChecks,
   rules |-> PosCashMovementRules, seed |-> PosCashMovementSeed,
   enums |-> [movement_type |-> PosCashMovementType], moves |-> {},
   inserts |-> {MovementInsert}, verbs |-> {},
   writes |-> {}]
PosDiscountService ==
  [columns |-> PosDiscountColumns, built |-> PosDiscountBuilt, patched |-> PosDiscountPatched,
   kept |-> PosDiscountKept, bodies |-> PosDiscountBodies, fresh |-> PosDiscountFresh,
   applied |-> PosDiscountApplied, shown |-> PosDiscountShown,
   table |-> PosDiscountTable, checks |-> PosDiscountChecks,
   rules |-> PosDiscountRules, seed |-> PosDiscountSeed,
   enums |-> <<>>, moves |-> {},
   inserts |-> {}, verbs |-> {},
   writes |-> {}]
PosManagerPinService ==
  [columns |-> PosManagerPinColumns, built |-> PosManagerPinBuilt, patched |-> PosManagerPinPatched,
   kept |-> PosManagerPinKept, bodies |-> PosManagerPinBodies, fresh |-> PosManagerPinFresh,
   applied |-> PosManagerPinApplied, shown |-> PosManagerPinShown,
   table |-> PosManagerPinTable, checks |-> PosManagerPinChecks,
   rules |-> PosManagerPinRules, seed |-> PosManagerPinSeed,
   enums |-> <<>>, moves |-> {},
   inserts |-> {PinInsert}, verbs |-> {},
   writes |-> PinFailureWrites \cup PinSuccessWrites]
PosFloorPlanService ==
  [columns |-> PosFloorPlanColumns, built |-> PosFloorPlanBuilt, patched |-> PosFloorPlanPatched,
   kept |-> PosFloorPlanKept, bodies |-> PosFloorPlanBodies, fresh |-> PosFloorPlanFresh,
   applied |-> PosFloorPlanApplied, shown |-> PosFloorPlanShown,
   table |-> PosFloorPlanTable, checks |-> PosFloorPlanChecks,
   rules |-> PosFloorPlanRules, seed |-> PosFloorPlanSeed,
   enums |-> <<>>, moves |-> {},
   inserts |-> {}, verbs |-> {},
   writes |-> {}]
PosTableService ==
  [columns |-> PosTableColumns, built |-> PosTableBuilt, patched |-> PosTablePatched,
   kept |-> PosTableKept, bodies |-> PosTableBodies, fresh |-> PosTableFresh,
   applied |-> PosTableApplied, shown |-> PosTableShown,
   table |-> PosTableTable, checks |-> PosTableChecks,
   rules |-> PosTableRules, seed |-> PosTableSeed,
   enums |-> <<>>, moves |-> {},
   inserts |-> {}, verbs |-> {},
   writes |-> {}]
----------------------------------------------------------------------------
\* The module: its entities.
PosModule ==
  [profile |-> PosProfileService, opening_entry |-> PosOpeningEntryService,
   closing_entry |-> PosClosingEntryService, invoice |-> PosInvoiceService,
   invoice_item |-> PosInvoiceItemService, payment |-> PosPaymentService,
   cash_movement |-> PosCashMovementService, discount |-> PosDiscountService,
   manager_pin |-> PosManagerPinService, floor_plan |-> PosFloorPlanService,
   table |-> PosTableService]

Entities == DOMAIN PosModule
============================================================================
