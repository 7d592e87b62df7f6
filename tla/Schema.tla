------------------------------- MODULE Schema -------------------------------
(***************************************************************************)
(* What migrations/*.sql declare: the tables in the order they are         *)
(* created, their foreign keys, their unique columns and their indexes.    *)
(***************************************************************************)
EXTENDS Sequences

\* The tables of 001_initial_schema, each by CREATE TABLE IF NOT EXISTS.
Tables == <<"customer", "user", "branch", "account", "loan", "loan_payment",
            "employee", "card", "transaction", "customer_support", "credit_score">>

TableNames == {Tables[i] : i \in DOMAIN Tables}

Restrict(child, parent, null) ==
    [child |-> child, parent |-> parent, null |-> null, onDelete |-> "RESTRICT"]
SetNull(child, parent) ==
    [child |-> child, parent |-> parent, null |-> TRUE, onDelete |-> "SET NULL"]

\* The foreign keys; null: the column may be NULL.  The transaction table refers
\* to account twice.
ForeignKeys ==
    {Restrict("user", "customer", TRUE),
     Restrict("account", "customer", FALSE), Restrict("account", "branch", FALSE),
     Restrict("loan", "customer", FALSE), Restrict("loan_payment", "loan", FALSE),
     Restrict("employee", "branch", FALSE), Restrict("card", "account", FALSE),
     Restrict("transaction", "account", FALSE), SetNull("transaction", "account"),
     Restrict("customer_support", "customer", FALSE),
     Restrict("customer_support", "employee", FALSE),
     Restrict("credit_score", "customer", FALSE)}

\* The tables that must be there when a table is created.
Parents(table) == {fk.parent : fk \in {k \in ForeignKeys : k.child = table}}

\* The indexes of 002_indexes, each by a bare CREATE INDEX, with their tables.
Indexes ==
    <<<<"idx_user_customer", "user">>, <<"idx_account_customer", "account">>,
      <<"idx_account_branch", "account">>, <<"idx_loan_customer", "loan">>,
      <<"idx_loanpayment_loan", "loan_payment">>, <<"idx_employee_branch", "employee">>,
      <<"idx_card_account", "card">>, <<"idx_transaction_from", "transaction">>,
      <<"idx_transaction_to", "transaction">>, <<"idx_ticket_customer", "customer_support">>,
      <<"idx_ticket_employee", "customer_support">>, <<"idx_ticket_status", "customer_support">>,
      <<"idx_creditscore_customer", "credit_score">>>>

\* The tables seeds/demo_data.sql fills, one INSERT IGNORE each, in its order.
SeededTables == <<"branch", "customer", "user", "account", "employee", "card", "loan",
                  "loan_payment", "transaction", "credit_score", "customer_support">>
=============================================================================
