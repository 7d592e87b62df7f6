----------------------------- MODULE MCMigrate ------------------------------
(***************************************************************************)
(* Migrate over the schema of the repository.                              *)
(***************************************************************************)
EXTENDS Migrate, Schema

IndexNames == {Indexes[i][1] : i \in DOMAIN Indexes}
MCObject == TableNames \cup IndexNames
MCScript == <<Tables, [i \in DOMAIN Indexes |-> Indexes[i][1]]>>
MCNeeds ==
    [o \in MCObject |->
       IF o \in TableNames THEN Parents(o)
       ELSE {Indexes[i][2] : i \in {j \in DOMAIN Indexes : Indexes[j][1] = o}}]
MCRefers == [t \in TableNames |-> Parents(t)]
=============================================================================
