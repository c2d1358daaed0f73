----------------------------- MODULE IdentifierRow -----------------------------
(***************************************************************************)
(* One row of the Identifier table, the DOI of a Crossref shoulder, and    *)
(* what the operations of impl/ezid.py make of it: the part of             *)
(* ezidapp/models/identifier.py that has to do with the life of an         *)
(* identifier.  The citation metadata is abstracted to one field, the      *)
(* target; the metadata a request carries is a sequence, because the code  *)
(* applies it element by element in the order of the dictionary.           *)
(***************************************************************************)
EXTENDS Naturals, Sequences, SequencesExt

CONSTANTS Targets,         \* target URLs, standing for all the plain elements
          DefaultTarget,   \* the self-referential target URL
          NoRow,           \* there is no such row
          Rejected         \* a ValidationError

Statuses         == {"reserved", "public", "unavailable"}
CrossrefStatuses == {"", "reserved", "working", "success", "warning", "failure"}
Rows == [status: Statuses, crossref: CrossrefStatuses, target: Targets]

ASSUME RowAssumption ==
    /\ DefaultTarget \in Targets
    /\ NoRow \notin Rows /\ Rejected \notin Rows

IsReserved(c) == c.status = "reserved"

\* The element "_crossref" is "yes", "" or, for the administrator alone, a
\* status to set as it is.
Elements == [key: {"_status"}, value: Statuses]
              \union [key: {"_crossref"}, value: CrossrefStatuses \union {"yes"}]
              \union [key: {"_target"}, value: Targets]

\* The users of an identifier: its owner, a superuser, and a user to whom
\* every check of impl/policy.py says no.
People == {"owner", "admin", "stranger"}

\* authorizeCreate, authorizeUpdate and authorizeDelete.
Authorized(user) == user # "stranger"
IsSuperuser(user) == user = "admin"

\* Which changes of status a user may ask for; stored is "pk is not None".
MayBecome(c, stored, status, user) ==
    \/ IsSuperuser(user)
    \/ status = "public"
    \/ status = "reserved" /\ (~stored \/ IsReserved(c))
    \/ status = "unavailable" /\ stored /\ ~IsReserved(c)

\* Whether updateFromUntrustedLegacy accepts an element.
Settable(c, stored, e, user) ==
    CASE e.key = "_status"   -> MayBecome(c, stored, e.value, user)
      [] e.key = "_crossref" -> e.value = "yes" \/ IsSuperuser(user)
      [] e.key = "_target"   -> TRUE

SetElement(c, e) ==
    CASE e.key = "_status"   -> [c EXCEPT !.status = e.value]
      [] e.key = "_crossref" ->
            [c EXCEPT !.crossref = IF e.value # "yes" THEN e.value
                                   ELSE IF IsReserved(c) THEN "reserved"
                                   ELSE "working"]
      [] e.key = "_target"   -> [c EXCEPT !.target = e.value]

\* An element sees the row as the elements before it left it.
updateFromUntrustedLegacy(c, stored, metadata, user) ==
    FoldLeft(LAMBDA r, e : IF r # Rejected /\ Settable(r, stored, e, user)
                           THEN SetElement(r, e) ELSE Rejected,
             c, metadata)

\* Mutant: the two statuses need not agree.
cleanAnyStatus(c) == IF c \in Rows /\ c.crossref # "" THEN c ELSE Rejected

\* my_full_clean: every field has a value of its type; and the DOI of a Crossref
\* shoulder has no datacenter, so it must have a Crossref status, which must agree
\* with its status.
clean(c) ==
    IF c \in Rows /\ c.crossref # "" /\ (IsReserved(c) <=> c.crossref = "reserved")
    THEN c ELSE Rejected

-----------------------------------------------------------------------------
(* The row each operation of impl/ezid.py would save *)

RegisterWithCrossref(c) ==
    [c EXCEPT !.crossref = IF IsReserved(c) THEN "reserved" ELSE "working"]

\* createIdentifier: the shoulder decides on the registration agency.
Created(metadata, user) ==
    LET blank == [status |-> "public", crossref |-> "", target |-> DefaultTarget]
        c == updateFromUntrustedLegacy(blank, FALSE, metadata, user)
    IN  IF c = Rejected \/ c.crossref # "" THEN clean(c)
        ELSE clean(RegisterWithCrossref(c))

\* Mutant: setMetadata does not call my_full_clean.
UpdatedUnchecked(row, metadata, user, external) ==
    LET c == updateFromUntrustedLegacy(row, TRUE, metadata, user)
    IN  IF c # Rejected /\ c.crossref # "" /\ ~IsReserved(c) /\ external
        THEN RegisterWithCrossref(c) ELSE c

\* setMetadata: the metadata goes to Crossref again unless the caller says no.
Updated(row, metadata, user, external) ==
    LET c == updateFromUntrustedLegacy(row, TRUE, metadata, user)
    IN  IF c # Rejected /\ c.crossref # "" /\ ~IsReserved(c) /\ external
        THEN clean(RegisterWithCrossref(c)) ELSE clean(c)

\* deleteIdentifier
MayDelete(row, user) == IsReserved(row) \/ IsSuperuser(user)
=============================================================================
