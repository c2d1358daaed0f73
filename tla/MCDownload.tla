------------------------------- MODULE MCDownload -------------------------------
(***************************************************************************)
(* Downloads of two owners who share three identifiers, in each format.    *)
(***************************************************************************)
EXTENDS Download, TLC

CONSTANTS ann, bob, nobody

Both == {ann, bob}

\* Everything of both owners, and a request that leaves an identifier out.
TwoRequests ==
    {[format |-> "XML", toHarvest |-> <<ann, bob>>, matching |-> Identifiers],
     [format |-> "ANVL", toHarvest |-> <<bob>>, matching |-> Identifiers \ {1}]}

OneRequest == {[format |-> "CSV", toHarvest |-> <<ann, bob>>, matching |-> Identifiers]}
=============================================================================
