------------------------------ MODULE MCScrape ------------------------------
(***************************************************************************)
(* Model-checking instance of Scrape: an entity that declares every        *)
(* capability and was created at tick 1, and one that declares none and    *)
(* has no creation time; each may be a container or a node.              *)
(***************************************************************************)
EXTENDS Scrape

MCAllCaps ==
  [hasCpu |-> TRUE, hasMemory |-> TRUE, hasNetwork |-> TRUE,
   hasFilesystem |-> TRUE, hasDiskIo |-> TRUE, creationTime |-> 1]

MCNoCaps ==
  [hasCpu |-> FALSE, hasMemory |-> FALSE, hasNetwork |-> FALSE,
   hasFilesystem |-> FALSE, hasDiskIo |-> FALSE, creationTime |-> ZeroTime]

MCSpecs == {MCAllCaps, MCNoCaps}

MCCapableSpecs == {MCAllCaps}

=============================================================================
