----------------------------- MODULE MCExportJobs -----------------------------
(* An instance of ExportJobs for TLC: two reports that the filters tell apart, *)
(* one of which an analyst may verify.                                         *)
EXTENDS ExportJobs, TLC

MCReports ==
    {[id |-> 1, status |-> st, confidence |-> None, missing |-> TRUE, lat |-> 1234, accuracy |-> 8] :
        st \in Statuses}
    \cup {[id |-> 2, status |-> "pending", confidence |-> 50, missing |-> FALSE,
           lat |-> 1250, accuracy |-> 5]}

MCFilters ==
    {[status |-> {}, confidence |-> None, missingOnly |-> FALSE, precision |-> "coarse"],
     [status |-> {}, confidence |-> 0, missingOnly |-> FALSE, precision |-> "exact"],
     [status |-> {"verified"}, confidence |-> None, missingOnly |-> TRUE, precision |-> "reduced"]}

Symmetry == Permutations(Slots) \cup Permutations(Asks)
=============================================================================
