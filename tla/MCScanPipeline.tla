--------------------------- MODULE MCScanPipeline ---------------------------
(***************************************************************************)
(* ScanPipeline on small instances.  The profiles are those the screens    *)
(* send: Measurements and FinalTraining ask for a snapshot, MainInterface  *)
(* for merging, YourDevices and MissingDevices for filtering.  NamesOnly   *)
(* is the remaining branch of ScanManager.                                 *)
(***************************************************************************)
EXTENDS ScanPipeline

Profile(names, merging, filtering) ==
    [doNameResolution |-> names, doMerging |-> merging, doFiltering |-> filtering]
SnapshotOnly == Profile(FALSE, FALSE, FALSE)
NamesOnly    == Profile(TRUE, FALSE, FALSE)
Merging      == Profile(TRUE, TRUE, FALSE)
Filtering    == Profile(TRUE, TRUE, TRUE)

AllProfiles == {SnapshotOnly, NamesOnly, Merging, Filtering}
TwoProfiles == {SnapshotOnly, Filtering}

\* The service the pipeline implements: it works on the accepted request.
Service == INSTANCE ScanService WITH current <- IF sm = "IDLE" THEN 0 ELSE working.id
ImplementsScanService == Service!Spec /\ (HardwareAnswers => Service!Fairness)

=============================================================================
