-------------------------- MODULE MCManagedInstallation --------------------------
(* One entry whose definition is published in two versions and under two   *)
(* server names; the client may write a third definition.                  *)
EXTENDS ManagedInstallation

AllDescriptors ==
    [entry : {entry}, name : Names, text : {"v1", "v2"}]
=============================================================================
