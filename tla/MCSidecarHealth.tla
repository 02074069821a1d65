-------------------------- MODULE MCSidecarHealth --------------------------
(* SidecarHealth with the defaults of the README: three failures forgiven and
   five retries. *)
EXTENDS SidecarHealth

DefaultMaxFails == 3
DefaultRetries == 5
=============================================================================
