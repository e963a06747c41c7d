------------------------- MODULE MCHostedWorkspace -------------------------
(* The two parts of a hosted logbook share members and backups but no other *)
(* state, and the credential store of the server, which is that of the      *)
(* desktop too, is another part: each behaviour follows one of them and     *)
(* leaves the others as they started.  Two interchangeable administrators.  *)
(* The uploads meet failing saves, or imports and the failing save of one;  *)
(* a second credential, drawn after the first, meets overlapping processes  *)
(* only.                                                                    *)
EXTENDS HostedUploads, HostedProfiles, CredentialStore, TLC

CONSTANTS u1, u2

UploadsIdle == UploadsInit /\ UNCHANGED uploadVars
ProfilesIdle == ProfilesInit /\ UNCHANGED profileVars
StoreIdle == StoreInit /\ UNCHANGED storeVars

Init == UploadsInit /\ ProfilesInit /\ StoreInit

OneMishap ==
    /\ uploadFaults > 0 => imports' = imports
    /\ imports > 0 => uploadFaults' = uploadFaults

Next ==
    \/ ProfilesIdle /\ StoreIdle /\ OneMishap /\ UploadsNext
    \/ UploadsIdle /\ StoreIdle /\ ProfilesNext
    \/ UploadsIdle /\ ProfilesIdle /\ StoreNext

Spec == Init /\ [][Next]_<<uploadVars, profileVars, storeVars>>

Symmetry == Permutations({u1, u2})

Explored ==
    \A id, later \in CredentialIds : id < later /\ expected[later] # {} =>
        expected[id] # {} /\ mishaps \subseteq {"overlap"}

(* The tables of both parts, in the server and in its store, hold records   *)
(* of the identifiers that were drawn, by accounts that exist; so do the    *)
(* keychain, the file and the processes of the credential store.            *)
TypeOK == UploadsTypeOK /\ ProfilesTypeOK /\ StoreTypeOK
=============================================================================
