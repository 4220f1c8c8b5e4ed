---------------------------- MODULE MCSubmission ----------------------------
(* TLC instances of Submission; the values of the other constants are in   *)
(* the cfg files.  send_algo and create_asset are left to the first steps  *)
(* of deploy_app, which are the same; update_app has those of delete_app,  *)
(* and close_out_app those of clear_state_app on an application that is    *)
(* still there.                                                            *)
EXTENDS Submission

AllOperations ==
    [c \in Clients |->
        IF c = "creator"
        THEN {"send_asset", "change_asset_reserve_address", "deploy_app",
              "opt_in_app_to_asset", "delete_app"}
        ELSE {"opt_in_to_asset", "send_asset", "set_asset_clawback_to_app",
              "recover_reserve_balance", "sign_and_send", "opt_in_app", "clear_state_app"}]
=============================================================================
