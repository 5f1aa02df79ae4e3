---------------------------- MODULE MCAuthService ----------------------------
(* AuthService on small instances: requests are interchangeable, and so    *)
(* are accounts where all of them, or none, exist at the start.            *)
EXTENDS AuthService, TLC

Symmetry == Permutations(Request) \cup Permutations(Emails)

(* The sets of RPCs the runs let in.                                       *)
SessionOps == {"Login", "Logout", "RefreshTokens", "ChangePassword"}
AccountOps == {"Register", "ResendVerificationEmail", "VerifyEmail",
               "RequestPasswordReset", "ResetPassword"}
EveryOp == OpNames
NoFault == {}
RecoveryOps == {"Login", "RefreshTokens", "RequestPasswordReset", "ResetPassword",
                "ResendVerificationEmail", "VerifyEmail"}
AllFaults == Faults
RecoveryFaults == {"deactivate", "storeError"}
SessionFaults == {"storeError", "crash"}
=============================================================================
