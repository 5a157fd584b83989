---------------------------- MODULE MCMailboxJob ----------------------------
(* A small mailbox for TLC: three copies of one message beside a draft.     *)
EXTENDS MailboxJob, TLC

CONSTANTS e1, e2, e3, e4, k1, k2, none

FourEmails == { e1, e2, e3, e4 }
TwoKeys == { k1, k2 }
ThreeCopies == (e1 :> k1 @@ e2 :> k1 @@ e3 :> k1 @@ e4 :> k2)
OneDraft == { e4 }
=============================================================================
