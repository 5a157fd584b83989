---------------------------- MODULE MCConnectors ---------------------------
EXTENDS Connectors, SequencesExt

ThreeMessages == 1 .. 3
TwoMessages == 1 .. 2
AllProviders ==
    { "google_workspace", "microsoft_365", "generic_imap", "oauth_mailbox", "pst_import",
      "eml_import", "mbox_import" }
BothTransports == { "graph", "imap" }
\* Every file of up to six letters.
ShortFiles == SeqOf({ "n", "F", "r", "x" }, 5)
=============================================================================
