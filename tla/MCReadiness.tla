---------------------------- MODULE MCReadiness ----------------------------
(* A limited company, one month, and the lists that change its verdicts.  *)
EXTENDS Readiness

MCBudget == [revenue |-> 100, expenses |-> 40, reserve |-> 30]
Books == {"invoice", "payment", "expense", "vatSettlement"}
SoundPage == {"settings", "vatPeriod", "reports", "customers", "services", "companyName", "systemOk", "systemKnown",
              "auditEvents", "auditProof", "journalIntegrityReport", "outgoingBankRow", "bankImportRules", "fixedAssets"}
OddLists == {"systemOk", "monthlyCloseUnbalancedGroups", "draftInvoices", "storedVatDiffers",
             "renderRecoveryWasTriggered"}
==============================================================================
