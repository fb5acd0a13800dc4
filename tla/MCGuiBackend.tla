---------------------------- MODULE MCGuiBackend ----------------------------
(* Small instances of GuiBackend for TLC.                                  *)
EXTENDS GuiBackend

\* With Unlimited = 1 the only rate is 0, which a larger number is clamped to.
MCTexts == [form : {"blank", "junk"}, int : {0}] \cup [form : {"number"}, int : {-2, -1, 0, 3}]
MCAllFaults == {"INIT", "DISCOVERY", "READ", "LIMIT", "CLEAN", "GUI_KILLED", "BACKEND_KILLED"}

\* The failures of calls: nobody is killed.
MCCallFaults == MCAllFaults \ {"GUI_KILLED", "BACKEND_KILLED"}
=============================================================================
