-------------------------- MODULE MCPosBackOffice --------------------------
(***************************************************************************)
(* Instances of what happens away from the till: the close of a session,   *)
(* the generic surface, the seeders, the old-session alert and the printed *)
(* receipt.  They share no state here, so a behaviour follows one of them  *)
(* (its desk) and leaves the others at rest: the states are the sum of     *)
(* theirs, not the product.                                                *)
(***************************************************************************)
EXTENDS PosClose, PosRows, PosSeeds, PosAlert, PosReceipt

VARIABLE desk
closeVars == vars
backOfficeVars == <<desk, closeVars, rowVars, seedVars, alertVars, receiptVars>>

BackOfficeInit ==
  /\ desk \in {"close", "rows", "seeds", "alert", "receipt"}
  /\ Init      /\ (desk # "close" => drawer = 0)
  /\ RowsInit  /\ (desk # "rows" => focus = [entity |-> "table", column |-> "name", mount |-> "all"])
  /\ SeedsInit /\ (desk # "seeds" => files = Entities)
  /\ AlertInit /\ ReceiptInit

BackOfficeNext ==
  \/ /\ desk = "close" /\ Next
     /\ UNCHANGED <<desk, rowVars, seedVars, alertVars, receiptVars>>
  \/ /\ desk = "rows" /\ RowsNext
     /\ UNCHANGED <<desk, closeVars, seedVars, alertVars, receiptVars>>
  \/ /\ desk = "seeds" /\ SeedsNext
     /\ UNCHANGED <<desk, closeVars, rowVars, alertVars, receiptVars>>
  \/ /\ desk = "alert" /\ AlertNext
     /\ UNCHANGED <<desk, closeVars, rowVars, seedVars, receiptVars>>
  \/ /\ desk = "receipt" /\ ReceiptNext
     /\ UNCHANGED <<desk, closeVars, rowVars, seedVars, alertVars>>

BackOfficeSpec == BackOfficeInit /\ [][BackOfficeNext]_backOfficeVars

\* Every part keeps its rows, requests and runs in shape.
BackOfficeTypeOK == TypeOK /\ RowsTypeOK /\ SeedsTypeOK /\ AlertTypeOK
                    /\ ReceiptTypeOK
=============================================================================
