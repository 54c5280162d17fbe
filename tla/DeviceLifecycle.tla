-------------------------- MODULE DeviceLifecycle --------------------------
(* The life of a handset: device_unit.status, and ALLOWED_TRANSITIONS.     *)

\* Nothing in the code reserves a handset, so RESERVED is left out.
DeviceStatus == {"IN_STOCK", "SOLD", "SOLD_PENDING_IMPORT", "RETURNED", "IN_TRANSIT",
                 "DAMAGED", "REPAIR", "LOST", "VOIDED"}

CanTransition(from, to) ==
    CASE from = "IN_STOCK" -> to \in {"SOLD", "SOLD_PENDING_IMPORT", "IN_TRANSIT", "DAMAGED",
                                      "LOST", "REPAIR", "VOIDED"}
      [] from = "SOLD" -> to = "RETURNED"
      [] from = "SOLD_PENDING_IMPORT" -> to \in {"SOLD", "RETURNED", "IN_STOCK"}
      [] from = "RETURNED" -> to \in {"IN_STOCK", "DAMAGED", "REPAIR", "LOST"}
      [] from = "IN_TRANSIT" -> to \in {"IN_STOCK", "LOST"}
      [] from = "DAMAGED" -> to \in {"REPAIR", "IN_STOCK", "LOST"}
      [] from = "REPAIR" -> to \in {"IN_STOCK", "DAMAGED", "LOST"}
      [] from = "LOST" -> to = "IN_STOCK"
      [] from = "VOIDED" -> FALSE
=============================================================================
