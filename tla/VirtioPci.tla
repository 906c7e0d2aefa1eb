------------------------------ MODULE VirtioPci ------------------------------
(***************************************************************************)
(* The register interface of a virtio device, VirtioPciDevice in            *)
(* src/virtio/virtio_pci_device.js: feature negotiation, device status,     *)
(* queue selection and enabling, the doorbell, and the ISR byte.            *)
(*                                                                         *)
(* The guest may write the modern registers (BAR1) and the legacy ones      *)
(* (BAR0) at any time and in any order.  Every access is handled in one     *)
(* turn of the worker.  Ring addresses and sizes are left out: the driver   *)
(* writes them before it enables the queue.  The hold on the interrupt line *)
(* is IrqController's; here the ISR is one bit.                             *)
(*                                                                         *)
(* A device extends this module with what its queues do.                   *)
(***************************************************************************)
EXTENDS Naturals

CONSTANTS
    NumQueues,  \* queues.length
    Offered     \* deviceFeatures

Queue    == 0..(NumQueues - 1)
LowWord  == {"EVENT_IDX", "UNOFFERED"}   \* feature bits 0..31
HighWord == {"VERSION_1"}                \* feature bits 32..63
Feature  == LowWord \cup HighWord
Status   == {"DRIVER", "FEATURES_OK"}

ASSUME QueueAssumption   == NumQueues \in Nat \ {0}
ASSUME OfferedAssumption == HighWord \subseteq Offered /\ "UNOFFERED" \notin Offered

VARIABLES
    driverFeatures,
    driverFeatureSelect,  \* the word driver_feature addresses
    deviceStatus,
    selectedQueueIdx,
    enabled,              \* the queues that are enabled
    isr,                  \* VIRTIO_ISR_QUEUE is latched
    late                  \* history: features were written since FEATURES_OK was accepted

negotiationVars == <<driverFeatures, driverFeatureSelect, deviceStatus, late>>
pciVars == <<negotiationVars, selectedQueueIdx, enabled, isr>>

PciTypeOK ==
    /\ driverFeatures \subseteq Feature /\ driverFeatureSelect \in {0, 1}
    /\ deviceStatus \subseteq Status
    /\ selectedQueueIdx \in Queue /\ enabled \subseteq Queue
    /\ isr \in BOOLEAN /\ late \in BOOLEAN

PciInit ==
    /\ driverFeatures = {} /\ driverFeatureSelect = 0 /\ deviceStatus = {}
    /\ selectedQueueIdx = 0 /\ enabled = {}
    /\ isr = FALSE /\ late = FALSE

-----------------------------------------------------------------------------
(* Feature negotiation.                                                    *)

WriteDriverFeatureSelect(val) ==
    /\ driverFeatureSelect' = val % 2
    /\ UNCHANGED <<driverFeatures, deviceStatus, late, selectedQueueIdx, enabled, isr>>

(* The values worth writing to a word: no bit or one.                       *)
Writable(word) == {{}} \cup {{f} : f \in word}

SetFeatures(word, features) ==
    /\ driverFeatures' = (driverFeatures \ word) \cup features
    /\ late' = ("FEATURES_OK" \in deviceStatus)
    /\ UNCHANGED <<driverFeatureSelect, deviceStatus, selectedQueueIdx, enabled, isr>>

(* driver_feature writes the word that was selected, ...                   *)
WriteDriverFeature ==
    LET word == IF driverFeatureSelect = 0 THEN LowWord ELSE HighWord IN
    \E features \in Writable(word) : SetFeatures(word, features)

(* ... the legacy register always the low one.                             *)
WriteLegacyFeatures == \E features \in Writable(LowWord) : SetFeatures(LowWord, features)

\* Mutant: VERSION_1 is not asked for.
AcceptableUnversioned(features) == features \subseteq Offered

Acceptable(features) == features \subseteq Offered /\ "VERSION_1" \in features

(* A write of a status other than 0.  The features are looked at when       *)
(* FEATURES_OK is set, not while it stays set.  onDriverOk does nothing in  *)
(* any device.                                                             *)
SetDeviceStatus(status) ==
    LET verify  == "FEATURES_OK" \in status \ deviceStatus
        refused == verify /\ ~Acceptable(driverFeatures) IN
    /\ status # {}
    /\ deviceStatus' = IF refused THEN status \ {"FEATURES_OK"} ELSE status
    /\ late' = (late /\ "FEATURES_OK" \in status \cap deviceStatus)
    /\ UNCHANGED <<driverFeatures, driverFeatureSelect, selectedQueueIdx, enabled, isr>>

(* What the devices hand to shouldNotify.                                  *)
EventIdxNegotiated == "EVENT_IDX" \in Offered \cap driverFeatures

-----------------------------------------------------------------------------
(* Queues.                                                                 *)

(* An index past the last queue selects the last one.                       *)
WriteQueueSelect(val) ==
    /\ selectedQueueIdx' = IF val \in Queue THEN val ELSE NumQueues - 1
    /\ UNCHANGED <<negotiationVars, enabled, isr>>

SetEnabled(on) ==
    /\ enabled' = IF on THEN enabled \cup {selectedQueueIdx} ELSE enabled \ {selectedQueueIdx}
    /\ UNCHANGED <<negotiationVars, selectedQueueIdx, isr>>

WriteQueueEnable(val) == SetEnabled(val % 2 = 1)
WriteLegacyPfn(pfn)   == SetEnabled(pfn # 0)

(* The doorbell is heard by enabled queues only.                           *)
NotifyQueue(q) == q \in enabled

(* Reading the ISR, through either BAR, clears it.                          *)
ReadIsr ==
    /\ isr' = FALSE
    /\ UNCHANGED <<negotiationVars, selectedQueueIdx, enabled>>

(* Status 0.  driverFeatureSelect survives.                                *)
Reset ==
    /\ deviceStatus' = {} /\ driverFeatures' = {} /\ late' = FALSE
    /\ selectedQueueIdx' = 0 /\ enabled' = {} /\ isr' = FALSE
    /\ UNCHANGED driverFeatureSelect

(* Register writes that concern negotiation, and the choice of a queue.     *)
Negotiate ==
    \/ \E val \in 1..2 : WriteDriverFeatureSelect(val)
    \/ WriteDriverFeature
    \/ WriteLegacyFeatures
    \/ \E status \in {{"DRIVER"}, Status} : SetDeviceStatus(status)
    \/ \E val \in 0..(NumQueues) : WriteQueueSelect(val)

-----------------------------------------------------------------------------
(* FEATURES_OK tells the truth: while the status shows it, the features are *)
(* among the offered ones and VERSION_1 is one of them, whatever words were *)
(* written through either BAR and in whatever order (virtio_pci_device.js   *)
(* 379-397), unless they were written after it had been accepted: those are *)
(* not looked at again, although the queues ask for them at every use       *)
(* (492-495).                                                              *)
FeaturesHonest ==
    "FEATURES_OK" \in deviceStatus /\ ~late =>
        driverFeatures \subseteq Offered /\ "VERSION_1" \in driverFeatures

=============================================================================
