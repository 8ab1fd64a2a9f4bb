--------------------------- MODULE MCFrameDatabase ---------------------------
(* Two memories of a few frames, each with a hole or a firmware range in   *)
(* the way, one region table that overlaps and one that does not cover the *)
(* assets of the launch block.                                             *)
EXTENDS FrameDatabase, TLC

Region(base, count, type, owner, source) ==
  [base |-> base, count |-> count, type |-> type, owner |-> owner, source |-> source]
Usable(base, count) == Region(base, count, "usable", "none", "efi")

MCRegionTables ==
  { << Usable(0, 2), Region(2, 1, "boot_reserved", "claimed", "runtime"), Usable(3, 4) >>,
    << Usable(1, 2), Region(3, 1, "acpi", "none", "efi"), Usable(5, 2),
       Region(7, 1, "mmio", "none", "efi") >>,
    << Usable(0, 3), Usable(2, 3) >>,
    << Usable(4, 2) >>,
    << Region(0, 1, "acpi", "none", "efi"), Region(1, 1, "unusable", "none", "efi"),
       Region(2, 1, "mmio", "none", "efi"), Usable(3, 3),
       Region(6, 1, "mmio", "none", "efi"), Region(7, 1, "acpi", "none", "efi") >> }

MCOverlays == << [base |-> 2, count |-> 1, usage |-> "service_image"],
                 [base |-> 2, count |-> 0, usage |-> "request_mailbox"] >>

Claim(count, min, max, align, below4G, owner) ==
  [count |-> count, min |-> min, max |-> max, align |-> align, below4G |-> below4G,
   exact |-> FALSE, desired |-> 0, owner |-> owner]
Exact(count, desired, owner) ==
  [count |-> count, min |-> 0, max |-> 0, align |-> 0, below4G |-> FALSE,
   exact |-> TRUE, desired |-> desired, owner |-> owner]

MCClaimRequests ==
  { Claim(c, 0, 0, 0, FALSE, "none") : c \in {1, 2, 16} }
  \cup { Claim(2, 1, 0, 2, FALSE, "none"), Claim(1, 0, 5, 1, FALSE, "claimed"),
         Claim(1, 3, 0, 3, FALSE, "none"), Claim(1, 6, 4, 1, FALSE, "none"),
         Claim(1, 4, 0, 1, TRUE, "other") }
  \cup { Exact(1, d, "other") : d \in {4, 15} } \cup { Exact(2, 5, "none") }

MCReserveRequests == { [base |-> b, count |-> 1, owner |-> "none"] : b \in {4, 5, 15} }

MCFreeRanges == { [base |-> 4, count |-> 2], [base |-> 5, count |-> 17], [base |-> 15, count |-> 1],
                  [base |-> 5, count |-> 1] }

MCTrackedRequests ==
  { [count |-> 2, align |-> 0, below4G |-> FALSE, usage |-> "service_image"],
    [count |-> 1, align |-> 1, below4G |-> FALSE, usage |-> "service_image"],
    [count |-> 1, align |-> 2, below4G |-> TRUE, usage |-> "heap"] }

MCUsages == {"free", "boot_reserved", "firmware", "acpi", "unusable", "runtime", "mmio",
             "service_image", "request_mailbox", "heap", "dynamic_reserved", "dynamic_claimed"}

(* The bound: histories end with the first rebuild that runs out.          *)
UntilOneRanOut == ~ranOut
=============================================================================
