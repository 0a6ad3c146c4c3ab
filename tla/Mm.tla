---------------------------------- MODULE Mm ----------------------------------
(***************************************************************************)
(* The page arithmetic of src/memory/mm.h.  Addresses are natural numbers  *)
(* counted in bytes; PAGE_SIZE is 0x1000 in the kernel and a small number  *)
(* in the instances TLC checks.  PAGE_SIZE is a power of two in the code,  *)
(* where "& PAGE_MASK" and "& ~PAGE_MASK" are the remainder and the        *)
(* rounding written here.                                                  *)
(***************************************************************************)
EXTENDS Integers

CONSTANT PAGE_SIZE

ASSUME PageSizeAssumption == PAGE_SIZE \in Nat \ {0}

IS_PAGE_ALIGNED(addr) == addr % PAGE_SIZE = 0

\* PAGE_ALIGN_UP(size) / PAGE_SIZE: the pages that a size touches.
PAGE_COUNT(size) == (size + PAGE_SIZE - 1) \div PAGE_SIZE

===============================================================================
