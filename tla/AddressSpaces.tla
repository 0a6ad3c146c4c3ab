----------------------------- MODULE AddressSpaces ----------------------------
(***************************************************************************)
(* What paging promises, without tables: every address space has user      *)
(* mappings of its own, and all of them see the same kernel mappings.      *)
(***************************************************************************)
EXTENDS Integers

CONSTANTS
  UserPages, KernelPages,  \* the pages of the two halves
  Unmapped                 \* what a page without a mapping shows

VARIABLES
  spaces,  \* the address spaces there are
  user,    \* user[s][page]
  kernel   \* kernel[page]

asVars == <<spaces, user, kernel>>

ASInit ==
  /\ spaces = {}
  /\ \A page \in KernelPages : kernel[page] = Unmapped

\* The pages a step changes in address spaces that exist before and after it.
UserChanges ==
  {c \in (spaces \cap spaces') \X UserPages : user'[c[1]][c[2]] # user[c[1]][c[2]]}
KernelChanges == {page \in KernelPages : kernel'[page] # kernel[page]}

\* A new address space starts without user mappings.
Create ==
  /\ \A s \in spaces' \ spaces, page \in UserPages : user'[s][page] = Unmapped
  /\ spaces \subseteq spaces' /\ spaces # spaces'
  /\ UserChanges = {} /\ KernelChanges = {}

\* Destroying an address space takes nothing from the others.
Destroy ==
  /\ spaces' \subseteq spaces /\ spaces # spaces'
  /\ UserChanges = {} /\ KernelChanges = {}

\* One page gets or loses its mapping: a user page in one address space, a
\* kernel page in all of them.
SetPage ==
  /\ spaces' = spaces
  /\ \/ KernelChanges = {} /\ \E c \in UserChanges : UserChanges = {c}
     \/ UserChanges = {} /\ \E page \in KernelChanges : KernelChanges = {page}

ASNext == Create \/ Destroy \/ SetPage

ASSpec == ASInit /\ [][ASNext]_asVars

===============================================================================
