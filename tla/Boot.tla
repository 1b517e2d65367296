-------------------------------- MODULE Boot --------------------------------
(***************************************************************************)
(* From the files on the build machine to the first process in user mode:  *)
(* Image, then main of system.c, which sets up what Kernel starts from.    *)
(* One function that main calls is one action (set_user_pages one per      *)
(* page).  main runs on a stack inside task[3] and enables interrupts just *)
(* before it drops to user mode, so that the clock may tick in between.    *)
(***************************************************************************)
EXTENDS Kernel, Image

CONSTANT PAGE_SIZE   \* units in a page

VARIABLES set_up,   \* what the interrupt handlers rely on and is set up
          user      \* units at L_USER_START, through the page table in use

mainVars == <<set_up, user>>
bootVars == <<kernelVars, imageVars, mainVars>>

(* main's stack ends 20 bytes below &task[4].                              *)
boot_slot == 3

(* The user's pages and the memory below INITSEG are less than 1 MB.       *)
ASSUME BootAssumption ==
  /\ boot_slot \in Task /\ PAGE_SIZE \in Nat \ {0}
  /\ PAGE_SIZE * (NUM_PAG_DATA + NUM_PAG_CODE) + ROOM * SEGMENT * SECTOR
       <= (16 * PARAGRAPHS - 1) * PARA

(* Variables in .bss and .data.task are zero.                              *)
BInit ==
  /\ IInit
  /\ current = boot_slot /\ readyq = <<>> /\ freeq = <<>> /\ blocked = {}
  /\ quantum_ticks = 0 /\ last_pid = 1
  /\ PID = [t \in Task |-> 0] /\ quantum = [t \in Task |-> 0]
  /\ parent = [t \in Task |-> NULL] /\ childs = [t \in Task |-> {}]
  /\ pending_unblocks = [t \in Task |-> 0]
  /\ phys_mem = {} /\ pagusr_table = [t \in Task |-> [p \in Page |-> 0]]
  /\ content = [f \in Frame |-> 0] /\ cr3 = NULL /\ tlb = {} /\ live = {}
  /\ child = NULL /\ pag = 0 /\ halted = FALSE
  /\ set_up = {} /\ user = <<>>

goto(from, to) ==
  /\ stage = from /\ stage' = to
  /\ UNCHANGED <<loaderVars, sys_size, usr_size, left, zeos_bin, a20, ax, hma>>

load_image == INext /\ UNCHANGED <<kernelVars, mainVars>>

kernel_loaded ==
  /\ loaded(0) = header
  /\ \A i \in 1 .. sys_size - 1 : loaded(i) = <<"system", i + 1>>

(* setGdt, setIdt and setTSS; what runs instead of a damaged kernel is     *)
(* anybody's guess.                                                        *)
set_tables ==
  /\ goto("main", IF kernel_loaded THEN "init_mm" ELSE "crashed")
  /\ set_up' = {"gdt", "idt", "tss"}
  /\ UNCHANGED <<kernelVars, user>>

init_mm ==
  /\ goto("init_mm", "init_sched")
  /\ pagusr_table' = [t \in Task |-> [p \in Page |-> 0]]
  /\ phys_mem' = init_frames
  /\ set_cr3(idle_task)
  /\ set_up' = set_up \cup {"paging"}
  /\ UNCHANGED <<vars, content, live, child, pag, halted, user>>

init_sched ==
  /\ goto("init_sched", "init_idle")
  /\ readyq' = <<>> /\ blocked' = {}
  /\ freeq' = [i \in 1 .. NR_TASKS - 2 |-> i + 1]
  /\ set_up' = set_up \cup {"queues"}
  /\ UNCHANGED <<current, quantum_ticks, last_pid, PID, quantum, parent, childs,
                 pending_unblocks, memVars, halted, user>>

init_idle ==
  /\ goto("init_idle", "init_task1")
  /\ PID' = [PID EXCEPT ![idle_task] = 0]
  /\ quantum' = [quantum EXCEPT ![idle_task] = 1]
  /\ childs' = [childs EXCEPT ![idle_task] = {}]
  /\ UNCHANGED <<current, readyq, freeq, blocked, quantum_ticks, last_pid, parent,
                 pending_unblocks, memVars, halted, mainVars>>

init_task1 ==
  /\ goto("init_task1", "set_user_pages")
  /\ PID' = [PID EXCEPT ![init_task] = 1]
  /\ quantum' = [quantum EXCEPT ![init_task] = QUANTUM]
  /\ quantum_ticks' = QUANTUM
  /\ childs' = [childs EXCEPT ![init_task] = {}]
  /\ UNCHANGED <<current, readyq, freeq, blocked, last_pid, parent,
                 pending_unblocks, memVars, halted, mainVars>>

Bug_nth_page(n) == n

(* The page mapped by iteration n of the two loops, code first.            *)
nth_page(n) == IF n < NUM_PAG_CODE THEN NUM_PAG_DATA + n ELSE n - NUM_PAG_CODE

set_user_pages ==
  /\ goto("set_user_pages", "set_user_pages")
  /\ pag < NUM_PAG_CODE + NUM_PAG_DATA /\ pag' = pag + 1
  /\ \E f \in free_frames :
       /\ alloc_frame(f)
       /\ pagusr_table' = [pagusr_table EXCEPT ![init_task][nth_page(pag)] = f]
  /\ UNCHANGED <<vars, content, cr3, tlb, live, child, halted, mainVars>>

Bug_load_init_space == cr3' = cr3 /\ tlb' = {}

load_init_space == set_cr3(init_task)

init_task1_ends ==
  /\ goto("set_user_pages", "copy_data")
  /\ pag = NUM_PAG_CODE + NUM_PAG_DATA /\ pag' = 0
  /\ live' = {init_task}
  /\ load_init_space
  /\ UNCHANGED <<vars, phys_mem, pagusr_table, content, child, halted, mainVars>>

(* Unit i of the copy goes to a page that is present.                      *)
mapped(i) ==
  LET p == (i - 1) \div PAGE_SIZE IN p \in Page /\ pagusr_table[cr3][p] # 0

(* The user program lies behind the system, whose length main reads from   *)
(* its own first words; user frames are beyond 1 MB, behind the gate.      *)
copied(n) ==
  IF a20 THEN [i \in 1 .. n |-> loaded(loaded(0)[2] + i - 1)] ELSE <<>>

copy_user ==
  /\ goto("copy_data", "enable_int")
  /\ \A i \in 1 .. loaded(0)[3] : mapped(i)
  /\ user' = copied(loaded(0)[3])
  /\ UNCHANGED <<kernelVars, set_up>>

(* The copy comes to a page that is not present; the handler of the page   *)
(* fault loops for ever.                                                   *)
copy_faults ==
  /\ goto("copy_data", "segmentation_fault")
  /\ \E n \in 0 .. loaded(0)[3] - 1 :
       /\ \A i \in 1 .. n : mapped(i)
       /\ ~ mapped(n + 1)
       /\ user' = copied(n)
  /\ halted' = TRUE
  /\ UNCHANGED <<vars, memVars, set_up>>

enable_int ==
  /\ goto("enable_int", "return_gate")
  /\ set_up' = set_up \cup {"interrupts"}
  /\ UNCHANGED <<kernelVars, user>>

(* A tick while main still runs, on the stack in boot_slot.                *)
early_tick ==
  /\ stage = "return_gate" /\ "interrupts" \in set_up
  /\ scheduler
  /\ stage' = IF /\ current' = current
                 /\ {"gdt", "idt", "tss", "paging", "queues"} \subseteq set_up
              THEN stage ELSE "crashed"
  /\ UNCHANGED <<loaderVars, sys_size, usr_size, left, zeos_bin, a20, ax, hma,
                 memVars, halted, mainVars>>

(* lret to usr_main; traps will use the stack of the first process.        *)
return_gate ==
  /\ goto("return_gate", "usr_main")
  /\ current' = init_task
  /\ UNCHANGED <<readyq, freeq, blocked, quantum_ticks, last_pid, PID, quantum,
                 parent, childs, pending_unblocks, memVars, halted, mainVars>>

Main == \/ set_tables \/ init_mm \/ init_sched \/ init_idle \/ init_task1
        \/ set_user_pages \/ init_task1_ends \/ copy_user \/ copy_faults
        \/ enable_int \/ return_gate

BNext == load_image \/ Main \/ early_tick

(* The builder, the loader and main go on by themselves, and the keyboard  *)
(* controller carries out its command.                                     *)
BSpec ==
  /\ BInit /\ [][BNext]_bootVars
  /\ WF_bootVars(load_image) /\ WF_bootVars(gate_opens /\ load_image)
  /\ WF_bootVars(Main)

-----------------------------------------------------------------------------
(* Properties.                                                             *)

(* The first process starts with exactly the file the builder was given at *)
(* L_USER_START, whatever the lengths of the two files modulo paragraph,   *)
(* sector, track and segment, unless the BIOS failed to read.  A file that *)
(* was cut or not loaded whole is never started.                           *)
UserImageIntact ==
  stage = "usr_main" /\ ~ failed => user = unit("user", 0, usr_size)

(* When user mode is reached, main has established what the kernel starts  *)
(* from, also if the clock ticked first.                                   *)
BootEstablishesKernel == stage = "usr_main" => KInit

(* Nor does anybody check that the user program fits into the pages of the *)
(* first process.                                                          *)
user_fits == usr_size <= PAGE_SIZE * (NUM_PAG_DATA + NUM_PAG_CODE)

(* User mode is reached only with an image that fits, and each way not to  *)
(* get there has its own reason: the boot sector is overwritten only by an *)
(* image that is too long, main copies beyond the mapped pages only with a *)
(* user program that is too long, and a damaged kernel, or an interrupt    *)
(* before its handler can run, is met only if the image is too long or the *)
(* BIOS failed to read.                                                    *)
BootsOnlyIfFits ==
  /\ stage = "overwritten" => ~ loadable
  /\ stage = "segmentation_fault" => ~ user_fits
  /\ stage = "crashed" => failed \/ ~ loadable
  /\ stage = "usr_main" => loadable /\ user_fits

(* An image that was built boots if it fits, and if it does not, stops the *)
(* machine on the way; unless the BIOS failed to read.                     *)
BootReachesUser ==
  stage = "read_it" ~>
    \/ failed
    \/ IF loadable /\ user_fits THEN stage = "usr_main"
       ELSE stage \in {"overwritten", "crashed", "segmentation_fault"}
=============================================================================
