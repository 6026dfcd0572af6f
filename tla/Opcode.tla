-------------------------------- MODULE Opcode ---------------------------------
(***************************************************************************)
(* The opcodes of opcode.h, which the compiler writes and VM_run executes. *)
(***************************************************************************)
NOOP == 0
SETLINE == 1
PUSHSELF == 16
PUSH == 17
PUSHTRUE == 18
PUSHFALSE == 19
PUSHNIL == 20
PUSHLOBBY == 21
PUSHLOCAL == 32
SETLOCAL == 33
PUSHLOCALDEPTH == 34
SETLOCALDEPTH == 35
JMP == 48
JIF == 49
JIT == 50
GOTO == 51
GETSLOT == 64
SETSLOT == 65
POP == 66
DEFN == 67
MAKEVEC == 68
SEND == 128
RET == 144
DUMP == 145

Opcodes == {NOOP, SETLINE, PUSHSELF, PUSH, PUSHTRUE, PUSHFALSE, PUSHNIL, PUSHLOBBY,
            PUSHLOCAL, SETLOCAL, PUSHLOCALDEPTH, SETLOCALDEPTH, JMP, JIF, JIT, GOTO,
            GETSLOT, SETSLOT, POP, DEFN, MAKEVEC, SEND, RET, DUMP}
==============================================================================
