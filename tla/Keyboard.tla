------------------------------ MODULE Keyboard ------------------------------
(***************************************************************************)
(* From a key to the terminal's line: the PS/2 driver (drivers/ps2.cpp)    *)
(* run by IRQ1, the ring buffer it fills, and the terminal thread          *)
(* (util/terminal_support.cpp) that drains it.                             *)
(*                                                                         *)
(* The keyboard is external.  It emits the bytes of a key one at a time    *)
(* into the controller's one byte output buffer and answers a command with *)
(* ACK or RESEND between any two of them.  IRQ1 is taken only while        *)
(* interrupts are enabled, so every stretch of the terminal between cli    *)
(* and sti is one step, and "sti; hlt" is one too: the CPU takes no        *)
(* interrupt between the two.                                              *)
(***************************************************************************)
EXTENDS RingBuffer

CONSTANTS
  Keys,       \* one byte scan codes of set 1, below 0x80
  MAX_RETRY,  \* ps2.hpp: 3
  columns,    \* width of the text screen
  MaxTyped    \* bound on the key presses of a behaviour

ACK           == 250
RESEND        == 254
E0            == 224
SCANNING_BYTE == 244
Enter         == 28
KeypadEnter   == 156
Backspace     == 14
PromptSize    == 8      \* sizeof(prompt), the closing zero included

VARIABLES
  kbd,       \* Ps2Keyboard: data, signal, nack_count, state_machine, last_data
  obf,       \* the controller's output buffer, 0 when empty
  port,      \* FALSE once the driver disabled port 1
  device,    \* the keyboard: bytes to emit, unanswered command, its count
  pc,        \* where the terminal thread is
  IF_flag,   \* RFLAGS.IF while the terminal thread owns the CPU
  key,       \* read_and_echo's key
  length,    \* characters behind the prompt
  panicked,  \* klog_panic was called
  typed,     \* every code a key press stands for, in the order typed
  taken      \* the codes the terminal took out of the buffer

vars == <<kbd, obf, port, device, pc, IF_flag, key, length, panicked, typed, taken>>

terminal == <<pc, IF_flag, key, length, taken>>

(* No key's release looks like a prefix or a reply.                        *)
ASSUME KeyboardAssumption ==
  /\ Keys \subseteq (1 .. 127) \ {ACK - 128, RESEND - 128, E0 - 128}
  /\ MAX_RETRY \in Nat \ {0}
  /\ columns \in Nat /\ MaxTyped \in Nat
-----------------------------------------------------------------------------
(* Ps2Keyboard.                                                            *)

ps2_is_release(byte) == byte >= 128

ps2_single_byte(byte) == byte % 128

ps2_extend_codes(byte) == 128 + (byte % 128)

(* Mutant: an answer from the controller ends the prefix. *)
on_reply_resets(k, byte) ==
  IF byte = ACK THEN [k EXCEPT !.signal = "Ack", !.nack_count = 0, !.state_machine = "None"]
  ELSE IF k.nack_count + 1 >= MAX_RETRY
       THEN [k EXCEPT !.signal = "Error", !.nack_count = 0]
       ELSE [k EXCEPT !.signal = "Nack", !.nack_count = @ + 1]

(* Mutant: the retry limit is off by one. *)
on_reply_one_more(k, byte) ==
  IF byte = ACK THEN [k EXCEPT !.signal = "Ack", !.nack_count = 0]
  ELSE IF k.nack_count + 1 > MAX_RETRY
       THEN [k EXCEPT !.signal = "Error", !.nack_count = 0]
       ELSE [k EXCEPT !.signal = "Nack", !.nack_count = @ + 1]

(* ACK and RESEND.                                                         *)
on_reply(k, byte) ==
  IF byte = ACK THEN [k EXCEPT !.signal = "Ack", !.nack_count = 0]
  ELSE IF k.nack_count + 1 >= MAX_RETRY
       THEN [k EXCEPT !.signal = "Error", !.nack_count = 0]
       ELSE [k EXCEPT !.signal = "Nack", !.nack_count = @ + 1]

(* The code a byte that is neither a reply nor a prefix stands for.        *)
decode(k, byte) ==
  IF k.state_machine = "E0" THEN ps2_extend_codes(byte) ELSE ps2_single_byte(byte)

(* isr_keyboard: on_recieve of the byte, then eoi.  write_data sends the   *)
(* last command again; write_cmd(DISABLE_PORT1) turns the port off.        *)
OnReply ==
  LET k == on_reply(kbd, obf)
  IN  /\ obf \in {ACK, RESEND}
      /\ kbd' = k
      /\ port' = (port /\ k.signal # "Error")
      /\ device' = IF k.signal = "Nack"
                   THEN [device EXCEPT !.cmd = k.last_data, !.sends = @ + 1]
                   ELSE device
      /\ UNCHANGED panicked

OnPrefix ==
  /\ obf = E0
  /\ kbd' = [kbd EXCEPT !.state_machine = "E0"]
  /\ UNCHANGED <<port, device, panicked>>

OnCode ==
  LET code == decode(kbd, obf)
      k    == [kbd EXCEPT !.state_machine = "None"]
      drop == ps2_is_release(obf)
  IN  /\ obf \notin {0, ACK, RESEND, E0}
      /\ panicked' = (~drop /\ is_full(kbd.data))
      /\ kbd' = IF drop \/ is_full(kbd.data) THEN k
                ELSE [k EXCEPT !.data = buf_write(@, code)]
      /\ UNCHANGED <<port, device>>

(* An interrupt wakes a halted CPU; the terminal goes on with cli.         *)
wake == pc' = IF pc = "hlt" THEN "cli" ELSE pc

isr_keyboard ==
  /\ ~panicked /\ IF_flag
  /\ OnReply \/ OnPrefix \/ OnCode
  /\ obf' = 0
  /\ wake
  /\ UNCHANGED <<IF_flag, key, length, typed, taken>>

(* Any other interrupt, the timer's above all.                             *)
OtherIrq ==
  /\ ~panicked /\ IF_flag /\ pc = "hlt"
  /\ wake
  /\ UNCHANGED <<kbd, obf, port, device, IF_flag, key, length, panicked, typed, taken>>
-----------------------------------------------------------------------------
(* Input::read_and_echo.                                                   *)

TerminalCli ==
  /\ ~panicked /\ pc = "cli"
  /\ IF_flag' = FALSE
  /\ pc' = "test"
  /\ UNCHANGED <<kbd, obf, port, device, key, length, panicked, typed, taken>>

(* Mutant: the CPU halts with interrupts off. *)
HaltWhenEmpty_masked ==
  /\ ~panicked /\ pc = "test" /\ is_empty(kbd.data)
  /\ pc' = "hlt"
  /\ UNCHANGED <<kbd, obf, port, device, IF_flag, key, length, panicked, typed, taken>>

(* sti; hlt.                                                               *)
HaltWhenEmpty ==
  /\ ~panicked /\ pc = "test" /\ is_empty(kbd.data)
  /\ IF_flag' = TRUE
  /\ pc' = "hlt"
  /\ UNCHANGED <<kbd, obf, port, device, key, length, panicked, typed, taken>>

(* get_read, buf_read, sti.                                                *)
TakeKey ==
  /\ ~panicked /\ pc = "test" /\ ~is_empty(kbd.data)
  /\ key' = get_read(kbd.data)
  /\ taken' = Append(taken, key')
  /\ kbd' = [kbd EXCEPT !.data = buf_read(@)]
  /\ IF_flag' = TRUE
  /\ pc' = "echo"
  /\ UNCHANGED <<obf, port, device, length, panicked, typed>>

limit == IF columns > PromptSize THEN columns - PromptSize ELSE 0

Printable(code) == code < 58 /\ code \notin {0, 1, 14, 15, 28, 29, 42, 54, 56}

edit(code, len) ==
  IF code \in {Enter, KeypadEnter} THEN 0
  ELSE IF code = Backspace THEN IF len # 0 THEN len - 1 ELSE len
  ELSE IF Printable(code) /\ len < limit THEN len + 1 ELSE len

Echo ==
  /\ ~panicked /\ pc = "echo"
  /\ length' = edit(key, length)
  /\ pc' = "cli"
  /\ UNCHANGED <<kbd, obf, port, device, IF_flag, key, panicked, typed, taken>>
-----------------------------------------------------------------------------
(* The keyboard.                                                           *)

(* A key, plain or with the prefix, is pressed or released, once the bytes *)
(* of the one before are collected.                                        *)
Type(k, extended, release) ==
  /\ device.todo = <<>> /\ obf \in {0, ACK, RESEND} /\ Len(typed) < MaxTyped
  /\ device' = [device EXCEPT !.todo =
                  (IF extended THEN <<E0>> ELSE <<>>) \o <<IF release THEN k + 128 ELSE k>>]
  /\ typed' = IF release THEN typed
              ELSE Append(typed, IF extended THEN k + 128 ELSE k)
  /\ UNCHANGED <<kbd, obf, port, terminal, panicked>>

Emit ==
  /\ port /\ obf = 0 /\ device.todo # <<>>
  /\ obf' = Head(device.todo)
  /\ device' = [device EXCEPT !.todo = Tail(@)]
  /\ UNCHANGED <<kbd, port, terminal, panicked, typed>>

(* After ACK the command is done and its transmissions no longer counted.  *)
Answer(reply) ==
  /\ port /\ obf = 0 /\ device.cmd # 0
  /\ obf' = reply
  /\ device' = [device EXCEPT !.cmd = 0, !.sends = IF reply = ACK THEN 0 ELSE @]
  /\ UNCHANGED <<kbd, port, terminal, panicked, typed>>

(* keyboard_init ran: the buffer is drained and SCANNING_BYTE was sent.    *)
Init ==
  /\ kbd = [data |-> Empty(0), signal |-> "Ack", nack_count |-> 0,
            state_machine |-> "None", last_data |-> SCANNING_BYTE]
  /\ obf = 0 /\ port = TRUE
  /\ device = [todo |-> <<>>, cmd |-> SCANNING_BYTE, sends |-> 1]
  /\ pc = "cli" /\ IF_flag = TRUE /\ key = 0 /\ length = 0
  /\ panicked = FALSE /\ typed = <<>> /\ taken = <<>>

Terminal == TerminalCli \/ HaltWhenEmpty \/ TakeKey \/ Echo

Next ==
  \/ isr_keyboard \/ OtherIrq \/ Terminal
  \/ \E k \in Keys, extended, release \in BOOLEAN : Type(k, extended, release)
  \/ Emit
  \/ \E reply \in {ACK, RESEND} : Answer(reply)

(* The scheduler gives a ready thread the CPU again and again.  The PIC    *)
(* holds a pending IRQ1 while interrupts are off and raises it when they   *)
(* are on again, so it cannot be passed over forever.  The keyboard goes   *)
(* on with a key it started; it need not answer commands.                  *)
Spec ==
  Init /\ [][Next]_vars /\ WF_vars(Terminal) /\ SF_vars(isr_keyboard) /\ WF_vars(Emit)
-----------------------------------------------------------------------------
(* The code of a key press whose bytes are on their way: o is the byte in  *)
(* the controller, todo what the keyboard has yet to emit.                 *)
Flying(o, todo, state) ==
  LET bytes == {o} \cup {todo[i] : i \in DOMAIN todo}
      long  == state = "E0" \/ E0 \in bytes
  IN  IF bytes \cap Keys = {} THEN <<>>
      ELSE <<(CHOOSE b \in bytes : b \in Keys) + (IF long THEN 128 ELSE 0)>>

InFlight == Flying(obf, device.todo, kbd.state_machine)

(* Every key press reaches the terminal once, in the order typed and with  *)
(* its own code, whatever replies, releases and interrupts come between    *)
(* its bytes; only the panic of a full buffer ends that, and the buffer is *)
(* full with N - 1 unread codes, no sooner and no later.                   *)
KeysInOrder ==
  IF panicked THEN kbd.data.size = N - 1 /\ Len(Contents(kbd.data)) = N - 1
  ELSE typed = taken \o Contents(kbd.data) \o InFlight

(* A command is transmitted at most MAX_RETRY times before the driver gives*)
(* up, and giving up turns the port off.                                   *)
RetriesBounded ==
  /\ device.sends <= MAX_RETRY
  /\ kbd.signal = "Error" => ~port

(* Every key press is read by the terminal, unless the buffer overflowed   *)
(* or the port was given up: no wakeup is lost between the test for an     *)
(* empty buffer and hlt.                                                   *)
KeysAreTaken ==
  \A n \in 1 .. MaxTyped :
    Len(typed) >= n ~> (Len(taken) >= n \/ panicked \/ ~port)
=============================================================================
