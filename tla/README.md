# Web recovery of the XG2010G / XR1710G U-Boot: TLA+ models and proofs

This directory models the part of the repository that can turn a router into a
brick: the web recovery that receives an image over HTTP and writes it to the
NAND. It is a fork of U-Boot for two Airoha AN7581 boards; almost all of the
tree is upstream code. The fork's own logic is `net/lwip/httpd_recovery.c`
(the recovery server), `board/airoha/an7581/` (when recovery is entered) and a
POST-response-ACK extension of lwIP's `httpd.c`.

## 1. The system

| component | state | operations | talks to |
|---|---|---|---|
| POST handling (`httpd_recovery.c:3599-3913`) | `post_ok`, `recv_off`, `recv_total`, receive buffer, `flash_request`, `reboot_post_pending`, `reboot_request`, `prog_phase` | `httpd_post_begin`, `httpd_post_receive_data`, `httpd_post_finished`, `httpd_post_response_complete` | called by lwIP; leaves requests for the main loop |
| lwIP httpd (`lib/lwip/lwip/src/apps/http/httpd.c`) | one `http_state` per TCP connection | `http_accept/recv/sent/poll/err`, `http_eof`, `http_post_*` | calls the POST callbacks |
| main loop (`run_http_recovery`, 4318-4459) | program position, pending reboot timeouts | poll the console and the network, start a flash, reset | calls `net_lwip_rx()`, `flash_image()` |
| raw flashing (`flash_image` 3916-4174, 2333-2684) | loop positions, `prog_*` counters; the NAND and its bad-block markers | pre-check, erase loop, write loop, read-back | calls the MTD layer; runs the network in between |
| UBI rebuild (2686-3223) | the UBI device, `struct recovery_target`, `prog_*` | erase, attach, create volumes, update, factory sync | MTD, UBI, board |
| target resolution (1955-2262) | `current_target`, `recovery_ubi_attach_error`, environment | map an upload kind to an MTD or UBI target, size limits | MTD, UBI, env |
| bootloader image validation (350-432, 2286-2331) | none | FIP table checks on the uploaded image | |
| GET side and backups (3250-3590, lwIP's `http_send`, `fs.c`) | per connection: open file, stream position and MTD reference, block buffer, retries | open, read a block, send, acknowledge, poll, close | MTD, TCP; runs next to `flash_image()` |
| session (`run_http_recovery`, 4197-4459; `net-lwip.c`; `eth-uclass.c`) | `ethact`, Ethernet use count, running devices, netif, hooks, listener, LED GPIOs | set up, four failure exits, Ctrl-C | environment, drivers, lwIP |
| DHCP server (1286-1655) | its addresses; nothing about hosts | classify, offer, acknowledge, refuse | network |
| LEDs (590-1280) | LED state | blink, show link and progress | GPIO |
| board entry (`an7581_rfb.c`) | one-shot trigger in uenv, button, cached UBI probe | decide at boot whether to enter recovery; factory sync | env, MTD, UBI |
| environment scripts (`*.env`) | U-Boot environment | TFTP flashing, boot order | MTD and UBI commands |

What makes it hard:

* There is one thread, but it is re-entered: the erase and write loops call
  `recovery_service_runtime()`, which runs `net_lwip_rx()`, which runs every
  HTTP callback and timer in the middle of `flash_image()`.
* Several TCP connections share one set of globals. The callbacks ignore the
  connection they are called for; only the busy test at the top of
  `httpd_post_begin()` keeps uploads apart.
* Effects are delayed on purpose: flashing waits for the response to be
  acknowledged, resetting for a timer. The state may have changed by then.
* The NAND fails: blocks are bad from the start, go bad under erase or write,
  or accept a program operation that stored something else. Power may go.
* Values are looked up twice: the target of an upload before it is received
  and again before it is flashed, with UBI attached or lost in between.
* A response outlives the file it came from: TCP sends and repeats segments
  after httpd has freed or reused the memory.
* A session takes half a dozen things one after the other and has four ways
  out; it can be entered again from the prompt.
* The bootloader region is read linearly by the BootROM, so its image must not
  be shifted by a skipped block, and must not be erased if it cannot be
  rewritten.

## 2. Modules

| module | what it is |
|---|---|
| `PartitionUpdate` | abstract specification: what `flash_image()` promises about a raw partition |
| `RawFlash` | the MTD branch of `flash_image()`, one step per loop iteration (eraseblock) |
| `MCRawFlash` | `RawFlash` for TLC |
| `RawFlashProofs` | inductive invariant and theorems about `RawFlash` |
| `RecoveryHttp` | POST callbacks, lwIP's POST connection life cycle, reboot timer, main loop |
| `MCRecoveryHttp` | `RecoveryHttp` for TLC, with the symmetry of the connections |
| `RecoveryHttpProofs` | inductive invariant and theorems about `RecoveryHttp` |
| `UbiRebuild` | the upload limit and the UBI branch of `flash_image()`, the factory sync, and the boot that follows |
| `MCUbiRebuild` | `UbiRebuild` for TLC |
| `UbiRebuildProofs` | inductive invariant and theorems about `UbiRebuild` |
| `FirmwareUpdate` | abstract specification: what a boot may load before, during and after a firmware update |
| `UbiFirmwareProofs` | proof that `UbiRebuild` implements `FirmwareUpdate` |
| `BootTrigger` | how `board_late_init()` decides between recovery and autoboot |
| `MCBootTrigger` | `BootTrigger` for TLC |
| `BootTriggerProofs` | invariants and theorems about `BootTrigger` |
| `FipImage` | the validation of a bootloader image, and a reference definition |
| `UploadTarget` | which flash an upload goes to, limits, RAM buffer, the checks before the erase; uses `FipImage` |
| `MCUploadTarget` | `UploadTarget` for TLC: boards, environments and images |
| `UploadTargetProofs` | inductive invariant and theorems about `UploadTarget` and `FipImage` |
| `BackupStream` | the GET side next to an update (`PartitionUpdate`) of what it reads |
| `MCBackupStream` | `BackupStream` for TLC |
| `BackupStreamProofs` | invariant of a connection and theorems about `BackupStream` |
| `RecoverySession` | what a session takes and gives back, and its DHCP server with one host |
| `MCRecoverySession` | `RecoverySession` for TLC |
| `RecoverySessionProofs` | inductive invariant and theorems about `RecoverySession` |

They meet at `flash_image()`: `BootTrigger` says when recovery runs,
`RecoverySession` what it needs to run, `RecoveryHttp` when it calls
`flash_image()` and with what, `UploadTarget` which region that call chooses,
`RawFlash` and `UbiRebuild` what it does there. Each keeps of the others only
what it needs: `RecoveryHttp` has the phases of a flash, `UbiRebuild` the choice
between recovery and autoboot. `PartitionUpdate` is the contract between two of
them: `RawFlash` is shown to implement it, and `BackupStream` composes it with
the downloads, so that what is shown there holds next to the real loops.

### PartitionUpdate

State: the job's two promises (`strict`: no bad block may be skipped; `exact`:
every byte at its own offset), the `bad` markers, the `region` (each block
`old`, `new` or `other`) and the `phase`. An update is refused with everything
untouched (`Refuse`), or starts, on a good region if strict (`Start`). Then it
works, never on a block that is marked bad (`Touch`), until it is committed,
with the whole region new if exact (`Commit`), aborted (`Abort`) or cut off
(`PowerLoss`). `RawFlash!Update` instantiates it: `phase` is read off `pc` and
the result, `region` off the cells.

### RawFlash

State: the job (`target`, `image` in chunks of one eraseblock), the position
(`pc`, `blk` for the loop variable `addr`, `written`, and `nbad` for the
counter of the pre-check), the NAND (`bad` markers, `cell` contents) and what
`/status` shows (`prog_phase`, `prog`). A cell is `Old`, `Erased`, `Junk` or the
number of the chunk it holds: the properties only ask whether the right chunk
is at the right place.

| action | code |
|---|---|
| `Begin` | `flash_image()` entering its MTD branch (4084-4142) |
| `CheckBlock`, `CheckEnd` | `recovery_mtd_require_good_blocks()` |
| `EraseBlock` | one iteration of `recovery_erase_mtd_region()`; marking a block bad and every exit included |
| `EraseEnd` | return to `flash_image()`, phase 2, start of the write loop |
| `WriteBlock` = `LoopError`, `WriteBad`, `WriteGood` or `WriteFailed` | one iteration of `recovery_write_mtd_region()` |
| `WriteEnd` | its end: `-ENOSPC`, or success and phase 3 |
| `PowerCut` | power lost anywhere; the block in work is half done |
| `NewJob` | the next upload; the NAND keeps its markers |

The environment may fail any query, erase, write, read or mark operation, and
may program junk while reporting success (`Programmed`). The checks at the top
of `recovery_mtd_validate_region()` and the allocation of the read-back buffer
are error exits (`LoopError`).

### RecoveryHttp

State: per connection `st` and `left` (`post_content_len_left`), the globals of
`httpd_recovery.c` under their own names, the number of pending
`reboot_delay_cb` timeouts, and `pc`: in the main loop, inside `flash_image()`,
back in the shell, or resetting. Lengths are counted in TCP segments; the
receive buffer remembers which connection each segment came from. Four history
variables (`owner`, `ownerAcked`, `rebooter`, `rebootAcked`) record whose
request was accepted last and whether that very response was acknowledged;
nothing in the model's control depends on them.

| action | code |
|---|---|
| `Accept` | `http_accept()` |
| `BeginRejected`, `BeginInvalid`, `BeginUpload`, `BeginReboot` | `httpd_post_begin()`, by outcome, with what `http_post_request()` does next; the reboot request has no body, so the same call reaches `httpd_post_finished()` |
| `Receive` | `http_recv()` -> `http_post_rxpbuf()` -> `httpd_post_receive_data()`, and `httpd_post_finished()` when nothing is left or the client overran its Content-Length |
| `ResponseAcked` | `http_sent()` -> `http_eof()` -> `httpd_post_response_complete(ERR_OK)` |
| `ConnLost` | `http_err()`, `http_close_conn()` or the retry limit of `http_poll()`: a pending response is reported lost, an unfinished body ends in `httpd_post_finished()` |
| `TimerFires` | `reboot_delay_cb()` |
| `StartFlash`, `FlashWrite`, `FlashError`, `FlashDone` | the phases of `flash_image()` and what the main loop does with its result |
| `DoReset`, `Boot` | `do_reset()` and the next start |
| `CtrlC`, `Restart` | leaving the loop from the console (one timeout cancelled, all connections aborted) and `http_recovery` run again |

A fifth, `overran`, remembers that some client sent more than it announced
since the board started: that is the only way a response can be pending while the server is
free (see `http_foreign_ack_flash` below).

The early returns of `httpd_post_receive_data()` for a connection that does not
own the upload are not modelled; `BodyOwnsServer` shows, and the theorem
`BodyOwned` proves, that they cannot be reached.

### UbiRebuild

State: the partition (`media`; the volume table as `there`, `pebs` and
`marker`; `data`), what is remembered in RAM (`attached`, `attach_error`,
`probed`), the job (`image`, `written`) and `pc`, `prog_phase`, `ret`. Three
history variables say how the upload limit came about (`roomy`), whether the
NAND stored junk, and whether anything failed.

| action | code |
|---|---|
| `LateInit`, `Triggered`, `BootUbi`, `BootFails` | `board_late_init()` with its UBI probe, the decision, and `bootcmd` from `xg2010g.env` |
| `Post`, `UploadLost` | `httpd_post_begin()` for a firmware: select UBI, compute the limit, accept or refuse; the upload that does not complete |
| `StartJob` | `flash_image()` up to its erase: `recovery_force_ubi_rebuild()` detaches |
| `EraseSome`, `EraseEnd`, `AttachNew` | `recovery_prepare_ubi_target()` |
| `CreateFit`, `CreateFactory`, `CreateRootfsData` | `recovery_create_ubi_target()`, `recovery_ensure_preserved_ubi_volumes()`, `recovery_ensure_rootfs_data()`, through `ubi_create_volume()` |
| `StartUpdate`, `WriteChunk`, `WriteEnd`, `CheckVolume` | `recovery_write_ubi_target()` and UBI's update marker |
| `SyncFactory`, `SyncEnd` | `xg2010g_sync_factory_part()`, whose result `flash_image()` ignores |
| `About` | `GET /about`, which probes UBI, served in the middle of the erase and write loops |
| `Reenter`, `Reboot`, `PowerCut` | Ctrl-C and `http_recovery`, a reset, power lost anywhere |

Abstractions: sizes are counted in logical eraseblocks. A change of the volume
table is atomic, as UBI makes it with two copies. A "mixed" partition, partly
erased or not written by UBI, may attach with volumes that lost data or fail to
attach: more than the driver would do. `bootm` refuses a FIT whose hashes do
not match. The comparison that may skip the factory sync reads an
uninitialised buffer when the volume was never written; it is taken as
different. Branches that cannot be reached for a firmware (resize and cleanup of
a UBI that was not erased, the second size check) are left out.

### FirmwareUpdate

State: `loads`, the set of possible results of loading the firmware at a boot (the
size of a complete one, or 0 for none), the size of the upload, whether the flash
`lied`, and the `phase`. Looking at the partition can only settle what is in
`loads` (`Settle`, `Accept`); an upload is dropped without a trace (`Drop`) or the
update starts. From then on the old firmware may go and the new one may come,
but nothing else can be loaded (`Work`, `Abort`). Success is reported when the
uploaded firmware is all there is, unless the flash lied or the image left
nothing for `rootfs_data` (`Commit`). A boot takes one of `loads`; a reset at any
point changes nothing. In `UbiRebuild!Firmware`, `loads` is read off the volume
table: `fit` complete, without its update marker, in a table that UBI accepts;
and perhaps nothing, if the partition is partly erased.

### BootTrigger

State: the environment block on the flash (`uenv`: armed, plain or blank), the
copy of the flag in the environment loaded at start (`env_trigger`), the local
`uenv_triggered`, the position, the button countdown in samples, and the number
of operations that failed in this boot. History: what the boot found
(`bootEnv`), whether the flag is still unanswered (`asked`), whether since it was
set something failed or the environment was saved (`relapse`), and how long the
button was really held.

| action | code |
|---|---|
| `EnvLoad` | `env_mtd_load()` |
| `ConsumeRead`, `ConsumeErase`, `ConsumeWrite`, `ConsumeVerify` | `xg2010g_uenv_consume_recovery_trigger()` around its MTD calls |
| `ByTrigger`, `ByButton`, `ButtonSample` | the decision in `board_late_init()` and `xg2010g_recovery_button_confirmed()` |
| `Autoboot`, `CtrlC`, `Command`, `Save` | `bootcmd`, leaving recovery, `http_recovery` and `saveenv` at the prompt |
| `Arm` | `fw_setenv recovery_trigger 1` in the running system (external) |
| `PowerOn`, `PowerCut` | the supply, at any step |

### FipImage and UploadTarget

`FipImage` has no state: `recovery_validate_mtd0_bootloader_image()` over the
parts of an image it looks at, with offsets and sizes that are `Width` bits
wide, and `Bootable`, which says in terms of bytes what BL2 needs.

`UploadTarget` has the board (partitions, environment, RAM; constant during a
behaviour), what is known of UBI (`attached`, the remembered attach error, and
which partitions would attach), the upload (`current_target`, `recv_total`,
`recv_base`, `phase`) and the region being erased (`target`). Sizes are in half
eraseblocks. Names follow the code: `recovery_resolve_target` is assembled from
one operator per kind of target.

| action | code |
|---|---|
| `BeginBadPath`, `BeginBadLayout`, `BeginBadLength`, `Begin` | `httpd_post_begin()` by outcome, with the attach that resolving a firmware target may cause |
| `UploadLost` | the upload does not complete (`RecoveryHttp` has the detail) |
| `FlashImage` | `flash_image()` up to the erase: validate, resolve again, force the rebuild, compare sizes, check the region |
| `EndMtd`, `EndUbi` | the end of the update: what was written may be something UBI can attach or not, whatever it was before (detail in `RawFlash`, `UbiRebuild`) |

### BackupStream

State: per connection the `http_state`, `fs_file` and stream of a GET request,
what TCP holds for it and what its client has received; and the partition with
the phase of an update (`PartitionUpdate`). A response is counted in units of at
most one segment: the header, then the pieces of the partition.

| action | code |
|---|---|
| `Accept`, `Request` | `http_accept()`; `http_recv()` with a GET: `fs_open()`, then `http_send()` |
| `Acked` | the client receives; `http_sent()` sends on |
| `Poll` | `http_poll()`: count, give up at `HTTPD_MAX_RETRIES`, else `http_send()` |
| `ClientClose`, `ConnLost`, `Finished` | `http_recv()` without data; `http_err()` or an abort; the FIN arrives |
| `Updating`, `Restart` | a step of `PartitionUpdate`; a new start of the board |

`http_send` and `http_check_eof` are operators giving the possible outcomes: how
much TCP takes, how large a buffer there is memory for, whether a read fails.
`Carried` says what a segment contains when TCP really sends it: the copy, or
what the referenced memory holds by then. A failing `tcp_close()`, which httpd
retries, is not modelled.

### RecoverySession

State: position in `run_http_recovery()`, the environment variables it touches,
the Ethernet device (current, running, use count), netif, DHCP server, hooks,
listener, LEDs; one host with its DHCP client, and a wire that holds one message
each way. An address is a number, a netmask the size of its subnet.

| action | code |
|---|---|
| `Enter`, `SelectPort`, `SelectFails` | LEDs, `recovery_prepare_static_network()`, `recovery_select_1g_eth()` |
| `EthStart`, `EthStartOther`, `EthStartNone`, `EthStartFails` | `net_lwip_eth_start()` over the outcomes of `eth_init()`: the port, another device, none but with a stale `eth_errno` of 0, an error |
| `Setup`, `SetupFails` | `recovery_net_setup()`, `recovery_dhcp_server_init()`, hooks, `httpd_init()` |
| `FlashBegins`, `FlashEnds`, `CtrlC`, `Reset` | the main loop and its ends |
| `DhcpRecv`, `PcbRecv` | `recovery_dhcp_recv()` by message type (`Answer`), called by the dispatch hook from the main loop, or through the pcb for a frame the hook turned away, also while flashing |
| `SetEnv`, `Discover`, `Replug`, `Renew`, `Inform`, `GetOffer`, `GetAck`, `GetNak`, `GiveUp`, `RequestLost`, `ReplyLost` | the user, the host and the wire (external) |

Met while modelling, and kept in the model:

* `eth_init()` may settle on another device, and the port then starts in
  `new_netif_core()`. `recovery_service_runtime()` and `net_lwip_eth_stop()` use
  `eth_get_dev()`, so during a flash only the other device is polled, and at the
  end only it is halted, although the comment at 4241 speaks of bringing up only
  the recovery port. The history variable `strayed` marks this exception to
  `Accounted`.
* The comment at 1513 says that unicast renewals arrive through the pcb. The
  dispatch hook does not tell them from broadcasts: it takes every packet from
  port 68 to 67 that it can parse, so renewals too are dropped while
  `recovery_rx_srv` is `NULL`, that is, during a flash. What reaches the pcb
  (`PcbRecv`) is what the hook turns away: fragments, VLAN tags with an id, and
  frames for which it gets no pbuf.
* A server whose own address is the `.2` of its subnet offers that address
  (1607); `Reachable` excludes the case. Every host is offered the same `.2`.
* `ipaddr`, `netmask` and `gatewayip` stay set after a session.

## 3. Runs

| run | checks | bounds |
|---|---|---|
| `raw_flash` | `TypeOK`, `FullProgressIsExact`, `ProgramsOnlyErased`, `JobEnds`, `ImplementsUpdate` | 4 blocks: a good, a skipped, a failing and a last block in one region; all bad-block patterns, all targets, unlimited jobs |
| `http_server` | `TypeOK`, `BodyOwnsServer`, `FlashedImageComplete`, `FlashAfterOwnAck`, `FlashUndisturbed`, `ResetJustified`, `NoResetDuringUpload`, `ServerFreed` | 2 connections, uploads of 1 or 2 segments, 2 reboot timeouts, clients may send too much |
| `http_foreign_ack_flash` | `FlashAfterAck`, violated | 2 connections |
| `ubi_rebuild` | `TypeOK`, `NoEraseUnderUbi`, `InterruptedUpdateMarked`, `AcceptedFits`, `NoSpaceJustified`, `FactorySynced`, `ImplementsFirmwareUpdate` | 4 PEBs for volumes in a partition of 5, a factory volume of 2 with 1 PEB of data, images of 1 to 6; any sequence of jobs, boots, failures and power cuts |
| `ubi_xr1710g_factory` | `FactorySynced`, violated | the same without faults, on a board that is not in the recovery's list |
| `ubi_full_image` | `VolumeTableValid`, violated | the same without faults |
| `boot_trigger` | `TypeOK`, `ArmedEnters`, `EnvPreserved`, `AnsweredOnce`, `ButtonConfirmed`, `BootDecides` | hold times 0 to 3 with a limit of 2, one failing operation per boot, `saveenv` allowed |
| `boot_trigger_saveenv` | `OneShot`, violated | no failing operation |
| `backup_stream` | `TypeOK`, `NothingStaleSent`, `QuietDownloadExact`, `ShortExactlyOnError`, `ReferencesBalanced`, `ConnectionEnds` | one connection; a partition of 2 pieces, block and send buffers of up to 2 units, 2 retries; one update per start of the board |
| `upload_target` | `TypeOK`, `OnlyItsPartition`, `FlashedBootloaderSound`, `AcceptedHasTarget` | some 330 boards with environments (`MCBoards`), every length from -1 to past the largest size, words of 4 bits with a FIP of 5 |
| `recovery_session` | `TypeOK`, `Accounted`, `LeaseAgreed`, `HostServed` | 2 Ethernet devices; the built-in subnet of 4 and a user's of 8 and 4, an unparsable address |

Two connections are one that uploads and one that asks for a reboot or is left
over from an earlier request; the run was also made with three (1.28 million
states, same result). Two segments are the shortest upload that can be cut in
the middle. `MaxTimers` bounds the reboot timeouts pending at once: two are
needed for one to survive `sys_untimeout()`. The bound can be reached only when
responses of several connections complete one reboot request.

With 4 PEBs next to a factory volume of 2 there are images that leave room for
`rootfs_data`, that leave none, that fit only without the factory volume, that
fit only the raw partition, and that are too large for anything; a production
layout may have a factory volume of either size. In `boot_trigger` the longest
hold time is reached, cut to the limit and undercut; one failure per boot is
what `ArmedEnters` allows, because two can lose both copies of the flag (the
environment cannot be read, then the erased block cannot be written).

Connections of `BackupStream` share nothing but the partition, so one shows what
there is to see; the partition, the block buffer and the send buffer are small
enough that each of them is the limit in turn. In `upload_target` the boards are
the two real ones with their own environment, with one left by an older layout
(other partitions, devices and offsets named), with partitions missing or of the
wrong size, with RAM that ends before, in or after the buffer, and boards without
recovery support that follow their environment; FIP offsets and sizes lie around
the size of the FIP and around the end of the word. In `recovery_session` the
user's address is an ordinary host of its own subnet and the `.2` of the built-in
one, so leases of one session are wrong in the next.

`ResetJustified`, `NoResetDuringUpload` and `FlashAfterOwnAck` except what
happens after a client sent more than its Content-Length. There they fail: an overrun ends the POST with a
400 response that `http_handle_post_finished()` marks pending, while
`post_ok = 0` lets the next POST in. Several reboot timeouts pending at once,
of which `recovery_cancel_timeouts()` removes one, also arise only then:
`ResetJustified` covers the single one.

`raw_flash` has bad blocks under every target. Only the bootloader is refused
for them before the erase (`strict_layout`, and the comments at 2579 and
4102-4110); `uenv` and `dsd` skip them, run out of room and end in `-ENOSPC` with
the old contents gone, which `ImplementsUpdate` shows is never reported as
success. `ImplementsFirmwareUpdate` says that nothing half-written or corrupt is
loaded; that a volume found corrupt by `ubi_check_volume()` is still reported as
success is the code's choice and excepted (`lied`). `EnvPreserved` does not say
that the environment survives a power cut between the erase and the write of the
`uenv` block, which nothing in the code ensures; it says that no other moment of
a boot without a failing operation is exposed, and no boot without the flag.
`AcceptedHasTarget` is about refusals before the erase; what a rebuild may run
out of afterwards is `AcceptedFits` and `NoSpaceJustified`.

### What the violated runs show

* `http_foreign_ack_flash`: connection A overruns its upload and gets a 400;
  connection B uploads completely; A's acknowledgement sets `flash_request`
  for B's upload. If B's response is then lost, "flash cancelled" is printed
  and the flash runs all the same.
  A reboot request is exposed to the same acknowledgement, and its cancel path
  leaves the timeout armed (`ResetJustified` fails in the same way).
* `ubi_xr1710g_factory`: the recovery creates the factory volume only for the
  boards in its list, which has no XR1710G. There `rootfs_data` takes every PEB,
  the factory sync fails for lack of space, and the job reports success.
* `ubi_full_image`: an image that takes every PEB next to the factory volume
  gives a `rootfs_data` of no PEBs. `ubi_create_volume()` does not refuse it,
  but UBI's check of the volume table does: the job reports success and the
  next boot cannot attach.
* `boot_trigger_saveenv`: the flag is stripped from the flash, not from the
  environment already loaded; `saveenv` at the prompt puts it back.

In the first the integrity properties still hold: what is flashed is a complete
upload. `AnsweredOnce` is
`OneShot` with two exceptions: `saveenv`, and a failure while the flag is
consumed, after which the flag of the loaded environment counts and is cleared
in RAM only, so that the next boot answers it again.

### Fairness

`RawFlash` assumes weak fairness of the job: one thread, and every MTD call
returns. `RecoveryHttp` assumes weak fairness of the main loop's own steps, of
lwIP's timers, and of `ConnLost` for each connection: `http_poll()` runs every
poll interval and closes a connection after `HTTPD_MAX_RETRIES` polls without
progress, and every upload and response is finite. No client, no user at the
console and no restart after a reset is assumed to act. `BootTrigger` assumes
weak fairness of the boot up to its decision: straight-line code whose MTD calls
return and whose button loop takes a sample every 100 ms. `BackupStream` assumes
weak fairness of `http_poll()` alone, which lwIP's slow timer calls from every
`net_lwip_rx()`: no client is assumed to receive anything. `RecoverySession`
assumes that a flash ends, that the host goes on trying at times of its own that
do not all fall into a flash, that it waits longer than a round trip before it
starts over, and that a message sent again and again arrives in the end (strong
fairness of the deliveries by the main loop, and of the host's tries, of its
accepting an offer and of its starting over while the main loop runs; no frame is
assumed to come through the pcb); nobody is assumed to enter or leave a session.
`UbiRebuild` and `UploadTarget` state safety properties only.

## 4. Proofs

The eight proof modules are checked by TLAPS for every value of the constants.
Every safety invariant and every action property of the passing runs is a
theorem.

`RawFlashProofs` (any number of blocks, any failure and power cut):
`TypeCorrect`, `SuccessExact`, `FullProgressExact`, `StrictUntouched`,
`BadLeftAlone`, `ProgramErased`. `SuccessIsExact` is not inductive: it needs to
know, at every iteration, what the blocks behind and ahead of the loop hold.
`Inv` says that before the erase loop everything is `Old`; that the pre-check
has counted the bad blocks it passed; that a strict job past its pre-check
started on a good region; that behind the erase loop every good block is
erased; and that in the write loop `written <= blk`, all blocks ahead are
`Erased` or bad, and, as long as nothing was skipped (`written = blk`), each
block behind holds its own chunk. The argument for `uenv` and `dsd` is then a
count: the image fills the region, so `written = image` leaves no room for a
skipped block. `RawFlashRefines` shows that every step of the loops is a step of
`PartitionUpdate` or leaves its variables alone; success, the untouched region of
a refused job and the bad blocks left alone are what the abstract `Commit`,
`Refuse`, `Start` and `Touch` demand, and come from the theorems before it.

`RecoveryHttpProofs` (any set of connections, any length, any client):
`TypeCorrect`, `BodyOwned`, `FlashedComplete`, `FlashLeftAlone`,
`FlashAfterOwnAckHolds`, `ResetsJustified`, `UploadsNotReset`. `Inv` adds to
`BodyOwnsServer` that a connection in its body is still short of data
(otherwise an acknowledged response of another connection could request a flash
under it), that what was received belongs to `owner` as long as it may be
flashed, that `flash_request` is set only for a complete upload, that the
receive state rests while `flash_image()` runs, and that no connection survives
into the shell. A second invariant, `Awaited`, carries the theorems about
acknowledgements: unless a client overran, the connection whose response is
pending is the one whose request the server has accepted last, so the callback
that does not look at its connection is right about it. One lemma per action, or per group of actions that touch the
same state, shows that it is kept.

`UbiRebuildProofs` (partitions, volumes and images of any size, any failure,
power cut and sequence of jobs): `TypeCorrect`, `NeverErasedUnderUbi`,
`SuccessFirmware`, `InterruptedMarked`, `AcceptedJobFits`,
`NoSpaceOnlyIfTooLarge`, `FactoryDataSynced` (for boards in the list). The
invariant says for each place of `flash_image()` which volumes exist and how
many PEBs they hold: UBI is detached until the erase is over and attached from
`fit` on, and the cached probe keeps `/about` from changing that; the rebuilt
partition starts empty, so only this job's volumes count against the available
PEBs; from `check` on `fit` is complete. `roomy` jobs have `image` plus the
factory volume within `Avail`, which makes every creation of theirs succeed.

`UbiFirmwareProofs`: `UbiRebuildRefines`. Every step of `UbiRebuild` is a step of
`FirmwareUpdate` or leaves its variables alone. What can be loaded depends on the
whole volume table, so the invariant needs more than `fit`: `InvTable` says that a
blank partition has no volumes, that the table bootcmd uses was just attached,
that a board outside the list gets no factory volume from the rebuild, and that
`rootfs_data` has what `fit` and the factory volume leave. Below `Room` that is
not nothing, the table is valid, and `Commit` follows.

`BootTriggerProofs`: `TypeCorrect`, `ButtonHeld`, `FlagAnsweredOnce` and
`EnvironmentPreserved` without further conditions, `ArmedBootEnters` for at most
one failure per boot. `InvArmed` accounts for the two copies of the flag: while
it is consumed, the loaded environment has it or the one failure has happened.
`InvOnce` says where an answered flag can no longer be unless there was a
relapse, `InvKept` follows the block through its rewriting and says where a
blank one can come from.

`UploadTargetProofs` (any partition sizes, environment, board and RAM; any
images; words of any width): `FipCheckExact` and `ResolveStable` are about the
operators. The first says that the loop over the table of contents accepts
exactly the images that are `Bootable`: the two comparisons of `PayloadInside`
are equivalent to a statement about the payload's bytes because neither can
leave the word, and the index at which the loop stops is the least one
(`MinIsLeast`, from the least-element principle of the library). The second is
the reason why looking a target up twice is harmless: what the first look does
to UBI (attach, or remember that it could not) makes the second one answer the
same. The theorems of the specification are `TypeCorrect`,
`ErasesOnlyItsPartition`, `BootloaderSound` and `AcceptedKeepsTarget`. `Inv` adds
`Promised`: while an upload is received, its length passes the check of
`httpd_post_begin()` with UBI as it is now. One lemma per kind of target says
where it lies and how large it is; from these, what passes the checks of
`flash_image()` is the upload's own region (`Own`).

`BackupStreamProofs` (any number of connections, partition, block buffer and
send buffer of any size): `TypeCorrect`, `NeverStale`, `QuietExact`,
`ShortOnError`, `ReferencesKept`. Connections share only the partition, so the
invariant is one of a connection, `Sound`: the acknowledged, sent, buffered and
read positions are in this order and meet unless a read failed (`Positions`);
what is in the buffer is this response's, and the client has what was in the
buffer (`Contents`); the reference is held while a backup is served
(`Reference`); a connection is closed only when it was cut off or all there was
to send was handed over (`Stage`). The block buffer is refilled only when
`written` has caught up with `filled`, and by then TCP has copied it: that is why
a retransmission cannot carry the next block. Each operator of the model returns
a set of outcomes; a lemma for each says that every outcome is `Sound`.

`RecoverySessionProofs` (any devices, addresses, subnets, sequence of sessions
and messages): `TypeCorrect`, `SessionAccounted`, `LeasesAgreed`. `Accounted`
speaks of the shell and the main loop; `Ledger` says what is held at every place
in between, and that an earlier session leaves at most the port running, because
the device on which `eth_init()` settled is the one that is halted. For
`LeaseAgreed`, the server's addresses are the ones computed from its own, and the
request on the wire names the address the host has asked for.

Assumptions: `NBlocks` is a positive natural; `NoConn` is no connection,
`MaxLen` and `MaxTimers` are positive naturals; the factory data fits the
factory volume, the factory volume is smaller than what UBI offers, and that is
less than the partition; timeouts are naturals; the FIP is smaller than a word
can count, and images have the parts of an image; raw
partitions are a positive number of eraseblocks; the partition, the buffers and
the retries of a backup are positive; the size of a subnet is 1, 2 or a multiple
of 4, which is all that is used of its being a power of two (0 stands for a
netmask that cannot be parsed). TLC evaluates them in every run.

Only model-checked: the liveness properties `JobEnds`, `ServerFreed`,
`BootDecides`, `ConnectionEnds` and `HostServed`, since liveness under fairness
is beyond this prover.

## 5. Not modelled

* What the pages say (`/status`, `/about`, `/probe` text), URI and DHCP option
  parsing, LED patterns and link polling: output, or input that is either
  understood or not.
* The TFTP scripts of the environment: sequential shell over `mtd` and `ubi`
  commands, without the recovery's state.
* TCP and the MTD drivers are environments that fail in every way the callers
  can see; UBI is modelled as far as recovery depends on it.
* SSI and CGI of lwIP's httpd; CI, web assets and the rest of U-Boot, which is
  upstream code and by far the largest part of the tree: the models cover the
  logic this repository adds to it.

The comment on `RECOVERY_UPLOAD_MAX` (135) says that the environment variable
`recovery_max` overrides it; nothing uses the macro. The upload buffer is only
checked against the end of RAM (3757), not against U-Boot's own memory:
`TypeOK` of `UploadTarget` says no more than the code checks.

## 6. Plan

Done: `RawFlash`, `RecoveryHttp`, `UbiRebuild`, `BootTrigger`, `FipImage`,
`UploadTarget`, `BackupStream`, `RecoverySession` with their proofs;
`PartitionUpdate` with its refinement by `RawFlash`, and `FirmwareUpdate` with its
refinement by `UbiRebuild`.

Left: `RecoveryHttp` as an implementation of an abstract upload protocol (one
upload at a time, acknowledged before it is flashed).
