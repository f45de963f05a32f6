--------------------------------- MODULE MCBoot ---------------------------------
(***************************************************************************)
(* Instances of Boot: machines that differ in the order and the resources  *)
(* of the nodes of /soc and in the boot hart, and archives that differ in  *)
(* the order and the soundness of their entries.                           *)
(***************************************************************************)
EXTENDS Boot

Plic == Node("plic", TRUE, 0, "none")
Clint0 == Node("clint", TRUE, 0, "none")
Uart(irq) == Node("uart", TRUE, irq, "none")
Gpu == Node("virtio", TRUE, 0, "GPU")
Blk == Node("virtio", TRUE, 0, "Block")
Net == Node("virtio", TRUE, 0, "Net")
Rng == Node("virtio", TRUE, 0, "Rng")
Odd == Node("virtio", TRUE, 0, "Unknown")
Bare(d) == Node(d, FALSE, 3, "Block")
Unknown == Node("none", TRUE, 0, "none")

MCInitPath == <<"bin", "init">>
MCElf == <<1, 2, 3>>
MCOrder == <<"bin", "etc", "init", "sh">>
MCPaths == {<<>>, <<"bin">>, <<"bin", "init">>, <<"bin", "sh">>, <<"etc">>, <<"etc", "init">>}

Dir(p) == Entry("ok", p, "dir", <<>>)
File(p, d) == Entry("ok", p, "file", d)
Link(p, d) == Entry("ok", p, "link", d)
InitFile == File(MCInitPath, MCElf)

Std == <<Uart(3), Plic, Clint0, Gpu, Blk>>
Good == <<Dir(<<".">>), Dir(<<"bin">>), InitFile, Link(<<"bin", "sh">>, <<4>>), Trailer, Dir(<<"etc">>)>>

Socs ==
  {Std,
   <<Gpu, Blk, Gpu, Net, Plic, Uart(2), Uart(3), Clint0>>,    (* two of a kind      *)
   <<Blk, Gpu, Plic, Clint0, Uart(5)>>,                       (* past the first word, GPU last *)
   <<Uart(3), Uart(3), Clint0, Plic, Plic>>,                  (* a shared interrupt *)
   <<Blk, Clint0>>,                                           (* no character device *)
   <<Uart(3), Plic, Clint0, Odd>>,                            (* an unknown virtio type *)
   <<Uart(3), Plic>>,                                         (* no CLINT           *)
   <<Unknown, Gpu, Rng, Blk, Clint0>>,                        (* no UART            *)
   <<Bare("plic"), Bare("clint"), Bare("uart"), Bare("virtio"), Uart(0), Clint0>>}

Archives ==
  {Good,
   <<>>,
   <<InitFile, File(<<"etc", "init">>, <<5>>), Trailer>>,     (* no directories     *)
   <<InitFile, Dir(<<"bin">>), Trailer>>,                     (* directory too late *)
   <<File(<<"bin">>, <<5>>), InitFile>>,                      (* below a file       *)
   <<InitFile, File(MCInitPath, <<5>>)>>,                     (* not executable     *)
   <<Dir(<<"bin">>), Dir(MCInitPath), Trailer>>,
   <<Dir(<<"bin">>), Entry("magic", <<"bin", "sh">>, "file", <<4>>), InitFile>>,
   <<InitFile, Entry("field", <<"etc">>, "file", <<4>>), Trailer>>}

MCPlatforms ==
  {[soc |-> s, boot_cpu |-> 0, archive |-> Good] : s \in Socs} \union
  {[soc |-> Std, boot_cpu |-> c, archive |-> Good] : c \in {1}} \union
  {[soc |-> Std, boot_cpu |-> 0, archive |-> a] : a \in Archives}
=============================================================================
