--------------------------- MODULE LengthsVolumes ---------------------------
\* The length functions of src/src/carver.rs for file-system images: a
\* superblock says how many blocks of what size there are.
EXTENDS FileLength

\* A volume image: a superblock read in full, a block count that is not 0.
Volume(s, need, ok, blocks, block) ==
  When(Reads(s, 0, need) /\ ok /\ blocks # 0, Ends(s, blocks * block))

erofs_length(s, h) == Volume(s, 1024 + 64, h.ok /\ h.bits \in 9 .. 16, h.blocks, 2 ^ h.bits)

\* The same with its superblock at sb, which the volume must reach.
VolumeAt(s, sb, need, h) ==
  When(h.blocks * h.block >= sb, Volume(s, sb + need, h.ok, h.blocks, h.block))

f2fs_length(s, h)  == Volume(s, 1024 + 48, h.ok /\ h.bits \in 9 .. 16, h.blocks, 2 ^ h.bits)
btrfs_length(s, h) == Volume(s, 65536 + 256, h.ok /\ h.devices = 1, h.blocks, 1)
xfs_length(s, h)   == Volume(s, 16, h.ok, h.blocks, h.block)
exfat_length(s, h) == Volume(s, 128, h.ok /\ h.bits \in 9 .. 12, h.blocks, 2 ^ h.bits)
apfs_length(s, h)  == Volume(s, 48, h.ok, h.blocks, h.block)
refs_length(s, h)  == Volume(s, 40, h.ok, h.blocks, h.block)
ntfs_length(s, h)  == Volume(s, 48, h.ok, h.blocks, h.block)
\* The header names its last page.
swap_length(s, h) ==
  When(Reads(s, 4086, 10) /\ Reads(s, 1024, 8) /\ h.ok /\ h.blocks # 0, Ends(s, (h.blocks + 1) * 4096))
romfs_length(s, h)  == When(Reads(s, 0, 12) /\ h.ok /\ h.size >= 16, Ends(s, h.size))
cramfs_length(s, h) == When(Reads(s, 0, 32) /\ h.ok /\ h.size >= 64, Ends(s, h.size))
jfs_length(s, h)     == VolumeAt(s, 32768, 32, h)
ufs_length(s, h)     == VolumeAt(s, 8192, 1376, h)
befs_length(s, h)    == VolumeAt(s, 512, 72, h)
hfsplus_length(s, h) == VolumeAt(s, 1024, 48, h)
\* Two places for the superblock, the newer one first; h.at: what each holds.
reiserfs_length(s, h) ==
  LET newer == VolumeAt(s, 65536, 62, h.at[1])
      older == VolumeAt(s, 8192, 62, h.at[2])
  IN  IF newer.st = "end" THEN newer ELSE older

iso9660_length(s, h) ==
  When(h.blocks * h.block >= 32768 + 132, Volume(s, 32768 + 132, h.ok, h.blocks, h.block))
=============================================================================
